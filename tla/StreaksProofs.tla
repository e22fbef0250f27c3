---------------------------- MODULE StreaksProofs ----------------------------
(***************************************************************************)
(* Proofs about Streaks, for any number of users, events and days, and     *)
(* whatever calls fail and wherever the worker stops.                      *)
(***************************************************************************)
EXTENDS Streaks, DeliveryProofs

Busy == hand.pc # "idle"

\* Events that are still to be taken.
OnTheWay == sending \cup queued[Worker]

\* Dates are in order: an attempt is saved before its event is handled, and a day counts
\* no earlier than it is danced.
DatesOK ==
  /\ 1 <= day
  /\ \A e \in Events : made[e] <= day
  /\ \A e \in OnTheWay \cup held[Worker] : maker[e] \in Users
  /\ \A u \in Users : last[u] <= day
  /\ Busy <=> hand.event # None
  /\ Busy => /\ maker[hand.event] \in Users
             /\ 1 <= hand.today /\ hand.today <= day /\ made[hand.event] <= hand.today
             /\ \A u \in Users : last[u] <= hand.today
  /\ round.today <= day /\ (round.pc # "idle" => 1 <= round.today)
  /\ round.pc \in {"mark", "read", "tell"} => round.user \in Users

\* Event e is in hand, at one of the steps of pcs.
At(e, pcs) == e = hand.event /\ hand.pc \in pcs

\* Event e has been counted, or its user's streak has ended long after it.
Counted(e) == made[e] <= LastCounted(maker[e]) \/ made[e] < day - 1

\* The streak of u was danced, and every event of u is counted or will be.
StreakOK(u) ==
  /\ LastCounted(u) # Never => DancedFor(u, streak[u], LastCounted(u))
  /\ \A e \in Events : maker[e] = u =>
       Counted(e) \/ e \in OnTheWay \/ At(e, {"get", "incr", "reset"})

\* A streak that can be continued is there, and an event of the day before it began will
\* come too late.
WholeOK(u) ==
  LastCounted(u) >= day - 1 =>
    /\ streak[u] # 0
    /\ \A e \in Events : maker[e] = u /\ made[e] = LastCounted(u) - streak[u] =>
         e \in OnTheWay \/ At(e, {"get"})

\* What holds of a user none of whose events went wrong.
UserOK(u) == StreakOK(u) /\ (u \notin unrenewed => WholeOK(u))

\* Past its first read, the event in hand was saved today, and the streak it goes on with,
\* if any, ended yesterday.
CountOK ==
  hand.pc \in {"incr", "reset", "note"} /\ maker[hand.event] \notin spoiled =>
    /\ made[hand.event] = hand.today
    /\ hand.pc = "incr" => last[maker[hand.event]] = hand.today - 1 \/ hand.today < day
    /\ hand.pc = "reset" =>
         \A e \in Events : maker[e] = maker[hand.event] /\ made[e] = hand.today - 1 => e \in OnTheWay

StreaksOK == (\A u \in Users \ spoiled : UserOK(u)) /\ CountOK

\* The noted day is kept until it is no longer yesterday.
LastOK(u) == /\ last[u] = Never => lastTo[u] = 0
             /\ last[u] # Never => last[u] + 2 <= lastTo[u]

\* A streak that was always renewed outlives the day after the one noted; or the worker is
\* about to renew it.
RenewOK(u) ==
  last[u] # Never /\ streakTo[u] # 0 =>
    \/ streakTo[u] > last[u] + 1
    \/ hand.pc = "renew" /\ maker[hand.event] = u /\ last[u] = hand.today

\* The streak just counted up or begun does not run out before it is renewed.
NotingOK ==
  LET u == maker[hand.event]
  IN  /\ hand.pc \in {"note", "renew"} /\ u \notin unrenewed
      /\ u \notin spoiled \/ (hand.streak # 1 /\ hand.today = day)
      => streakTo[u] = 0 \/ streakTo[u] > day

KeysOK == /\ \A u \in Users : LastOK(u) /\ (streak[u] = 0 => streakTo[u] = 0)
          /\ \A u \in Users \ unrenewed : RenewOK(u)
          /\ NotingOK

\* The streak that a reminder is about was danced up to the day before or later.
RemindOK ==
  LET u == round.user
  IN  u \in Users \ spoiled =>
        /\ round.pc \in {"mark", "read"} =>
             /\ streak[u] # 0 => \E d \in (round.today - 1)..day : DancedFor(u, streak[u], d)
             /\ Busy /\ maker[hand.event] = u => hand.today >= round.today - 1
        /\ round.pc = "tell" =>
             \E d \in (round.today - 1)..day : DancedFor(u, round.streak, d)

\* A day that a user was reminded on is marked, before that.
MarksOK ==
  /\ \A n \in notices : n.kind = "streak_reminder" => <<n.user, n.day>> \in marked
  /\ round.pc \in {"read", "tell"} =>
       /\ <<round.user, round.today>> \in marked
       /\ \A n \in notices : n.kind = "streak_reminder" => <<n.user, n.day>> # <<round.user, round.today>>

\* The steps after the streak was counted up or begun.
AfterCount == {"note", "renew", "keep", "tell"}

\* Once u was told of n days on day d, no count of that day comes to n again.
Passed(u, d, n) ==
  /\ n >= 2 /\ d <= day
  /\ d = day => last[u] = d \/ (last[u] = d - 1 /\ streak[u] >= n)
  /\ Busy => d <= hand.today
  /\ Busy /\ maker[hand.event] = u /\ hand.today = d =>
       /\ hand.pc = "incr" => streak[u] = 0 \/ streak[u] >= n
       /\ hand.pc = "reset" => d < day
       /\ hand.pc \in AfterCount => hand.streak = 1 \/ hand.streak > n

\* The count in hand is that of the streak, while it is the day of the count.
MilestonesOK ==
  /\ \A n \in notices :
       n.kind = "streak_milestone" /\ n.user \notin unrenewed => Passed(n.user, n.day, n.streak)
  /\ LET u == maker[hand.event]
     IN  Busy /\ hand.today = day /\ u \notin unrenewed =>
           /\ hand.pc = "incr" => last[u] = day - 1
           /\ hand.pc \in AfterCount /\ hand.streak # 1 =>
                last[u] \in {day, day - 1} /\ streak[u] >= hand.streak

IInv == /\ TypeOK /\ DatesOK /\ KeysOK /\ StreaksOK /\ RemindOK /\ RemindersAreTrue
        /\ MarksOK /\ MilestonesOK /\ ToldOnce

-----------------------------------------------------------------------------
(* What the steps do to hand and round, field by field. *)

HandIs(pc, event, today, n) ==
  hand' = [pc |-> pc, event |-> event, today |-> today, streak |-> n]
RoundIs(pc, today, user, n) ==
  round' = [pc |-> pc, today |-> today, user |-> user, streak |-> n]

\* The steps of the counting, with the fields of hand.
LEMMA HandForms ==
  ASSUME hand \in Hand
  PROVE  /\ \A pc : Goto(pc) => HandIs(pc, hand.event, hand.today, hand.streak)
         /\ \A pc, n : hand' = [hand EXCEPT !.pc = pc, !.streak = n]
                         => HandIs(pc, hand.event, hand.today, n)
BY DEF Hand, HandIs, Goto

\* INCR takes a number to remember, or fails.
LEMMA IncrForm ==
  ASSUME hand \in Hand, Incr
  PROVE  \/ HandIs("note", hand.event, hand.today, streak[maker[hand.event]] + 1) /\ OnItsDay
            /\ streak' = [streak EXCEPT ![maker[hand.event]] = @ + 1]
         \/ HandIs("commit", hand.event, hand.today, hand.streak) /\ Spoil
<1> PICK n : n = streak[maker[hand.event]] + 1
  OBVIOUS
<1>1. \/ hand' = [hand EXCEPT !.pc = "note", !.streak = n] /\ OnItsDay
         /\ streak' = [streak EXCEPT ![maker[hand.event]] = @ + 1]
      \/ Goto("commit") /\ Spoil
  BY DEF Incr
<1> QED BY <1>1, HandForms

\* The steps of the reminders, with the fields of round.
LEMMA RoundForms ==
  ASSUME round \in Round
  PROVE  /\ \A pc : round' = [round EXCEPT !.pc = pc]
                      => RoundIs(pc, round.today, round.user, round.streak)
         /\ \A u : round' = [round EXCEPT !.pc = "mark", !.user = u]
                      => RoundIs("mark", round.today, u, round.streak)
         /\ \A n : round' = [round EXCEPT !.pc = "tell", !.streak = n]
                      => RoundIs("tell", round.today, round.user, n)
         /\ \A d : round' = [NoRound EXCEPT !.pc = "scan", !.today = d]
                      => RoundIs("scan", d, None, 0)
BY DEF Round, RoundIs, NoRound

\* What a step of the reminders does to round.
LEMMA RemindForm ==
  ASSUME TypeOK, DatesOK, Remind
  PROVE  /\ UNCHANGED <<deliveryVars, calendar, counting>>
         /\ \/ RoundStart /\ RoundIs("scan", day, None, 0)
            \/ \E u \in Users : RoundCheck(u) /\ RoundIs("mark", round.today, u, round.streak)
            \/ RoundEnd /\ RoundIs("idle", 0, None, 0)
            \/ RoundMark /\ \E pc \in {"read", "scan"} :
                              RoundIs(pc, round.today, round.user, round.streak)
            \/ RoundRead /\ RoundIs("tell", round.today, round.user, streak[round.user])
                         /\ streak[round.user] # 0
            \/ RoundRead /\ RoundIs("scan", round.today, round.user, round.streak)
            \/ RoundTell /\ RoundIs("scan", round.today, None, 0)
<1> USE RoundForms DEF TypeOK
<1>1. UNCHANGED <<deliveryVars, calendar, counting>>
  BY DEF Remind, RoundStart, RoundEnd, RoundMark, RoundRead, RoundCheck, RoundTell
<1>2. CASE RoundStart
  BY <1>1, <1>2 DEF RoundStart
<1>3. ASSUME NEW u \in Users, RoundCheck(u)
      PROVE  RoundCheck(u) /\ RoundIs("mark", round.today, u, round.streak)
  BY <1>3 DEF RoundCheck
<1>4. CASE RoundEnd
  BY <1>1, <1>4 DEF RoundEnd, RoundIs, NoRound
<1>5. CASE RoundMark
  BY <1>1, <1>5 DEF RoundMark
<1>6. CASE RoundRead
  BY <1>1, <1>6 DEF RoundRead
<1>7. CASE RoundTell
  BY <1>1, <1>7 DEF RoundTell
<1> QED BY <1>1, <1>2, <1>3, <1>4, <1>5, <1>6, <1>7 DEF Remind

-----------------------------------------------------------------------------
(* Types and dates. *)

\* Every step keeps the types.
LEMMA TypeStep == ASSUME TypeOK, DatesOK, [Next]_vars PROVE TypeOK'
<1> USE StreaksAssumption, GroupsAssumption
    DEF Hand, NoHand, Round, NoRound, Never, calendar, reminding, counting, keys, excepted, telling
<1>1. DeliveryTypeOK
  BY DEF TypeOK
<1> DEFINE Rest == /\ day \in Nat
                   /\ maker \in [Events -> Users \cup {None}]
                   /\ made \in [Events -> Nat]
                   /\ streak \in [Users -> Nat]
                   /\ streakTo \in [Users -> Nat]
                   /\ last \in [Users -> Nat \cup {Never}]
                   /\ lastTo \in [Users -> Nat]
                   /\ marked \in SUBSET (Users \X Nat)
                   /\ hand \in Hand
                   /\ round \in Round
                   /\ notices \in SUBSET Notice
                   /\ repeated \in SUBSET Notice
                   /\ spoiled \in SUBSET Users
                   /\ unrenewed \in SUBSET Users
<1>2. Rest
  BY DEF TypeOK
<1>3. SUFFICES DeliveryTypeOK' /\ Rest'
  BY DEF TypeOK
<1>4. CASE PassDay
  BY <1>1, <1>2, <1>4, DeliveryStepType DEF PassDay, LateRenewal
<1>5. ASSUME NEW e \in Events, Save(e) PROVE DeliveryTypeOK' /\ Rest'
  BY <1>1, <1>2, <1>5, DeliveryStepType DEF Save
<1>6. ASSUME NEW e \in Events, Arrives(e) PROVE DeliveryTypeOK' /\ Rest'
  BY <1>1, <1>2, <1>6, DeliveryStepType DEF Arrives
<1>7. ASSUME NEW e \in Events, Lost(e) PROVE DeliveryTypeOK' /\ Rest'
  <2>1. maker[e] \in Users
    BY <1>7 DEF Lost, GiveUp, DatesOK, OnTheWay
  <2> QED BY <1>1, <1>2, <1>7, <2>1, DeliveryStepType DEF Lost
<1>8. ASSUME NEW e \in Events, Take(e) PROVE DeliveryTypeOK' /\ Rest'
  BY <1>1, <1>2, <1>8, DeliveryStepType DEF Take
<1>9. ASSUME NEW u \in Users, ExpireStreak(u) \/ ExpireLast(u) PROVE DeliveryTypeOK' /\ Rest'
  BY <1>1, <1>2, <1>9, DeliveryStepType DEF ExpireStreak, ExpireLast
<1>10. ASSUME Busy PROVE hand.event \in Events /\ maker[hand.event] \in Users
  BY <1>2, <1>10 DEF DatesOK
<1>11. CASE Get
  <2>1. spoiled' \in SUBSET Users
    BY <1>2, <1>10, <1>11 DEF Get, OnItsDay, Spoil, Busy
  <2>2. hand' \in Hand
    BY <1>2, <1>11 DEF Get, Goto, NextCount
  <2> QED BY <1>1, <1>2, <1>11, <2>1, <2>2, DeliveryStepType DEF Get
<1>12. CASE Incr
  <2>1. spoiled' \in SUBSET Users
    BY <1>2, <1>10, <1>12 DEF Incr, OnItsDay, Spoil, Busy
  <2>2. hand' \in Hand
    <3>1. streak[maker[hand.event]] + 1 \in Nat
      BY <1>2, <1>10, <1>12 DEF Incr, Busy
    <3> QED BY <1>2, <1>10, <1>12, <3>1, IncrForm DEF HandIs, Busy, Incr
  <2>3. streak' \in [Users -> Nat]
    BY <1>2, <1>10, <1>12 DEF Incr, Busy
  <2> QED BY <1>1, <1>2, <1>12, <2>1, <2>2, <2>3, DeliveryStepType DEF Incr
<1>13. CASE Reset
  <2>1. hand' \in Hand
    BY <1>2, <1>10, <1>13, HandForms DEF Reset, HandIs, Busy
  <2>2. streak' \in [Users -> Nat] /\ spoiled' \in SUBSET Users
    BY <1>2, <1>10, <1>13 DEF Reset, Spoil, Busy
  <2>3. streakTo' \in [Users -> Nat]
    BY <1>2, <1>10, <1>13 DEF Reset, Busy, Until
  <2> QED BY <1>1, <1>2, <1>13, <2>1, <2>2, <2>3, DeliveryStepType DEF Reset
<1>14. CASE Note \/ Renew \/ Keep
  <2>1. Busy /\ hand' \in Hand
    BY <1>2, <1>14 DEF Note, Renew, Keep, Goto, Busy
  <2>2. last' \in [Users -> Nat \cup {Never}] /\ spoiled' \in SUBSET Users
    BY <1>2, <1>10, <1>14, <2>1 DEF Note, Renew, Keep, Spoil
  <2>3. lastTo' \in [Users -> Nat]
    BY <1>2, <1>10, <1>14, <2>1 DEF Note, Renew, Keep, Until
  <2>4. streakTo' \in [Users -> Nat] /\ unrenewed' \in SUBSET Users
    BY <1>2, <1>10, <1>14, <2>1 DEF Note, Renew, Keep, Renewed, Until
  <2> QED BY <1>1, <1>2, <1>14, <2>1, <2>2, <2>3, <2>4, DeliveryStepType DEF Note, Renew, Keep
<1>15. CASE TellMilestone
  <2>1. Milestone \in Notice
    BY <1>2, <1>10, <1>15 DEF TellMilestone, Milestone, Notice, Busy
  <2>2. notices' \in SUBSET Notice /\ repeated' \in SUBSET Notice
    BY <1>2, <1>15, <2>1 DEF TellMilestone, Tell
  <2> QED BY <1>1, <1>2, <1>15, <2>2, DeliveryStepType DEF TellMilestone, Goto
<1>16. CASE Commit
  BY <1>1, <1>2, <1>10, <1>16, DeliveryStepType DEF Commit, Busy
<1>17. CASE Reconnect
  BY <1>1, <1>2, <1>17, DeliveryStepType DEF Reconnect
<1>18. CASE Restart
  <2>1. InHand \in SUBSET Events
    BY <1>2 DEF InHand
  <2>2. spoiled' \in SUBSET Users /\ unrenewed' \in SUBSET Users
    BY <1>2, <1>10, <1>18 DEF Restart, HandAt, Busy
  <2> QED BY <1>1, <1>2, <1>18, <2>1, <2>2, DeliveryStepType DEF Restart
<1>19. CASE Remind
  <2>1. UNCHANGED <<deliveryVars, calendar, counting>>
    BY <1>19, RemindForm
  <2>2. round' \in Round
    <3>1. \E pc \in {"scan", "mark", "idle", "read", "tell"}, d \in Nat,
             u \in Users \cup {None}, n \in Nat : RoundIs(pc, d, u, n)
      <4> DEFINE Some(pcs) == \E pc \in pcs, d \in Nat, u \in Users \cup {None}, n \in Nat :
                                RoundIs(pc, d, u, n)
      <4>1. CASE RoundStart /\ RoundIs("scan", day, None, 0)
        BY <1>2, <4>1
      <4>2. ASSUME NEW u \in Users, RoundCheck(u), RoundIs("mark", round.today, u, round.streak)
            PROVE  Some({"mark"})
        BY <1>2, <4>2
      <4>3. CASE RoundIs("idle", 0, None, 0)
        BY <4>3
      <4>4. CASE \E pc \in {"read", "scan"} : RoundIs(pc, round.today, round.user, round.streak)
        BY <1>2, <4>4
      <4>5. CASE RoundRead /\ RoundIs("tell", round.today, round.user, streak[round.user])
        <5>1. round.user \in Users
          BY <4>5 DEF RoundRead, DatesOK
        <5> QED BY <1>2, <4>5, <5>1
      <4>6. CASE RoundIs("scan", round.today, None, 0)
        BY <1>2, <4>6
      <4> QED BY <1>19, <4>1, <4>2, <4>3, <4>4, <4>5, <4>6, RemindForm
    <3> QED BY <3>1 DEF RoundIs
  <2>3. marked' \in SUBSET (Users \X Nat)
    <3>1. CASE RoundMark
      BY <1>2, <3>1 DEF RoundMark, DatesOK
    <3>2. CASE ~RoundMark
      BY <1>2, <1>19, <3>2 DEF Remind, RoundStart, RoundEnd, RoundRead, RoundCheck, RoundTell
    <3> QED BY <3>1, <3>2
  <2>4. notices' \in SUBSET Notice /\ repeated' \in SUBSET Notice
    <3>1. CASE RoundTell
      <4>1. Reminder \in Notice
        BY <1>2, <3>1 DEF RoundTell, Reminder, Notice, DatesOK
      <4> QED BY <1>2, <3>1, <4>1 DEF RoundTell, Tell
    <3>2. CASE ~RoundTell
      BY <1>2, <1>19, <3>2 DEF Remind, RoundStart, RoundEnd, RoundMark, RoundRead, RoundCheck
    <3> QED BY <3>1, <3>2
  <2> QED BY <1>1, <1>2, <2>1, <2>2, <2>3, <2>4, DeliveryStepType
<1>21. CASE UNCHANGED vars
  BY <1>1, <1>2, <1>21, DeliveryStepType DEF vars, deliveryVars
<1> QED BY <1>4, <1>5, <1>6, <1>7, <1>8, <1>9, <1>11, <1>12, <1>13, <1>14, <1>15, <1>16, <1>17,
           <1>18, <1>19, <1>21 DEF Next, Count

\* Every step keeps the dates in order.
LEMMA DatesStep == ASSUME TypeOK, DatesOK, [Next]_vars PROVE DatesOK'
<1> USE StreaksAssumption, GroupsAssumption
    DEF TypeOK, DeliveryTypeOK, Never, Busy, OnTheWay, calendar, reminding, counting, keys,
        excepted, telling, deliveryVars
<1>1. CASE PassDay
  BY <1>1 DEF PassDay, DatesOK, Hand, Round
<1>2. ASSUME NEW e \in Events, Save(e) PROVE DatesOK'
  BY <1>2 DEF Save, Published, DatesOK, Hand
<1>3. ASSUME NEW e \in Events, Arrives(e) PROVE DatesOK'
  <2>1. OnTheWay' \subseteq OnTheWay
    BY <1>3 DEF Arrives, Arrive
  <2> QED BY <1>3, <2>1 DEF Arrives, Arrive, DatesOK, Hand
<1>4. ASSUME NEW e \in Events, Lost(e) PROVE DatesOK'
  BY <1>4 DEF Lost, GiveUp, DatesOK
<1>5. ASSUME NEW e \in Events, Take(e) PROVE DatesOK'
  BY <1>5 DEF Take, Taken, DatesOK
<1>6. ASSUME NEW u \in Users, ExpireStreak(u) \/ ExpireLast(u) PROVE DatesOK'
  BY <1>6 DEF ExpireStreak, ExpireLast, DatesOK, Hand
<1>7. CASE Get \/ Incr \/ Reset \/ Note \/ Renew \/ Keep \/ TellMilestone
  <2>1. UNCHANGED <<deliveryVars, calendar, reminding>>
    BY <1>7 DEF Get, Incr, Reset, Note, Renew, Keep, TellMilestone
  <2>2. hand'.event = hand.event /\ hand'.today = hand.today /\ Busy /\ Busy'
    BY <1>7 DEF Get, Incr, Reset, Note, Renew, Keep, TellMilestone, Goto, NextCount, Hand
  <2>3. \A u \in Users : last'[u] \in {last[u], hand.today}
    BY <1>7 DEF Get, Incr, Reset, Note, Renew, Keep, TellMilestone
  <2> QED BY <2>1, <2>2, <2>3 DEF DatesOK, Hand
<1>8. CASE Commit
  <2>1. \A e \in held'[Worker] : e \in held[Worker] \cup {hand.event}
    BY <1>8 DEF Commit, Committed
  <2> QED BY <1>8, <2>1 DEF Commit, Committed, DatesOK, NoHand
<1>9. CASE Reconnect
  BY <1>9 DEF Reconnect, Reread, DatesOK
<1>10. CASE Restart
  BY <1>10 DEF Restart, Reread, InHand, DatesOK, NoHand, NoRound
<1>11. CASE Remind
  <2>1. UNCHANGED <<deliveryVars, calendar, counting>>
    BY <1>11, RemindForm
  <2>2. \/ round'.today = day
        \/ round'.today = round.today /\ round.pc # "idle"
        \/ round'.today = 0 /\ round'.pc = "idle"
    <3>1. RoundCheck(round'.user) \/ RoundMark \/ RoundRead \/ RoundTell => round.pc # "idle"
      BY DEF RoundCheck, RoundMark, RoundRead, RoundTell
    <3>2. ASSUME NEW d, NEW pc, NEW u, NEW n, RoundIs(pc, d, u, n)
          PROVE  round'.today = d /\ round'.pc = pc /\ round'.user = u
      BY <3>2 DEF RoundIs
    <3>3. ASSUME NEW u \in Users, RoundCheck(u), RoundIs("mark", round.today, u, round.streak)
          PROVE  round'.today = round.today /\ round.pc # "idle"
      BY <3>1, <3>2, <3>3
    <3> QED BY <1>11, <3>1, <3>2, <3>3, RemindForm
  <2>3. round'.pc \in {"mark", "read", "tell"} => round'.user \in Users
    BY <1>11, RemindForm DEF RoundIs, RoundMark, RoundRead, DatesOK
  <2>4. round'.today <= day /\ (round'.pc # "idle" => 1 <= round'.today)
    BY <2>2 DEF DatesOK
  <2> QED BY <2>1, <2>3, <2>4 DEF DatesOK
<1>12. CASE UNCHANGED vars
  BY <1>12 DEF vars, DatesOK
<1> QED BY <1>1, <1>2, <1>3, <1>4, <1>5, <1>6, <1>7, <1>8, <1>9, <1>10, <1>11, <1>12
        DEF Next, Count
-----------------------------------------------------------------------------
(* Streaks. *)

\* A streak that was danced stays so, and grows by the day that follows it.
LEMMA DancedFacts ==
  ASSUME TypeOK, NEW u \in Users
  PROVE  /\ \A n \in Nat, d \in Nat : n >= 0 /\ DancedFor(u, n, d - 1) /\ d \in Danced(u)
                                         => DancedFor(u, n + 1, d)
         /\ \A d \in Nat : d \in Danced(u) => DancedFor(u, 1, d)
         /\ \A n \in Nat, d \in Nat \cup {Never} :
              DancedFor(u, n, d) /\ Danced(u) \subseteq Danced(u)' => DancedFor(u, n, d)'
<1>1. ASSUME NEW n \in Nat, NEW d \in Nat, DancedFor(u, n, d - 1), d \in Danced(u)
      PROVE  DancedFor(u, n + 1, d)
  <2>1. ASSUME NEW x \in (d - (n + 1) + 1)..d PROVE x \in Danced(u)
    <3>1. CASE x = d
      BY <1>1, <3>1
    <3>2. CASE x # d
      <4>1. x \in (d - 1 - n + 1)..(d - 1)
        BY <3>2
      <4> QED BY <1>1, <4>1 DEF DancedFor
    <3> QED BY <3>1, <3>2
  <2> QED BY <2>1 DEF DancedFor
<1>2. ASSUME NEW d \in Nat, d \in Danced(u) PROVE DancedFor(u, 1, d)
  <2>1. \A x \in (d - 1 + 1)..d : x = d
    OBVIOUS
  <2> QED BY <1>2, <2>1 DEF DancedFor
<1>3. ASSUME NEW n \in Nat, NEW d \in Nat \cup {Never}, DancedFor(u, n, d),
             Danced(u) \subseteq Danced(u)'
      PROVE  DancedFor(u, n, d)'
  BY <1>3 DEF DancedFor
<1> QED BY <1>1, <1>2, <1>3

\* What was danced stays danced.
LEMMA DancedGrows ==
  ASSUME TypeOK, [Next]_vars, NEW u \in Users
  PROVE  Danced(u) \subseteq Danced(u)'
<1>1. CASE \E e \in Events : Save(e)
  BY <1>1, StreaksAssumption DEF Save, Danced, TypeOK
<1>2. CASE UNCHANGED <<maker, made>>
  BY <1>2 DEF Danced
<1>3. CASE ~\E e \in Events : Save(e)
  BY <1>2, <1>3 DEF Next, PassDay, Arrives, Lost, Take, ExpireStreak, ExpireLast, Count, Get, Incr, Reset, Note,
       Renew, Keep, TellMilestone, Commit, Reconnect, Restart, Remind, RoundStart, RoundEnd, RoundMark,
       RoundRead, RoundTell, RoundCheck, calendar, vars
<1> QED BY <1>1, <1>3
\* A streak that a step leaves alone stays right as long as no event gets lost on the way.
LEMMA StreakKept ==
  ASSUME TypeOK, DatesOK, [Next]_vars, TypeOK', NEW u \in Users, UserOK(u),
         unrenewed \subseteq unrenewed',
         day <= day', UNCHANGED <<maker, made>>, streak'[u] = streak[u],
         LastCounted(u)' = LastCounted(u),
         \A e \in Events : maker[e] = u /\ e \in OnTheWay => e \in OnTheWay' \/ At(e, {"get"})',
         \A e \in Events : maker[e] = u /\ At(e, {"get", "incr", "reset"}) =>
           Counted(e) \/ e \in OnTheWay' \/ At(e, {"get", "incr", "reset"})',
         u \notin unrenewed' => \A e \in Events : maker[e] = u /\ At(e, {"get"}) =>
           \/ e \in OnTheWay' \/ At(e, {"get"})'
           \/ made[e] # LastCounted(u) - streak[u] \/ LastCounted(u) < day' - 1
  PROVE  UserOK(u)'
<1>1. (LastCounted(u) # Never => DancedFor(u, streak[u], LastCounted(u)))'
  BY DEF UserOK, StreakOK, DancedFor, Danced, Never
<1>2. ASSUME NEW e \in Events, maker[e] = u
      PROVE  (Counted(e) \/ e \in OnTheWay \/ At(e, {"get", "incr", "reset"}))'
  <2>1. CASE Counted(e)
    <3>1. made[e] <= LastCounted(u) \/ made[e] < day - 1
      BY <1>2, <2>1 DEF Counted
    <3>2. made'[e] <= LastCounted(u)' \/ made'[e] < day' - 1
      BY <3>1 DEF TypeOK
    <3> QED BY <1>2, <3>2 DEF Counted
  <2>2. CASE e \in OnTheWay
    BY <1>2, <2>2 DEF At
  <2>3. CASE At(e, {"get", "incr", "reset"})
    BY <1>2, <2>1, <2>3
  <2> QED BY <1>2, <2>1, <2>2, <2>3 DEF UserOK, StreakOK
<1>3. ASSUME u \notin unrenewed', LastCounted(u) >= day' - 1
      PROVE  /\ streak[u] # 0
             /\ \A e \in Events : maker[e] = u /\ made[e] = LastCounted(u) - streak[u] =>
                  e \in OnTheWay' \/ At(e, {"get"})'
  <2>1. PICK k \in Nat \cup {Never} : k = LastCounted(u)
    BY DEF LastCounted, TypeOK, Hand
  <2>2. k >= day - 1 /\ ~(k < day' - 1)
    BY <1>3, <2>1 DEF TypeOK, Never
  <2> QED BY <1>3, <2>1, <2>2 DEF UserOK, WholeOK
<1> QED BY <1>1, <1>2, <1>3 DEF UserOK, StreakOK, WholeOK

\* Users stay spoiled, and not renewed.
LEMMA SpoiledGrows == ASSUME [Next]_vars PROVE spoiled \subseteq spoiled' /\ unrenewed \subseteq unrenewed'
BY DEF Next, PassDay, Save, Arrives, Lost, Take, ExpireStreak, ExpireLast, Count, Get, Incr, Reset,
       Note, Renew, Keep, TellMilestone, Commit, Reconnect, Restart, Remind, RoundStart, RoundEnd,
       RoundMark, RoundRead, RoundTell, RoundCheck, Spoil, OnItsDay, counting, excepted, vars

\* An INCR that does not spoil the user counts today, the day after the last.
LEMMA IncrDances ==
  ASSUME TypeOK, DatesOK, StreaksOK, Incr, NEW u \in Users, u = maker[hand.event], u \notin spoiled'
  PROVE  /\ HandIs("note", hand.event, hand.today, streak[u] + 1)
         /\ made[hand.event] = day /\ hand.today = day /\ last[u] = day - 1
         /\ streak'[u] = streak[u] + 1
         /\ DancedFor(u, streak[u] + 1, day)
<1>1. /\ HandIs("note", hand.event, hand.today, streak[u] + 1) /\ OnItsDay
      /\ streak' = [streak EXCEPT ![u] = @ + 1]
  BY IncrForm DEF Spoil, TypeOK
<1>2. hand.pc = "incr" /\ Busy
  BY DEF Incr, Busy
<1>3. made[hand.event] = day /\ u \notin spoiled
  BY <1>1 DEF OnItsDay
<1>4. hand.today = day /\ hand.event \in Events /\ 1 <= day /\ day \in Nat
  BY <1>2, <1>3 DEF DatesOK, TypeOK, Hand
<1>5. last[u] = day - 1 /\ LastCounted(u) = day - 1
  BY <1>2, <1>3, <1>4 DEF StreaksOK, CountOK, LastCounted, Noting
<1>6. streak[u] \in Nat /\ streak'[u] = streak[u] + 1
  BY <1>1 DEF TypeOK
<1>7. day \in Danced(u)
  BY <1>3, <1>4 DEF Danced
<1>8. DancedFor(u, streak[u], day - 1)
  BY <1>3, <1>4, <1>5 DEF StreaksOK, UserOK, StreakOK, Never
<1> QED BY <1>1, <1>3, <1>4, <1>5, <1>6, <1>7, <1>8, DancedFacts

\* A SET that does not spoil the user begins a streak with the day of the event.
LEMMA ResetDances ==
  ASSUME TypeOK, DatesOK, StreaksOK, Reset, NEW u \in Users, u = maker[hand.event], u \notin spoiled'
  PROVE  /\ hand.pc = "reset" /\ Busy /\ hand.event \in Events /\ hand.today \in Nat
         /\ made[hand.event] = hand.today /\ 1 <= hand.today /\ hand.today <= day
         /\ last[u] <= hand.today
         /\ streak'[u] = 1
         /\ DancedFor(u, 1, hand.today)
<1>1. hand.pc = "reset" /\ Busy /\ hand.event \in Events /\ hand.today \in Nat
  BY DEF Reset, Busy, DatesOK, TypeOK, Hand
<1>2. streak'[u] = 1 /\ u \notin spoiled
  BY DEF Reset, Spoil, TypeOK
<1>3. made[hand.event] = hand.today /\ 1 <= hand.today /\ hand.today <= day /\ last[u] <= hand.today
  BY <1>1, <1>2 DEF StreaksOK, CountOK, DatesOK
<1>4. hand.today \in Danced(u)
  BY <1>1, <1>3 DEF Danced
<1> QED BY <1>1, <1>2, <1>3, <1>4, DancedFacts

\* Every streak stays right.
LEMMA StreakStep ==
  ASSUME TypeOK, DatesOK, KeysOK, StreaksOK, [Next]_vars, TypeOK', DatesOK',
         NEW u \in Users, u \notin spoiled'
  PROVE  UserOK(u)'
<1> USE StreaksAssumption, GroupsAssumption
<1>1. UserOK(u) /\ u \notin spoiled /\ unrenewed \subseteq unrenewed'
  BY SpoiledGrows DEF StreaksOK
<1>2. 1 <= day /\ day \in Nat
  BY DEF TypeOK, DatesOK
<1> DEFINE Still == /\ UNCHANGED <<maker, made>> /\ day <= day'
                    /\ streak'[u] = streak[u] /\ LastCounted(u)' = LastCounted(u)
           WayKept == \A e \in Events : maker[e] = u /\ e \in OnTheWay
                        => e \in OnTheWay' \/ At(e, {"get"})'
           HandKept == \A e \in Events : maker[e] = u /\ At(e, {"get", "incr", "reset"}) =>
             Counted(e) \/ e \in OnTheWay' \/ At(e, {"get", "incr", "reset"})'
           GetKept == u \notin unrenewed' => \A e \in Events : maker[e] = u /\ At(e, {"get"}) =>
             \/ e \in OnTheWay' \/ At(e, {"get"})'
             \/ made[e] # LastCounted(u) - streak[u] \/ LastCounted(u) < day' - 1
<1>3. Still /\ WayKept /\ HandKept /\ GetKept => UserOK(u)'
  BY <1>1, StreakKept
<1>4. ASSUME UNCHANGED <<maker, made, streak, last, hand>>, day <= day', WayKept PROVE UserOK(u)'
  BY <1>3, <1>4 DEF LastCounted, Noting, At
<1>5. CASE PassDay
  BY <1>2, <1>4, <1>5 DEF PassDay, deliveryVars, OnTheWay, keys
<1>6. ASSUME NEW x \in Events, Save(x) PROVE UserOK(u)'
  <2>1. hand' = hand /\ streak' = streak /\ last' = last /\ day' = day /\ x \in OnTheWay'
        /\ OnTheWay \subseteq OnTheWay'
    BY <1>6 DEF Save, Published, OnTheWay, counting, keys
  <2>2. \A e \in Events : e # x => maker'[e] = maker[e] /\ made'[e] = made[e]
    BY <1>6 DEF Save, TypeOK
  <2>3. maker[x] # u
    BY <1>6 DEF Save
  <2>4. Busy => hand.event # x
    BY <1>6 DEF Save, DatesOK
  <2>5. LastCounted(u)' = LastCounted(u)
    <3>1. CASE Busy
      BY <2>1, <2>2, <2>4, <3>1 DEF LastCounted, Noting, TypeOK, DatesOK, Hand
    <3>2. CASE ~Busy
      BY <2>1, <3>2 DEF LastCounted, Noting, Busy
    <3> QED BY <3>1, <3>2
  <2>6. Danced(u) \subseteq Danced(u)'
    BY DancedGrows
  <2>7. LastCounted(u) # Never => DancedFor(u, streak[u], LastCounted(u))'
    BY <1>1, <2>1, <2>5, <2>6 DEF UserOK, StreakOK, DancedFor
  <2>8. ASSUME NEW e \in Events, maker'[e] = u
        PROVE  (Counted(e) \/ e \in OnTheWay \/ At(e, {"get", "incr", "reset"}))'
    <3>1. CASE e = x
      BY <2>1, <3>1
    <3>2. CASE e # x
      <4>1. maker[e] = u /\ made'[e] = made[e]
        BY <2>2, <2>8, <3>2
      <4>2. Counted(e) => Counted(e)'
        BY <2>1, <2>5, <2>8, <4>1 DEF Counted
      <4> QED BY <1>1, <2>1, <4>1, <4>2 DEF UserOK, StreakOK, At
    <3> QED BY <3>1, <3>2
  <2>9. (LastCounted(u) # Never => DancedFor(u, streak[u], LastCounted(u)))'
    BY <2>1, <2>5, <2>7 DEF Never
  <2>10. ASSUME u \notin unrenewed', LastCounted(u)' >= day' - 1
         PROVE  (/\ streak[u] # 0
                 /\ \A e \in Events : maker[e] = u /\ made[e] = LastCounted(u) - streak[u] =>
                      e \in OnTheWay \/ At(e, {"get"}))'
    <3>1. WholeOK(u)
      BY <1>1, <2>10 DEF UserOK
    <3> QED BY <2>1, <2>2, <2>5, <2>10, <3>1 DEF WholeOK, At
  <2> QED BY <2>8, <2>9, <2>10 DEF UserOK, StreakOK, WholeOK
<1>7. ASSUME NEW e \in Events, Arrives(e) PROVE UserOK(u)'
  <2>1. OnTheWay \subseteq OnTheWay'
    BY <1>7 DEF Arrives, Arrive, OnTheWay, TypeOK, DeliveryTypeOK
  <2> QED BY <1>2, <1>4, <1>7, <2>1 DEF Arrives, calendar, counting, keys
<1>8. ASSUME NEW e \in Events, Lost(e) PROVE UserOK(u)'
  <2>1. maker[e] # u
    BY <1>8 DEF Lost
  <2>2. WayKept
    BY <1>8, <2>1 DEF Lost, GiveUp, OnTheWay
  <2> QED BY <1>2, <1>4, <1>8, <2>2 DEF Lost, calendar, keys
<1>9. ASSUME NEW x \in Events, Take(x) PROVE UserOK(u)'
  <2>1. Still
    BY <1>2, <1>9 DEF Take, LastCounted, Noting, calendar, keys
  <2>2. WayKept
    BY <1>9 DEF Take, Taken, OnTheWay, At, TypeOK, DeliveryTypeOK
  <2>3. HandKept /\ GetKept
    BY <1>9 DEF Take, At
  <2> QED BY <1>3, <2>1, <2>2, <2>3
<1>10. ASSUME NEW v \in Users, ExpireStreak(v) PROVE UserOK(u)'
  <2>1. UNCHANGED <<deliveryVars, maker, made, hand, day, last, unrenewed>> /\ Due(streakTo[v])
    BY <1>10 DEF ExpireStreak, calendar, excepted
  <2>2. OnTheWay' = OnTheWay /\ \A e, pcs : At(e, pcs)' <=> At(e, pcs)
    BY <2>1 DEF OnTheWay, At, deliveryVars
  <2>3. LastCounted(u)' = LastCounted(u)
    BY <2>1 DEF LastCounted, Noting
  <2>4. CASE u # v
    <3>1. streak'[u] = streak[u]
      BY <1>10, <2>4 DEF ExpireStreak, TypeOK
    <3> QED BY <1>2, <1>3, <2>1, <2>2, <2>3, <3>1
  <2>5. CASE u = v
    <3>1. streak'[u] = 0 /\ 1 <= streakTo[u] /\ streakTo[u] <= day /\ streakTo[u] \in Nat
      BY <1>10, <2>1, <2>5 DEF ExpireStreak, Due, TypeOK
    <3>2. PICK k \in Nat \cup {Never} : k = LastCounted(u)
      BY DEF LastCounted, TypeOK, Hand
    <3>3. ASSUME u \notin unrenewed PROVE k < day - 1
      <4>1. ~(hand.pc \in {"note", "renew"} /\ maker[hand.event] = u)
        BY <1>1, <1>2, <3>1, <3>3 DEF KeysOK, NotingOK
      <4>2. k = last[u]
        BY <3>2, <4>1 DEF LastCounted, Noting
      <4>3. last[u] # Never => streakTo[u] > last[u] + 1
        BY <3>1, <3>3, <4>1 DEF KeysOK, RenewOK
      <4> QED BY <1>2, <3>1, <3>2, <4>2, <4>3 DEF Never
    <3>4. DancedFor(u, 0, k)'
      BY <3>2 DEF DancedFor, Never
    <3>5. ASSUME NEW e \in Events, maker[e] = u PROVE Counted(e)' <=> Counted(e)
      BY <2>1, <2>3, <3>5 DEF Counted
    <3>6. StreakOK(u)'
      BY <1>1, <2>1, <2>2, <2>3, <3>1, <3>2, <3>4, <3>5 DEF UserOK, StreakOK
    <3>7. u \notin unrenewed' => WholeOK(u)'
      BY <1>2, <2>1, <2>3, <3>2, <3>3 DEF WholeOK, Never
    <3> QED BY <3>6, <3>7 DEF UserOK
  <2> QED BY <2>4, <2>5
<1>21. ASSUME NEW v \in Users, ExpireLast(v) PROVE UserOK(u)'
  <2>1. UNCHANGED <<deliveryVars, maker, made, hand, day, streak, unrenewed>> /\ Due(lastTo[v])
    BY <1>21 DEF ExpireLast, calendar, excepted
  <2>2. OnTheWay' = OnTheWay /\ \A e, pcs : At(e, pcs)' <=> At(e, pcs)
    BY <2>1 DEF OnTheWay, At, deliveryVars
  <2>3. CASE u # v \/ Noting(u)
    <3>1. LastCounted(u)' = LastCounted(u)
      BY <1>21, <2>1, <2>3 DEF ExpireLast, LastCounted, Noting, TypeOK
    <3> QED BY <1>2, <1>3, <2>1, <2>2, <3>1
  <2>4. CASE u = v /\ ~Noting(u)
    <3>1. LastCounted(u)' = Never
      BY <1>21, <2>1, <2>4 DEF ExpireLast, LastCounted, Noting, TypeOK
    <3>2. LastCounted(u) = last[u] /\ last[u] \in Nat \cup {Never}
      BY <2>4 DEF LastCounted, TypeOK
    <3>3. last[u] < day - 1
      BY <1>2, <2>1, <2>4, <3>2 DEF Due, KeysOK, LastOK, TypeOK, Never
    <3>4. ASSUME NEW e \in Events, maker[e] = u, Counted(e) PROVE Counted(e)'
      <4>1. made[e] <= last[u] \/ made[e] < day - 1
        BY <3>2, <3>4 DEF Counted
      <4>2. made[e] < day - 1
        BY <3>2, <3>3, <4>1 DEF TypeOK, Never
      <4> QED BY <2>1, <4>2 DEF Counted
    <3>5. StreakOK(u)'
      BY <1>1, <2>1, <2>2, <3>1, <3>4 DEF UserOK, StreakOK, Never
    <3>6. WholeOK(u)'
      BY <1>2, <2>1, <3>1 DEF WholeOK, Never
    <3> QED BY <3>5, <3>6 DEF UserOK
  <2> QED BY <2>3, <2>4
<1>11. CASE Get
  <2>1. Still /\ WayKept
    BY <1>2, <1>11 DEF Get, LastCounted, Noting, Goto, NextCount, calendar, keys, deliveryVars,
       OnTheWay, TypeOK, Hand
  <2>2. ASSUME NEW e \in Events, maker[e] = u, e = hand.event
        PROVE  /\ Counted(e) \/ At(e, {"get", "incr", "reset"})'
               /\ u \notin unrenewed => made[e] # LastCounted(u) - streak[u]
    <3>1. made[e] = day /\ hand.today = day
      BY <1>2, <1>11, <2>2 DEF Get, OnItsDay, Spoil, DatesOK, TypeOK, Hand, Busy
    <3>2. LastCounted(u) = last[u]
      BY <1>11 DEF Get, LastCounted, Noting
    <3>3. last[u] \in Nat \cup {Never} /\ last[u] <= day /\ streak[u] \in Nat
      BY DEF TypeOK, DatesOK
    <3>4. ASSUME u \notin unrenewed PROVE made[e] # LastCounted(u) - streak[u]
      <4>1. last[u] = day => streak[u] # 0
        BY <1>1, <1>2, <3>2, <3>4 DEF UserOK, WholeOK
      <4> QED BY <1>2, <3>1, <3>2, <3>3, <4>1 DEF Never
    <3>5. CASE last[u] = day
      BY <2>2, <3>1, <3>2, <3>4, <3>5, <1>2 DEF Counted
    <3>6. CASE last[u] # day
      <4>1. hand'.pc \in {"incr", "reset"} /\ hand'.event = e
        BY <1>1, <1>11, <2>2, <3>1, <3>6 DEF Get, Spoil, Goto, NextCount, TypeOK, Hand
      <4> QED BY <3>4, <4>1 DEF At
    <3> QED BY <3>5, <3>6
  <2>3. u \notin unrenewed' => u \notin unrenewed
    BY <1>1
  <2> QED BY <1>3, <2>1, <2>2, <2>3 DEF At
<1>12. CASE Incr
  <2>1. PICK w \in Users : w = maker[hand.event]
    BY <1>12 DEF Incr, DatesOK, Busy
  <2>2. UNCHANGED <<maker, made, last, day>> /\ OnTheWay' = OnTheWay
    BY <1>12 DEF Incr, calendar, deliveryVars, OnTheWay
  <2>3. CASE w # u
    <3>1. streak'[u] = streak[u]
      BY <1>12, <2>1, <2>3 DEF Incr, TypeOK
    <3>2. hand'.event = hand.event
      BY <1>12 DEF Incr, Goto, TypeOK, Hand
    <3>3. LastCounted(u)' = LastCounted(u)
      BY <2>1, <2>2, <2>3, <3>2 DEF LastCounted, Noting
    <3>4. \A e \in Events : maker[e] = u => e # hand.event
      BY <2>1, <2>3
    <3> QED BY <1>2, <1>3, <2>2, <3>1, <3>3, <3>4 DEF At
  <2>4. CASE w = u
    <3>1. /\ HandIs("note", hand.event, hand.today, streak[u] + 1)
          /\ hand.today = day /\ last[u] = day - 1 /\ streak'[u] = streak[u] + 1
          /\ DancedFor(u, streak[u] + 1, day)
      BY <1>12, <2>1, <2>4, IncrDances
    <3>2. hand.pc = "incr"
      BY <1>12 DEF Incr
    <3>3. LastCounted(u) = day - 1 /\ LastCounted(u)' = day
      BY <2>1, <2>2, <2>4, <3>1, <3>2 DEF LastCounted, Noting, HandIs
    <3>4. streak[u] \in Nat
      BY DEF TypeOK
    <3>5. DancedFor(u, streak[u], LastCounted(u))'
      BY <2>2, <3>1, <3>3 DEF DancedFor, Danced
    <3>6. ASSUME NEW e \in Events, maker[e] = u
          PROVE  /\ Counted(e)'
                 /\ u \notin unrenewed /\ made[e] = day - (streak[u] + 1) => e \in OnTheWay
      <4>1. made[e] \in Nat /\ made[e] <= day
        BY DEF TypeOK, DatesOK
      <4>2. Counted(e)'
        BY <1>2, <2>2, <3>3, <3>6, <4>1 DEF Counted
      <4>3. ASSUME u \notin unrenewed, made[e] = day - (streak[u] + 1) PROVE e \in OnTheWay
        <5>1. made[e] = LastCounted(u) - streak[u] /\ LastCounted(u) >= day - 1
          BY <1>2, <3>3, <3>4, <4>1, <4>3
        <5> QED BY <1>1, <3>2, <3>6, <4>3, <5>1 DEF UserOK, WholeOK, At
      <4> QED BY <4>2, <4>3
    <3>7. StreakOK(u)'
      BY <2>2, <3>5, <3>6 DEF StreakOK
    <3>8. u \notin unrenewed' => WholeOK(u)'
      BY <1>1, <2>2, <3>1, <3>3, <3>4, <3>6 DEF WholeOK
    <3> QED BY <3>7, <3>8 DEF UserOK
  <2> QED BY <2>3, <2>4
<1>13. CASE Reset
  <2>1. PICK w \in Users : w = maker[hand.event]
    BY <1>13 DEF Reset, DatesOK, Busy
  <2>2. UNCHANGED <<maker, made, last, day>> /\ OnTheWay' = OnTheWay
    BY <1>13 DEF Reset, calendar, deliveryVars, OnTheWay
  <2>3. HandIs("note", hand.event, hand.today, 1)
    BY <1>13, HandForms DEF Reset, TypeOK
  <2>4. CASE w # u
    <3>1. streak'[u] = streak[u]
      BY <1>13, <2>1, <2>4 DEF Reset, TypeOK
    <3>2. LastCounted(u)' = LastCounted(u)
      BY <2>1, <2>2, <2>3, <2>4 DEF LastCounted, Noting, HandIs
    <3>3. \A e \in Events : maker[e] = u => e # hand.event
      BY <2>1, <2>4
    <3> QED BY <1>2, <1>3, <2>2, <3>1, <3>2, <3>3 DEF At
  <2>5. CASE w = u
    <3>1. /\ hand.pc = "reset" /\ hand.event \in Events /\ hand.today \in Nat
          /\ made[hand.event] = hand.today /\ hand.today <= day /\ last[u] <= hand.today
          /\ streak'[u] = 1 /\ DancedFor(u, 1, hand.today)
      BY <1>13, <2>1, <2>5, ResetDances
    <3>2. PICK d \in Nat : d = hand.today
      BY <3>1
    <3>3. LastCounted(u)' = d /\ LastCounted(u) = last[u]
      BY <2>1, <2>2, <2>3, <2>5, <3>1, <3>2 DEF LastCounted, Noting, HandIs
    <3>4. DancedFor(u, streak[u], LastCounted(u))'
      BY <2>2, <3>1, <3>2, <3>3 DEF DancedFor, Danced
    <3>5. ASSUME NEW e \in Events, maker[e] = u
          PROVE  /\ Counted(e)' \/ e \in OnTheWay
                 /\ made[e] = d - 1 => e \in OnTheWay
      <4>1. CASE Counted(e)
        <5>1. made[e] <= last[u] \/ made[e] < day - 1
          BY <3>3, <3>5, <4>1 DEF Counted
        <5>2. made[e] <= d \/ made[e] < day - 1
          BY <3>1, <3>2, <5>1 DEF TypeOK, Never
        <5>3. Counted(e)'
          BY <2>2, <3>3, <3>5, <5>2 DEF Counted
        <5> QED BY <1>1, <2>1, <2>5, <3>1, <3>2, <3>5, <5>3 DEF StreaksOK, CountOK
      <4>2. CASE e = hand.event
        <5>1. Counted(e)'
          BY <2>2, <3>1, <3>2, <3>3, <3>5, <4>2 DEF Counted
        <5> QED BY <3>1, <3>2, <4>2, <5>1
      <4>3. CASE e \in OnTheWay
        BY <4>3
      <4> QED BY <1>1, <3>5, <4>1, <4>2, <4>3 DEF UserOK, StreakOK, At
    <3>6. StreakOK(u)'
      BY <2>2, <3>4, <3>5 DEF StreakOK
    <3>7. WholeOK(u)'
      BY <2>2, <3>1, <3>3, <3>5 DEF WholeOK
    <3> QED BY <3>6, <3>7 DEF UserOK
  <2> QED BY <2>4, <2>5
<1>14. CASE Note
  <2>1. UNCHANGED <<maker, made, streak, day>> /\ OnTheWay' = OnTheWay
    BY <1>14 DEF Note, calendar, deliveryVars, OnTheWay
  <2>2. HandIs("renew", hand.event, hand.today, hand.streak)
    BY <1>14, HandForms DEF Note, TypeOK
  <2>3. LastCounted(u)' = LastCounted(u)
    <3>1. CASE maker[hand.event] = u
      BY <1>14, <2>1, <2>2, <3>1 DEF Note, Spoil, LastCounted, Noting, HandIs, TypeOK
    <3>2. CASE maker[hand.event] # u
      BY <1>14, <2>1, <2>2, <3>2 DEF Note, LastCounted, Noting, HandIs, TypeOK
    <3> QED BY <3>1, <3>2
  <2> QED BY <1>2, <1>3, <1>14, <2>1, <2>3 DEF Note, At
<1>15. CASE Renew \/ Keep \/ TellMilestone
  <2>1. UNCHANGED <<deliveryVars, maker, made, day, streak, last>>
        /\ hand.pc \notin {"get", "incr", "reset", "note"}
    BY <1>15 DEF Renew, Keep, TellMilestone, calendar, keys
  <2>2. hand'.pc # "note"
    BY <1>15 DEF Renew, Keep, TellMilestone, Goto, TypeOK, Hand
  <2> QED BY <1>2, <1>3, <2>1, <2>2 DEF deliveryVars, OnTheWay, At, LastCounted, Noting
<1>16. CASE Commit
  BY <1>2, <1>3, <1>16 DEF Commit, Committed, calendar, keys, OnTheWay, At, LastCounted, Noting, NoHand
<1>17. CASE Reconnect
  <2>1. OnTheWay \subseteq OnTheWay'
    BY <1>17 DEF Reconnect, Reread, OnTheWay, TypeOK, DeliveryTypeOK
  <2> QED BY <1>2, <1>4, <1>17, <2>1 DEF Reconnect, calendar, counting, keys
<1>18. CASE Restart
  <2>1. OnTheWay' = OnTheWay \cup held[Worker] \cup InHand
    BY <1>18 DEF Restart, Reread, OnTheWay, TypeOK, DeliveryTypeOK
  <2>2. ~Noting(u)
    BY <1>18 DEF Restart, HandAt, Noting
  <2>3. LastCounted(u)' = LastCounted(u)
    BY <1>18, <2>2 DEF Restart, LastCounted, Noting, NoHand, keys
  <2> QED BY <1>2, <1>3, <1>18, <2>1, <2>3 DEF Restart, calendar, keys, InHand, At
<1>19. CASE Remind
  BY <1>2, <1>4, <1>19, RemindForm DEF calendar, counting, keys, deliveryVars, OnTheWay
<1>20. CASE UNCHANGED vars
  BY <1>2, <1>4, <1>20 DEF vars, OnTheWay
<1> QED BY <1>5, <1>6, <1>7, <1>8, <1>9, <1>10, <1>11, <1>12, <1>13, <1>14, <1>15, <1>16, <1>17,
           <1>18, <1>19, <1>20, <1>21 DEF Next, Count
\* Past its first read, the event in hand stays of its day, and the streak as it was read.
LEMMA CountStep ==
  ASSUME TypeOK, DatesOK, KeysOK, StreaksOK, [Next]_vars, TypeOK', DatesOK'
  PROVE  CountOK'
<1> USE StreaksAssumption, GroupsAssumption
<1>1. 1 <= day /\ day \in Nat /\ spoiled \subseteq spoiled'
  BY SpoiledGrows DEF TypeOK, DatesOK
<1> DEFINE Counting == hand.pc \in {"incr", "reset", "note"}
<1>2. Counting => Busy /\ hand.event \in Events /\ maker[hand.event] \in Users
  BY DEF Busy, DatesOK, TypeOK, Hand
<1>3. ASSUME UNCHANGED <<maker, made, last, hand>>, day <= day',
             \A e \in Events : maker[e] = maker[hand.event] /\ e \in OnTheWay
               => e \in OnTheWay' \/ maker[e] \in spoiled'
      PROVE  CountOK'
  <2>1. CASE ~Counting
    BY <1>3, <2>1 DEF CountOK
  <2>2. CASE Counting /\ maker[hand.event] \notin spoiled'
    <3>1. /\ made[hand.event] = hand.today
          /\ hand.pc = "incr" => last[maker[hand.event]] = hand.today - 1 \/ hand.today < day
      BY <1>1, <2>2 DEF StreaksOK, CountOK
    <3>2. hand.pc = "incr" => last[maker[hand.event]] = hand.today - 1 \/ hand.today < day'
      BY <1>3, <3>1 DEF TypeOK, Hand
    <3>3. hand.pc = "reset" =>
            \A e \in Events : maker[e] = maker[hand.event] /\ made[e] = hand.today - 1
              => e \in OnTheWay'
      BY <1>1, <1>3, <2>2 DEF StreaksOK, CountOK
    <3> QED BY <1>3, <3>1, <3>2, <3>3 DEF CountOK
  <2>3. CASE maker[hand.event] \in spoiled'
    BY <1>3, <2>3 DEF CountOK
  <2> QED BY <2>1, <2>2, <2>3
<1>4. CASE PassDay
  BY <1>1, <1>3, <1>4 DEF PassDay, deliveryVars, OnTheWay, counting, keys
<1>5. ASSUME NEW x \in Events, Save(x) PROVE CountOK'
  <2>1. hand' = hand /\ last' = last /\ day' = day /\ OnTheWay \subseteq OnTheWay' /\ x \in OnTheWay'
    BY <1>5 DEF Save, Published, OnTheWay, counting, keys
  <2>2. \A e \in Events : e # x => maker'[e] = maker[e] /\ made'[e] = made[e]
    BY <1>5 DEF Save, TypeOK
  <2>3. Counting => hand.event # x
    BY <1>2, <1>5 DEF Save
  <2>4. CASE Counting /\ maker[hand.event] \notin spoiled'
    <3>1. maker'[hand.event] = maker[hand.event] /\ made'[hand.event] = made[hand.event]
      BY <1>2, <2>2, <2>3, <2>4
    <3>2. maker[hand.event] \notin spoiled
      BY <1>1, <2>4
    <3>3. /\ made[hand.event] = hand.today
          /\ hand.pc = "incr" => last[maker[hand.event]] = hand.today - 1 \/ hand.today < day
      BY <2>4, <3>2 DEF StreaksOK, CountOK
    <3>4. ASSUME hand.pc = "reset", NEW e \in Events, maker'[e] = maker[hand.event],
                 made'[e] = hand.today - 1
          PROVE  e \in OnTheWay'
      <4>1. CASE e = x
        BY <2>1, <4>1
      <4>2. CASE e # x
        BY <2>1, <2>2, <2>4, <3>2, <3>4, <4>2 DEF StreaksOK, CountOK
      <4> QED BY <4>1, <4>2
    <3> QED BY <2>1, <3>1, <3>3, <3>4 DEF CountOK
  <2>5. CASE ~Counting
    BY <2>1, <2>5 DEF CountOK
  <2>6. CASE Counting /\ maker[hand.event] \in spoiled'
    BY <1>2, <2>1, <2>2, <2>3, <2>6 DEF CountOK
  <2> QED BY <2>4, <2>5, <2>6
<1>6. ASSUME NEW e \in Events, Arrives(e) PROVE CountOK'
  <2>1. OnTheWay \subseteq OnTheWay'
    BY <1>6 DEF Arrives, Arrive, OnTheWay, TypeOK, DeliveryTypeOK
  <2> QED BY <1>1, <1>3, <1>6, <2>1 DEF Arrives, calendar, counting, keys
<1>7. ASSUME NEW x \in Events, Lost(x) PROVE CountOK'
  <2>1. \A e \in Events : e \in OnTheWay => e \in OnTheWay' \/ maker[e] \in spoiled'
    BY <1>7 DEF Lost, GiveUp, OnTheWay
  <2> QED BY <1>1, <1>3, <1>7, <2>1 DEF Lost, calendar, keys
<1>8. ASSUME NEW u \in Users, ExpireStreak(u) PROVE CountOK'
  <2>1. UNCHANGED <<deliveryVars, maker, made, hand, last, day>>
    BY <1>8 DEF ExpireStreak, calendar
  <2> QED BY <1>1, <1>3, <2>1 DEF deliveryVars, OnTheWay
<1>16. ASSUME NEW u \in Users, ExpireLast(u) PROVE CountOK'
  <2>1. UNCHANGED <<deliveryVars, maker, made, hand, day, spoiled>>
    BY <1>16 DEF ExpireLast, calendar, excepted
  <2>2. OnTheWay' = OnTheWay
    BY <2>1 DEF OnTheWay, deliveryVars
  <2>3. CASE Counting /\ maker[hand.event] \notin spoiled
    <3>1. hand.pc = "incr" => last'[maker[hand.event]] = hand.today - 1 \/ hand.today < day
      <4>1. CASE maker[hand.event] = u
        <5>1. last[u] # Never => last[u] + 2 <= day
          BY <1>1, <1>16 DEF ExpireLast, Due, KeysOK, LastOK, TypeOK, Never
        <5> QED BY <1>1, <1>2, <2>3, <4>1, <5>1 DEF StreaksOK, CountOK, DatesOK, TypeOK, Hand, Never
      <4>2. CASE maker[hand.event] # u
        BY <1>2, <1>16, <2>3, <4>2 DEF ExpireLast, StreaksOK, CountOK, TypeOK
      <4> QED BY <4>1, <4>2
    <3> QED BY <2>1, <2>2, <2>3, <3>1 DEF StreaksOK, CountOK
  <2>4. CASE ~(Counting /\ maker[hand.event] \notin spoiled)
    BY <2>1, <2>4 DEF CountOK
  <2> QED BY <2>3, <2>4
<1>9. CASE Get
  <2>1. UNCHANGED <<deliveryVars, maker, made, last, day>> /\ OnTheWay' = OnTheWay
    BY <1>9 DEF Get, calendar, keys, deliveryVars, OnTheWay
  <2>2. hand'.event = hand.event /\ hand'.today = hand.today /\ hand'.pc \in {"incr", "reset", "commit"}
        /\ hand.event \in Events /\ Busy
    BY <1>9 DEF Get, Goto, NextCount, TypeOK, Hand, DatesOK, Busy
  <2>3. CASE hand'.pc # "commit" /\ maker[hand.event] \notin spoiled'
    <3>1. PICK u \in Users : u = maker[hand.event]
      BY <2>2 DEF DatesOK
    <3>2. Goto(NextCount(last[u], hand.today, day - 1)) /\ OnItsDay
      BY <1>9, <2>3, <3>1 DEF Get, Goto, Spoil, TypeOK, Hand
    <3>3. made[hand.event] = day
      BY <2>3, <3>1, <3>2 DEF OnItsDay
    <3>4. hand.today = day
      BY <1>1, <2>2, <3>3 DEF DatesOK, TypeOK, Hand
    <3>5. hand'.pc = NextCount(last[u], day, day - 1)
      BY <3>2, <3>4 DEF Goto, TypeOK, Hand
    <3>6. hand'.pc = "incr" => last[u] = day - 1
      BY <3>5 DEF NextCount
    <3>7. ASSUME hand'.pc = "reset", NEW e \in Events, maker[e] = u, made[e] = day - 1
          PROVE  e \in OnTheWay
      <4>1. last[u] # day /\ last[u] # day - 1 /\ last[u] <= day /\ last[u] \in Nat \cup {Never}
        BY <3>5, <3>7 DEF NextCount, DatesOK, TypeOK
      <4>2. ~Counted(e)
        BY <1>1, <1>9, <3>7, <4>1 DEF Get, Counted, LastCounted, Noting, Never
      <4>3. e # hand.event
        BY <1>1, <3>3, <3>7
      <4> QED BY <1>1, <2>3, <3>1, <3>7, <4>2, <4>3 DEF StreaksOK, UserOK, StreakOK, At
    <3> QED BY <2>1, <2>2, <3>1, <3>3, <3>4, <3>6, <3>7 DEF CountOK
  <2>4. CASE ~(hand'.pc # "commit" /\ maker[hand.event] \notin spoiled')
    BY <2>1, <2>2, <2>4 DEF CountOK
  <2> QED BY <2>3, <2>4
<1>10. CASE Incr
  <2>1. UNCHANGED <<maker, made>> /\ hand'.event = hand.event /\ hand'.today = hand.today
        /\ hand'.pc \in {"note", "commit"}
    BY <1>10, IncrForm DEF Incr, HandIs, calendar, TypeOK
  <2> QED BY <1>1, <1>10, <2>1 DEF StreaksOK, CountOK, Incr
<1>11. CASE Reset
  <2>1. UNCHANGED <<maker, made>> /\ HandIs("note", hand.event, hand.today, 1)
    BY <1>11, HandForms DEF Reset, calendar, TypeOK
  <2> QED BY <1>1, <1>11, <2>1 DEF StreaksOK, CountOK, Reset, HandIs
<1>12. CASE Note \/ Renew \/ Keep \/ TellMilestone \/ Commit \/ Restart \/ \E e \in Events : Take(e)
  BY <1>12 DEF Note, Renew, Keep, TellMilestone, Commit, Restart, Take, Goto, NoHand, CountOK, TypeOK, Hand
<1>13. CASE Reconnect
  <2>1. OnTheWay \subseteq OnTheWay'
    BY <1>13 DEF Reconnect, Reread, OnTheWay, TypeOK, DeliveryTypeOK
  <2> QED BY <1>1, <1>3, <1>13, <2>1 DEF Reconnect, calendar, counting, keys
<1>14. CASE Remind
  BY <1>1, <1>3, <1>14, RemindForm DEF calendar, counting, keys, deliveryVars, OnTheWay
<1>15. CASE UNCHANGED vars
  BY <1>1, <1>3, <1>15 DEF vars, OnTheWay
<1> QED BY <1>4, <1>5, <1>6, <1>7, <1>8, <1>9, <1>10, <1>11, <1>12, <1>13, <1>14, <1>15,
           <1>16 DEF Next, Count

-----------------------------------------------------------------------------
(* The keys. *)

\* The noted day outlives the day after it, and a missing streak has no time to live.
LEMMA LastStep ==
  ASSUME TypeOK, DatesOK, KeysOK, [Next]_vars, NEW u \in Users
  PROVE  (LastOK(u) /\ (streak[u] = 0 => streakTo[u] = 0))'
<1> USE StreaksAssumption DEF Never, Until
<1>1. LastOK(u) /\ (streak[u] = 0 => streakTo[u] = 0) /\ day \in Nat
  BY DEF KeysOK, TypeOK
<1>2. CASE UNCHANGED keys
  BY <1>1, <1>2 DEF keys, LastOK
<1>3. ASSUME NEW v \in Users, ExpireStreak(v) \/ ExpireLast(v)
      PROVE  (LastOK(u) /\ (streak[u] = 0 => streakTo[u] = 0))'
  BY <1>1, <1>3 DEF ExpireStreak, ExpireLast, LastOK, TypeOK
<1>4. ASSUME Busy PROVE maker[hand.event] \in Users /\ hand.today <= day /\ hand.today \in Nat
  BY <1>4 DEF DatesOK, TypeOK, Hand
<1>5. CASE Incr
  BY <1>1, <1>4, <1>5 DEF Incr, Busy, LastOK, TypeOK
<1>6. CASE Reset
  BY <1>1, <1>4, <1>6 DEF Reset, Busy, LastOK, TypeOK
<1>7. CASE Note
  BY <1>1, <1>4, <1>7 DEF Note, Busy, LastOK, TypeOK
<1>8. CASE Renew
  BY <1>1, <1>4, <1>8 DEF Renew, Renewed, Busy, LastOK, TypeOK
<1>9. CASE Keep
  <2>1. last[u] <= day
    BY DEF DatesOK
  <2> QED BY <1>1, <1>4, <1>9, <2>1 DEF Keep, Busy, LastOK, TypeOK
<1>10. CASE Get \/ TellMilestone \/ Commit \/ Restart \/ Remind
  BY <1>2, <1>10, RemindForm DEF Get, TellMilestone, Commit, Restart, counting
<1> QED BY <1>2, <1>3, <1>5, <1>6, <1>7, <1>8, <1>9, <1>10
        DEF Next, Count, PassDay, Save, Arrives, Lost, Take, Reconnect, counting, vars, keys

\* A streak that was always renewed outlives the day after the one noted.
LEMMA RenewStep ==
  ASSUME TypeOK, DatesOK, KeysOK, [Next]_vars, DatesOK', NEW u \in Users, u \notin unrenewed'
  PROVE  RenewOK(u)'
<1> USE StreaksAssumption DEF Never, Until
<1>1. RenewOK(u) /\ LastOK(u) /\ (streak[u] = 0 => streakTo[u] = 0) /\ day \in Nat /\ 1 <= day
      /\ last[u] <= day /\ u \notin unrenewed
  BY SpoiledGrows DEF KeysOK, TypeOK, DatesOK
<1>2. ASSUME streakTo'[u] = streakTo[u], last'[u] = last[u],
             hand.pc = "renew" /\ maker[hand.event] = u =>
               hand' = hand /\ maker'[hand.event] = maker[hand.event]
      PROVE  RenewOK(u)'
  BY <1>1, <1>2 DEF RenewOK
<1>3. CASE PassDay
  BY <1>2, <1>3 DEF PassDay, keys
<1>4. ASSUME NEW x \in Events, Save(x) PROVE RenewOK(u)'
  <2>1. hand.pc = "renew" => maker'[hand.event] = maker[hand.event]
    BY <1>4 DEF Save, DatesOK, TypeOK, Hand, Busy
  <2> QED BY <1>2, <1>4, <2>1 DEF Save, counting, keys
<1>5. CASE Reconnect \/ (\E e \in Events : Arrives(e) \/ Lost(e)) \/ UNCHANGED vars
  BY <1>2, <1>5 DEF Reconnect, Arrives, Lost, calendar, counting, keys, vars
<1>6. CASE Remind
  BY <1>2, <1>6, RemindForm DEF calendar, counting, keys
<1>7. ASSUME NEW v \in Users, ExpireStreak(v) PROVE RenewOK(u)'
  <2>1. streakTo'[u] \in {0, streakTo[u]}
    BY <1>7 DEF ExpireStreak, TypeOK
  <2> QED BY <1>1, <1>7, <2>1 DEF ExpireStreak, RenewOK, calendar
<1>8. ASSUME NEW v \in Users, ExpireLast(v) PROVE RenewOK(u)'
  <2>1. last'[u] \in {Never, last[u]}
    BY <1>8 DEF ExpireLast, TypeOK
  <2> QED BY <1>1, <1>8, <2>1 DEF ExpireLast, RenewOK, calendar
<1>9. ASSUME Busy PROVE maker[hand.event] \in Users /\ hand.today <= day /\ hand.today \in Nat
  BY <1>9 DEF DatesOK, TypeOK, Hand
<1>10. CASE Get \/ Incr \/ TellMilestone \/ Commit \/ Keep
  BY <1>2, <1>10 DEF Get, Incr, TellMilestone, Commit, Keep, keys
<1>11. CASE \E e \in Events : Take(e)
  BY <1>2, <1>11 DEF Take, keys
<1>12. CASE Reset
  <2>1. CASE streakTo'[u] = streakTo[u]
    BY <1>2, <1>12, <2>1 DEF Reset
  <2>2. CASE streakTo'[u] # streakTo[u]
    BY <1>1, <1>9, <1>12, <2>2 DEF Reset, Busy, RenewOK, TypeOK
  <2> QED BY <2>1, <2>2
<1>13. CASE Note
  <2>1. HandIs("renew", hand.event, hand.today, hand.streak)
    BY <1>13, HandForms DEF Note, TypeOK
  <2>2. CASE last'[u] = last[u]
    BY <1>2, <1>13, <2>2 DEF Note
  <2>3. CASE last'[u] # last[u]
    <3>1. maker[hand.event] = u /\ last'[u] = hand.today
      BY <1>9, <1>13, <2>3 DEF Note, Busy, TypeOK
    <3> QED BY <1>13, <2>1, <3>1 DEF Note, RenewOK, HandIs, calendar
  <2> QED BY <2>2, <2>3
<1>14. CASE Renew
  <2>1. CASE maker[hand.event] # u
    BY <1>2, <1>9, <1>14, <2>1 DEF Renew, Renewed, Busy, TypeOK
  <2>2. CASE maker[hand.event] = u
    <3>1. streakTo'[u] = IF streak[u] = 0 THEN streakTo[u] ELSE day + 2
      BY <1>14, <2>2 DEF Renew, Renewed, TypeOK
    <3>2. last'[u] = last[u]
      BY <1>14 DEF Renew
    <3> QED BY <1>1, <3>1, <3>2 DEF RenewOK, TypeOK
  <2> QED BY <2>1, <2>2
<1>15. CASE Restart
  BY <1>2, <1>15 DEF Restart, HandAt, keys
<1> QED BY <1>3, <1>4, <1>5, <1>6, <1>7, <1>8, <1>10, <1>11, <1>12, <1>13, <1>14, <1>15 DEF Next, Count

\* Until it is renewed, the streak just counted does not run out.
LEMMA NotingStep ==
  ASSUME TypeOK, DatesOK, KeysOK, StreaksOK, MilestonesOK, [Next]_vars, TypeOK', DatesOK'
  PROVE  NotingOK'
<1> USE StreaksAssumption DEF Never, Until
<1> DEFINE Fit(u) == u \notin spoiled \/ (hand.streak # 1 /\ hand.today = day)
<1>1. SUFFICES ASSUME hand'.pc \in {"note", "renew"}, NEW u, u = maker'[hand'.event],
                      u \notin unrenewed', Fit(u)'
               PROVE  streakTo'[u] = 0 \/ streakTo'[u] > day'
  BY DEF NotingOK
<1>2. /\ u \in Users /\ u \notin unrenewed /\ spoiled \subseteq spoiled'
      /\ day \in Nat /\ 1 <= day /\ streakTo[u] \in Nat /\ streakTo'[u] \in Nat
  <2>1. u \in Users
    BY <1>1 DEF DatesOK, Busy
  <2> QED BY <1>1, <2>1, SpoiledGrows DEF TypeOK, DatesOK
<1>3. ASSUME hand.pc \in {"note", "renew"}, u = maker[hand.event], Fit(u)
      PROVE  streakTo[u] = 0 \/ streakTo[u] > day
  BY <1>2, <1>3 DEF KeysOK, NotingOK
<1>4. ASSUME hand' = hand, day' = day, streakTo'[u] \in {0, streakTo[u]},
             maker'[hand.event] = maker[hand.event]
      PROVE  streakTo'[u] = 0 \/ streakTo'[u] > day'
  BY <1>1, <1>2, <1>3, <1>4
<1>5. CASE PassDay
  <2>1. hand' = hand /\ maker' = maker /\ spoiled' = spoiled /\ day' = day + 1 /\ streakTo' = streakTo
    BY <1>5 DEF PassDay, keys
  <2>2. hand.today # day + 1
    BY <1>1, <1>2, <2>1 DEF DatesOK, Busy, TypeOK, Hand
  <2>3. streakTo[u] = 0 \/ streakTo[u] > day
    BY <1>1, <1>3, <2>1, <2>2
  <2>4. streakTo[u] # day + 1
    BY <1>1, <1>2, <1>5, <2>1 DEF PassDay, LateRenewal
  <2> QED BY <1>2, <2>1, <2>3, <2>4
<1>6. ASSUME NEW x \in Events, Save(x) PROVE streakTo'[u] = 0 \/ streakTo'[u] > day'
  <2>1. hand' = hand /\ day' = day /\ streakTo' = streakTo
    BY <1>6 DEF Save, counting, keys
  <2>2. maker'[hand.event] = maker[hand.event]
    BY <1>1, <1>6, <2>1 DEF Save, DatesOK, TypeOK, Hand, Busy
  <2> QED BY <1>4, <2>1, <2>2
<1>7. CASE Reconnect \/ (\E e \in Events : Arrives(e) \/ Lost(e)) \/ UNCHANGED vars
  BY <1>4, <1>7 DEF Reconnect, Arrives, Lost, calendar, counting, keys, vars
<1>8. CASE Remind
  BY <1>4, <1>8, RemindForm DEF calendar, counting, keys
<1>9. ASSUME NEW v \in Users, ExpireStreak(v) \/ ExpireLast(v)
      PROVE  streakTo'[u] = 0 \/ streakTo'[u] > day'
  <2>1. streakTo'[u] \in {0, streakTo[u]}
    BY <1>2, <1>9 DEF ExpireStreak, ExpireLast, TypeOK
  <2> QED BY <1>4, <1>9, <2>1 DEF ExpireStreak, ExpireLast, calendar
<1>10. CASE Incr
  <2>1. HandIs("note", hand.event, hand.today, streak[maker[hand.event]] + 1)
    BY <1>1, <1>10, IncrForm DEF HandIs, TypeOK
  <2>2. UNCHANGED <<maker, day, last, streakTo>> /\ hand.pc = "incr" /\ Busy
    BY <1>10 DEF Incr, calendar, Busy
  <2>3. u = maker[hand.event] /\ hand'.today = hand.today
    BY <1>1, <2>1, <2>2 DEF HandIs
  <2>4. last[u] = day - 1
    <3>1. CASE u \notin spoiled'
      BY <1>2, <1>10, <2>3, <3>1, IncrDances
    <3>2. CASE hand.today = day
      BY <1>2, <2>2, <2>3, <3>2 DEF MilestonesOK
    <3> QED BY <1>1, <2>2, <2>3, <3>1, <3>2
  <2>5. RenewOK(u)
    BY <1>2 DEF KeysOK
  <2> QED BY <1>2, <2>2, <2>4, <2>5 DEF RenewOK
<1>11. CASE Reset
  <2>1. HandIs("note", hand.event, hand.today, 1) /\ maker' = maker /\ day' = day
    BY <1>11, HandForms DEF Reset, TypeOK, calendar
  <2>2. u = maker[hand.event] /\ u \notin spoiled'
    BY <1>1, <2>1 DEF HandIs
  <2> QED BY <1>2, <1>11, <2>1, <2>2 DEF Reset, Spoil, TypeOK
<1>12. CASE Note
  <2>1. HandIs("renew", hand.event, hand.today, hand.streak) /\ UNCHANGED <<maker, day, streakTo>>
        /\ hand.pc = "note"
    BY <1>12, HandForms DEF Note, TypeOK, calendar
  <2> QED BY <1>1, <1>2, <1>3, <2>1 DEF HandIs
<1>13. CASE Get \/ Renew \/ Keep \/ TellMilestone \/ Commit \/ Restart \/ \E e \in Events : Take(e)
  BY <1>1, <1>13 DEF Get, NextCount, Renew, Keep, TellMilestone, Commit, Restart, Take, Goto, NoHand,
     TypeOK, Hand
<1> QED BY <1>5, <1>6, <1>7, <1>8, <1>9, <1>10, <1>11, <1>12, <1>13 DEF Next, Count

\* Every step keeps the keys as long as they must live.
LEMMA KeysStep ==
  ASSUME TypeOK, DatesOK, KeysOK, StreaksOK, MilestonesOK, [Next]_vars, TypeOK', DatesOK'
  PROVE  KeysOK'
BY LastStep, RenewStep, NotingStep DEF KeysOK

-----------------------------------------------------------------------------
(* Reminders. *)

\* Time goes on, and an event is taken with the date of that time.
LEMMA CountMoves ==
  ASSUME TypeOK, DatesOK, [Next]_vars, NEW u \in Users
  PROVE  /\ day <= day'
         /\ (Busy /\ maker[hand.event] = u)' =>
              hand'.today = day \/ (Busy /\ maker[hand.event] = u /\ hand'.today = hand.today)
<1> DEFINE Moves == (Busy /\ maker[hand.event] = u)' =>
                      \/ hand'.today = day
                      \/ Busy /\ maker[hand.event] = u /\ hand'.today = hand.today
<1> USE StreaksAssumption
<1>1. day <= day'
  <2>1. CASE PassDay
    BY <2>1 DEF PassDay, TypeOK
  <2>2. CASE ~PassDay
    <3>1. day' = day
      BY <2>2 DEF Next, Save, Arrives, Lost, Take, ExpireStreak, ExpireLast, Count, Get, Incr, Reset,
         Note, Renew, Keep, TellMilestone, Commit, Reconnect, Restart, Remind, RoundStart, RoundEnd,
         RoundMark, RoundRead, RoundTell, RoundCheck, calendar, vars
    <3> QED BY <3>1 DEF TypeOK
  <2> QED BY <2>1, <2>2
<1> SUFFICES Moves
  BY <1>1
<1>2. ASSUME UNCHANGED <<maker, hand>> PROVE Moves
  BY <1>2 DEF Busy
<1>3. ASSUME NEW x \in Events, Save(x) PROVE Moves
  <2>1. hand' = hand
    BY <1>3 DEF Save, counting
  <2>2. ASSUME Busy PROVE maker'[hand.event] = maker[hand.event]
    BY <1>3, <2>2 DEF Save, DatesOK, TypeOK, Hand
  <2> QED BY <2>1, <2>2 DEF Busy
<1>4. ASSUME NEW x \in Events, Take(x) PROVE Moves
  BY <1>4 DEF Take, calendar
<1>5. CASE Count /\ ~Commit
  <2>1. maker' = maker /\ Busy
    BY <1>5 DEF Count, Get, Incr, Reset, Note, Renew, Keep, TellMilestone, calendar, Busy
  <2>2. hand'.event = hand.event /\ hand'.today = hand.today
    BY <1>5 DEF Count, Get, Incr, Reset, Note, Renew, Keep, TellMilestone, Goto, TypeOK, Hand
  <2> QED BY <2>1, <2>2
<1>6. CASE Commit \/ Restart
  BY <1>6 DEF Commit, Restart, Busy, NoHand
<1>7. CASE PassDay \/ Reconnect \/ (\E e \in Events : Arrives(e) \/ Lost(e)) \/ UNCHANGED vars
  BY <1>2, <1>7 DEF PassDay, Reconnect, Arrives, Lost, calendar, counting, vars
<1>8. CASE Remind
  BY <1>2, <1>8, RemindForm DEF calendar, counting
<1>9. CASE \E v \in Users : ExpireStreak(v) \/ ExpireLast(v)
  BY <1>2, <1>9 DEF ExpireStreak, ExpireLast, calendar
<1> QED BY <1>3, <1>4, <1>5, <1>6, <1>7, <1>8, <1>9 DEF Next, Count

\* A streak runs out, or is counted up or begun with a day that was danced.
LEMMA StreakMoves ==
  ASSUME TypeOK, DatesOK, StreaksOK, [Next]_vars, NEW u \in Users, u \notin spoiled'
  PROVE  \/ streak'[u] \in {streak[u], 0}
         \/ /\ Busy /\ maker[hand.event] = u /\ hand.today \in Nat /\ hand.today <= day
            /\ DancedFor(u, streak'[u], hand.today)
<1>1. CASE Incr
  <2>1. CASE maker[hand.event] = u
    <3>1. hand.today = day /\ streak'[u] = streak[u] + 1 /\ DancedFor(u, streak[u] + 1, day)
      BY <1>1, <2>1, IncrDances
    <3> QED BY <1>1, <2>1, <3>1 DEF Incr, Busy, TypeOK
  <2>2. CASE maker[hand.event] # u
    BY <1>1, <2>2 DEF Incr, TypeOK
  <2> QED BY <2>1, <2>2
<1>2. CASE Reset
  <2>1. CASE maker[hand.event] = u
    BY <1>2, <2>1, ResetDances
  <2>2. CASE maker[hand.event] # u
    BY <1>2, <2>2 DEF Reset, TypeOK
  <2> QED BY <2>1, <2>2
<1>3. CASE \E v \in Users : ExpireStreak(v)
  BY <1>3 DEF ExpireStreak, TypeOK
<1>4. CASE streak' = streak
  BY <1>4
<1> QED BY <1>1, <1>2, <1>3, <1>4, RemindForm
        DEF Next, Count, PassDay, Save, Arrives, Lost, Take, ExpireLast, Get, Note, Renew, Keep,
            TellMilestone, Commit, Reconnect, Restart, counting, keys, vars

\* The steps beside the reminders.
LEMMA RoundStays ==
  ASSUME [Next]_vars, ~Remind
  PROVE  round' = round \/ round' = NoRound
BY DEF Next, PassDay, Save, Arrives, Lost, Take, ExpireStreak, ExpireLast, Count, Get, Incr, Reset, Note,
       Renew, Keep, TellMilestone, Commit, Reconnect, Restart, reminding, vars

\* The streak that a reminder is about was danced up to the day before or later.
LEMMA RemindStep ==
  ASSUME TypeOK, DatesOK, StreaksOK, RemindOK, [Next]_vars, TypeOK', DatesOK'
  PROVE  RemindOK'
<1> USE StreaksAssumption
<1>1. SUFFICES ASSUME NEW u \in Users, u = round'.user, u \notin spoiled'
               PROVE  /\ round'.pc \in {"mark", "read"} =>
                           /\ streak'[u] # 0 =>
                                \E d \in (round'.today - 1)..day' :
                                  \A x \in (d - streak'[u] + 1)..d : x \in Danced(u)'
                           /\ (Busy /\ maker[hand.event] = u)' => hand'.today >= round'.today - 1
                      /\ round'.pc = "tell" =>
                           \E d \in (round'.today - 1)..day' :
                             \A x \in (d - round'.streak + 1)..d : x \in Danced(u)'
  BY DEF RemindOK, DancedFor, Danced, Busy
<1>2. u \notin spoiled
  BY <1>1, SpoiledGrows
<1>3. PICK t \in Nat : t = round.today /\ t <= day
  BY DEF TypeOK, Round, DatesOK
<1>4. CASE ~Remind /\ round' = round
  <2>1. CASE round.pc \in {"mark", "read"}
    <3>1. /\ streak[u] # 0 => \E d \in (t - 1)..day : DancedFor(u, streak[u], d)
          /\ Busy /\ maker[hand.event] = u => hand.today >= t - 1
      BY <1>1, <1>2, <1>3, <1>4, <2>1 DEF RemindOK
    <3>2. ASSUME streak'[u] # 0 PROVE \E d \in (t - 1)..day : DancedFor(u, streak'[u], d)
      <4>1. CASE streak'[u] = streak[u]
        BY <3>1, <3>2, <4>1
      <4>2. CASE streak'[u] # streak[u]
        <5>1. /\ Busy /\ maker[hand.event] = u /\ hand.today \in Nat /\ hand.today <= day
              /\ DancedFor(u, streak'[u], hand.today)
          BY <1>1, <3>2, <4>2, StreakMoves
        <5>2. hand.today \in (t - 1)..day
          BY <1>3, <3>1, <5>1 DEF TypeOK
        <5> QED BY <5>1, <5>2
      <4> QED BY <4>1, <4>2
    <3>3. ASSUME streak'[u] # 0
          PROVE  \E d \in (t - 1)..day' : \A x \in (d - streak'[u] + 1)..d : x \in Danced(u)'
      <4>1. PICK d \in (t - 1)..day : DancedFor(u, streak'[u], d)
        BY <3>2, <3>3
      <4>2. \A x \in (d - streak'[u] + 1)..d : x \in Danced(u)'
        BY <1>1, <4>1, DancedGrows DEF DancedFor
      <4>3. d \in (t - 1)..day'
        BY <1>1, <1>3, <4>1, CountMoves DEF TypeOK
      <4> QED BY <4>2, <4>3
    <3>4. (Busy /\ maker[hand.event] = u)' => hand'.today >= t - 1
      BY <1>1, <1>3, <3>1, CountMoves DEF TypeOK
    <3> QED BY <1>3, <1>4, <2>1, <3>3, <3>4
  <2>2. CASE round.pc = "tell"
    <3>1. PICK d \in (t - 1)..day : DancedFor(u, round.streak, d)
      BY <1>1, <1>2, <1>3, <1>4, <2>2 DEF RemindOK
    <3>2. \A x \in (d - round.streak + 1)..d : x \in Danced(u)'
      BY <1>1, <3>1, DancedGrows DEF DancedFor
    <3>3. d \in (t - 1)..day'
      BY <1>1, <3>1, CountMoves DEF TypeOK
    <3> QED BY <1>3, <1>4, <2>2, <3>2, <3>3
  <2> QED BY <1>4, <2>1, <2>2
<1>5. CASE ~Remind /\ round' = NoRound
  BY <1>5 DEF NoRound
<1>6. CASE Remind
  <2>1. UNCHANGED <<day, maker, made, streak, last, hand>> /\ (Busy' <=> Busy)
        /\ Danced(u)' = Danced(u)
    BY <1>6, RemindForm DEF calendar, counting, keys, Busy, Danced
  <2>2. ASSUME NEW v \in Users, RoundCheck(v), RoundIs("mark", round.today, v, round.streak)
        PROVE  /\ \E d \in (t - 1)..day : DancedFor(u, streak[u], d)
               /\ Busy /\ maker[hand.event] = u => hand.today >= t - 1
               /\ round'.today = t /\ round'.pc = "mark"
    <3>1. u = v /\ last[u] = t - 1 /\ 1 <= t
      BY <1>1, <1>3, <2>2 DEF RoundCheck, RoundIs, DatesOK
    <3>2. Busy => hand.today >= t - 1 /\ hand.today <= day /\ hand.today \in Nat
      BY <1>3, <3>1 DEF DatesOK, TypeOK, Hand
    <3>3. LastCounted(u) >= t - 1 /\ LastCounted(u) <= day /\ LastCounted(u) \in Nat
      <4>1. CASE Noting(u)
        BY <3>2, <4>1 DEF LastCounted, Noting, Busy
      <4>2. CASE ~Noting(u)
        BY <1>3, <3>1, <4>2 DEF LastCounted, DatesOK, TypeOK
      <4> QED BY <4>1, <4>2
    <3>4. DancedFor(u, streak[u], LastCounted(u))
      BY <1>2, <3>3 DEF StreaksOK, UserOK, StreakOK, Never
    <3>5. LastCounted(u) \in (t - 1)..day
      BY <1>3, <3>3 DEF TypeOK
    <3> QED BY <1>3, <2>2, <3>2, <3>4, <3>5 DEF RoundIs
  <2>3. ASSUME RoundMark, RoundIs("read", round.today, round.user, round.streak)
        PROVE  /\ streak[u] # 0 => \E d \in (t - 1)..day : DancedFor(u, streak[u], d)
               /\ Busy /\ maker[hand.event] = u => hand.today >= t - 1
               /\ round'.today = t /\ round'.pc = "read"
    BY <1>1, <1>2, <1>3, <2>3 DEF RoundMark, RoundIs, RemindOK
  <2>4. ASSUME RoundRead, RoundIs("tell", round.today, round.user, streak[round.user]),
               streak[round.user] # 0
        PROVE  /\ \E d \in (t - 1)..day : DancedFor(u, streak[u], d)
               /\ round'.today = t /\ round'.pc = "tell" /\ round'.streak = streak[u]
    <3>1. round.user = u /\ round.pc = "read"
      BY <1>1, <2>4 DEF RoundRead, RoundIs
    <3> QED BY <1>2, <1>3, <2>4, <3>1 DEF RemindOK, RoundIs
  <2>5. CASE round'.pc \in {"scan", "idle"}
    BY <2>5
  <2>6. CASE \E v \in Users : RoundCheck(v) /\ RoundIs("mark", round.today, v, round.streak)
    BY <2>1, <2>2, <2>6 DEF DancedFor
  <2>7. CASE RoundMark /\ RoundIs("read", round.today, round.user, round.streak)
    BY <2>1, <2>3, <2>7 DEF DancedFor
  <2>8. CASE RoundRead /\ RoundIs("tell", round.today, round.user, streak[round.user])
             /\ streak[round.user] # 0
    BY <2>1, <2>4, <2>8 DEF DancedFor
  <2> QED BY <1>6, <2>5, <2>6, <2>7, <2>8, RemindForm DEF RoundIs
<1> QED BY <1>4, <1>5, <1>6, RoundStays

\* What was told of a streak stays true.
LEMMA RemindersStep ==
  ASSUME TypeOK, DatesOK, RemindOK, RemindersAreTrue, [Next]_vars, TypeOK', DatesOK'
  PROVE  RemindersAreTrue'
<1>1. SUFFICES ASSUME NEW n \in notices', n.kind = "streak_reminder", n.user \notin spoiled'
               PROVE  \E d \in (n.day - 1)..day' : DancedFor(n.user, n.streak, d)'
  BY DEF RemindersAreTrue
<1>2. n.user \in Users /\ n.user \notin spoiled /\ n.day \in Nat
  BY <1>1, SpoiledGrows DEF TypeOK, Notice
<1>3. ASSUME \E d \in (n.day - 1)..day : DancedFor(n.user, n.streak, d)
      PROVE  \E d \in (n.day - 1)..day' : DancedFor(n.user, n.streak, d)'
  <2>1. PICK d \in (n.day - 1)..day : DancedFor(n.user, n.streak, d)
    BY <1>3
  <2>2. DancedFor(n.user, n.streak, d)'
    BY <1>2, <2>1, DancedGrows DEF DancedFor
  <2>3. d \in (n.day - 1)..day'
    BY <1>1, <1>2, <2>1, CountMoves DEF TypeOK
  <2> QED BY <2>2, <2>3
<1>4. CASE n \in notices
  BY <1>1, <1>2, <1>3, <1>4 DEF RemindersAreTrue
<1>5. CASE n \notin notices
  <2>1. notices' \in {notices, notices \cup {Milestone}} \/ RoundTell
    BY DEF Next, PassDay, Save, Arrives, Lost, Take, ExpireStreak, ExpireLast, Count, Get, Incr, Reset, Note,
       Renew, Keep, TellMilestone, Commit, Reconnect, Restart, Remind, RoundStart, RoundEnd, RoundMark,
       RoundRead, RoundCheck, Tell, telling, vars
  <2>2. RoundTell /\ n = Reminder
    BY <1>1, <1>5, <2>1 DEF RoundTell, Tell, Milestone
  <2> QED BY <1>2, <1>3, <2>2 DEF RemindOK, RoundTell, Reminder
<1> QED BY <1>4, <1>5

-----------------------------------------------------------------------------
(* What is told. *)

\* The notices that a step hands over.
LEMMA NoticesGrow ==
  ASSUME [Next]_vars
  PROVE  \/ UNCHANGED telling
         \/ RoundTell
         \/ TellMilestone /\ hand.streak \in Milestones /\ Tell(Milestone)
BY DEF Next, PassDay, Save, Arrives, Lost, Take, ExpireStreak, ExpireLast, Count, Get, Incr, Reset, Note,
       Renew, Keep, TellMilestone, Commit, Reconnect, Restart, Remind, RoundStart, RoundEnd, RoundMark,
       RoundRead, RoundTell, RoundCheck, telling, vars

\* Marks are only added, and before the reminder.
LEMMA MarksStep ==
  ASSUME TypeOK, DatesOK, MarksOK, [Next]_vars
  PROVE  MarksOK'
<1> DEFINE Told(ns, u, d) == \E n \in ns : n.kind = "streak_reminder" /\ n.user = u /\ n.day = d
<1>1. marked \subseteq marked' /\ (marked' # marked => RoundMark)
  BY DEF Next, PassDay, Save, Arrives, Lost, Take, ExpireStreak, ExpireLast, Count, Get, Incr, Reset, Note,
       Renew, Keep, TellMilestone, Commit, Reconnect, Restart, Remind, RoundStart, RoundEnd, RoundMark,
       RoundRead, RoundTell, RoundCheck, reminding, vars
<1>2. /\ \A n \in notices : n.kind = "streak_reminder" => <<n.user, n.day>> \in marked
      /\ round.pc \in {"read", "tell"} => <<round.user, round.today>> \in marked
                                          /\ ~Told(notices, round.user, round.today)
  BY DEF MarksOK
<1>3. ASSUME NEW n \in notices', n.kind = "streak_reminder" PROVE <<n.user, n.day>> \in marked'
  <2>1. CASE n \in notices
    BY <1>1, <1>2, <1>3, <2>1
  <2>2. CASE n \notin notices
    <3>1. RoundTell /\ n = Reminder
      BY <1>3, <2>2, NoticesGrow DEF RoundTell, Tell, Milestone, telling
    <3> QED BY <1>1, <1>2, <3>1 DEF RoundTell, Reminder
  <2> QED BY <2>1, <2>2
<1>4. ~RoundTell => \A u, d : Told(notices', u, d) => Told(notices, u, d)
  BY NoticesGrow DEF Tell, Milestone, telling
<1>5. round'.pc \in {"read", "tell"} => <<round'.user, round'.today>> \in marked'
                                        /\ ~Told(notices', round'.user, round'.today)
  <2>1. CASE ~Remind
    <3>1. ~RoundTell
      BY <2>1 DEF Remind
    <3>2. round' = round \/ round'.pc = "idle"
      BY <2>1, RoundStays DEF NoRound
    <3> QED BY <1>1, <1>2, <1>4, <3>1, <3>2
  <2>2. CASE RoundMark /\ RoundIs("read", round.today, round.user, round.streak)
    <3>1. <<round.user, round.today>> \notin marked /\ <<round.user, round.today>> \in marked'
      BY <2>2 DEF RoundMark, MayRemind, RoundIs
    <3>2. ~RoundTell
      BY <2>2 DEF RoundMark, RoundTell
    <3>3. ~Told(notices, round.user, round.today)
      BY <1>2, <3>1
    <3> QED BY <1>4, <2>2, <3>1, <3>2, <3>3 DEF RoundIs
  <2>3. CASE RoundRead /\ RoundIs("tell", round.today, round.user, streak[round.user])
    <3>1. round.pc = "read" /\ ~RoundTell
      BY <2>3 DEF RoundRead, RoundTell
    <3> QED BY <1>1, <1>2, <1>4, <2>3, <3>1 DEF RoundIs
  <2>4. CASE round'.pc \in {"scan", "idle", "mark"}
    BY <2>4
  <2> QED BY <2>1, <2>2, <2>3, <2>4, RemindForm DEF RoundIs
<1> QED BY <1>3, <1>5 DEF MarksOK

\* A milestone that was told stays passed.
LEMMA PassedStep ==
  ASSUME TypeOK, DatesOK, KeysOK, [Next]_vars, TypeOK', NEW u \in Users, u \notin unrenewed,
         NEW d \in Nat, NEW n \in Nat, Passed(u, d, n)
  PROVE  Passed(u, d, n)'
<1> USE StreaksAssumption DEF Never
<1> DEFINE Own == Busy /\ maker[hand.event] = u /\ hand.today = d
<1>1. n >= 2 /\ d <= day /\ day \in Nat /\ 1 <= day
  BY DEF Passed, TypeOK, DatesOK
<1>2. ASSUME UNCHANGED <<day, maker, streak, last, hand>> PROVE Passed(u, d, n)'
  BY <1>2 DEF Passed, Busy
<1>3. CASE PassDay
  BY <1>1, <1>3 DEF PassDay, Passed, Busy, TypeOK, Hand, DatesOK, keys, AfterCount
<1>4. ASSUME NEW x \in Events, Save(x) PROVE Passed(u, d, n)'
  <2>1. UNCHANGED <<day, streak, last, hand>>
    BY <1>4 DEF Save, counting, keys
  <2>2. ASSUME Busy PROVE maker'[hand.event] = maker[hand.event]
    BY <1>4, <2>2 DEF Save, DatesOK, TypeOK, Hand
  <2> QED BY <2>1, <2>2 DEF Passed, Busy
<1>5. ASSUME NEW x \in Events, Take(x) PROVE Passed(u, d, n)'
  BY <1>1, <1>5 DEF Take, Passed, Busy, calendar, keys, AfterCount
<1>6. ASSUME NEW v \in Users, ExpireStreak(v) PROVE Passed(u, d, n)'
  <2>1. UNCHANGED <<day, maker, hand, last>>
    BY <1>6 DEF ExpireStreak, calendar
  <2>2. CASE u # v
    <3>1. streak'[u] = streak[u]
      BY <1>6, <2>2 DEF ExpireStreak, TypeOK
    <3> QED BY <2>1, <3>1 DEF Passed, Busy
  <2>3. CASE u = v
    <3>1. streak'[u] = 0 /\ 1 <= streakTo[u] /\ streakTo[u] <= day /\ streakTo[u] \in Nat
      BY <1>6, <2>3 DEF ExpireStreak, Due, TypeOK
    <3>2. ~(d = day /\ last[u] = d - 1)
      <4>1. SUFFICES ASSUME d = day, last[u] = d - 1 PROVE FALSE
        OBVIOUS
      <4>2. Busy => d <= hand.today /\ hand.today \in Nat
        BY DEF Passed, TypeOK, Hand
      <4>3. streakTo[u] > last[u] + 1
        BY <1>1, <3>1, <4>1, <4>2 DEF KeysOK, RenewOK, Busy
      <4> QED BY <1>1, <3>1, <4>1, <4>3
    <3> QED BY <1>1, <2>1, <3>1, <3>2 DEF Passed, Busy
  <2> QED BY <2>2, <2>3
<1>15. ASSUME NEW v \in Users, ExpireLast(v) PROVE Passed(u, d, n)'
  <2>1. UNCHANGED <<day, maker, hand, streak>>
    BY <1>15 DEF ExpireLast, calendar
  <2>2. CASE u # v
    <3>1. last'[u] = last[u]
      BY <1>15, <2>2 DEF ExpireLast, TypeOK
    <3> QED BY <2>1, <3>1 DEF Passed, Busy
  <2>3. CASE u = v
    <3>1. last[u] \in Nat \cup {Never} /\ (last[u] # Never => last[u] + 2 <= day)
      BY <1>1, <1>15, <2>3 DEF ExpireLast, Due, KeysOK, LastOK, TypeOK
    <3>2. d # day
      BY <1>1, <3>1 DEF Passed
    <3> QED BY <1>1, <2>1, <3>2 DEF Passed, Busy
  <2> QED BY <2>2, <2>3
<1>7. CASE Get
  <2>1. UNCHANGED <<day, maker, streak, last>> /\ Busy
    BY <1>7 DEF Get, calendar, keys, Busy
  <2>2. /\ hand'.event = hand.event /\ hand'.today = hand.today
        /\ hand'.pc \in {NextCount(last[maker[hand.event]], hand.today, day - 1), "commit"}
    BY <1>7 DEF Get, Goto, TypeOK, Hand
  <2>3. hand'.pc \in {"incr", "reset", "commit"}
    BY <2>2 DEF NextCount
  <2>4. ASSUME Own
        PROVE  /\ hand'.pc = "incr" => streak[u] = 0 \/ streak[u] >= n
               /\ hand'.pc = "reset" => d < day
    <3>1. hand'.pc \in {NextCount(last[u], d, day - 1), "commit"}
      BY <2>2, <2>4
    <3>2. d = day => last[u] = d \/ (last[u] = d - 1 /\ streak[u] >= n)
      BY DEF Passed
    <3>3. last[u] <= d /\ last[u] \in Nat \cup {Never}
      BY <2>1, <2>4 DEF DatesOK, TypeOK
    <3> QED BY <1>1, <3>1, <3>2, <3>3 DEF NextCount
  <2> QED BY <2>1, <2>2, <2>3, <2>4 DEF Passed, Busy, AfterCount
<1>8. CASE Incr
  <2>1. UNCHANGED <<day, maker, last>> /\ Busy /\ hand.pc = "incr"
    BY <1>8 DEF Incr, calendar, keys, Busy
  <2>2. streak[u] \in Nat /\ streak'[u] \in {streak[u], streak[u] + 1}
    BY <1>8 DEF Incr, TypeOK
  <2>3. CASE HandIs("note", hand.event, hand.today, streak[maker[hand.event]] + 1)
    <3>1. ASSUME Own PROVE hand'.streak = 1 \/ hand'.streak > n
      BY <2>1, <2>2, <2>3, <3>1 DEF HandIs, Passed
    <3> QED BY <1>1, <2>1, <2>2, <2>3, <3>1 DEF HandIs, Passed, Busy, AfterCount
  <2>4. CASE HandIs("commit", hand.event, hand.today, hand.streak)
    BY <1>1, <2>1, <2>2, <2>4 DEF HandIs, Passed, Busy, AfterCount
  <2> QED BY <1>8, <2>3, <2>4, IncrForm DEF TypeOK
<1>9. CASE Reset
  <2>1. UNCHANGED <<day, maker, last>> /\ Busy /\ hand.pc = "reset"
    BY <1>9 DEF Reset, calendar, keys, Busy
  <2>2. HandIs("note", hand.event, hand.today, 1)
    BY <1>9, HandForms DEF Reset, TypeOK
  <2>3. CASE maker[hand.event] # u
    <3>1. streak'[u] = streak[u]
      BY <1>9, <2>3 DEF Reset, TypeOK
    <3> QED BY <2>1, <2>2, <2>3, <3>1 DEF HandIs, Passed, Busy, AfterCount
  <2>4. CASE maker[hand.event] = u
    <3>1. d <= hand.today /\ hand.today <= day /\ hand.today \in Nat
      BY <2>1 DEF Passed, DatesOK, TypeOK, Hand
    <3>2. d # day
      BY <1>1, <2>1, <2>4, <3>1 DEF Passed
    <3> QED BY <1>1, <2>1, <2>2, <3>1, <3>2 DEF HandIs, Passed, Busy, AfterCount
  <2> QED BY <2>3, <2>4
<1>10. CASE Note
  <2>1. UNCHANGED <<day, maker, streak>> /\ Busy /\ hand.pc = "note"
    BY <1>10 DEF Note, calendar, keys, Busy
  <2>2. HandIs("renew", hand.event, hand.today, hand.streak)
    BY <1>10, HandForms DEF Note, TypeOK
  <2>3. last'[u] = last[u] \/ last'[u] = hand.today
    BY <1>10 DEF Note, TypeOK
  <2>4. d <= hand.today /\ hand.today <= day /\ hand.today \in Nat
    BY <2>1 DEF Passed, DatesOK, TypeOK, Hand
  <2>5. d = day => hand.today = d
    BY <1>1, <2>4
  <2>6. (d = day => last[u] = d \/ (last[u] = d - 1 /\ streak[u] >= n))'
    BY <2>1, <2>3, <2>5 DEF Passed
  <2> QED BY <1>1, <2>1, <2>2, <2>6 DEF HandIs, Passed, Busy, AfterCount
<1>11. CASE Renew \/ Keep \/ TellMilestone
  <2>1. UNCHANGED <<day, maker, streak, last>> /\ hand.pc \in AfterCount
    BY <1>11 DEF Renew, Keep, TellMilestone, calendar, keys, AfterCount
  <2>2. \E pc \in {"keep", "tell", "commit"} : HandIs(pc, hand.event, hand.today, hand.streak)
    BY <1>11, HandForms DEF Renew, Keep, TellMilestone, TypeOK
  <2> QED BY <2>1, <2>2 DEF HandIs, Passed, Busy, AfterCount
<1>12. CASE Commit \/ Restart
  BY <1>12 DEF Commit, Restart, Passed, Busy, calendar, keys, NoHand
<1>13. CASE Reconnect \/ (\E e \in Events : Arrives(e) \/ Lost(e)) \/ UNCHANGED vars
  BY <1>2, <1>13 DEF Reconnect, Arrives, Lost, calendar, counting, keys, vars
<1>14. CASE Remind
  BY <1>2, <1>14, RemindForm DEF calendar, counting, keys
<1> QED BY <1>3, <1>4, <1>5, <1>6, <1>7, <1>8, <1>9, <1>10, <1>11, <1>12, <1>13, <1>14,
           <1>15 DEF Next, Count

\* While it is the day of the count, the count in hand is that of the streak.
LEMMA CountInHandStep ==
  ASSUME TypeOK, DatesOK, KeysOK, MilestonesOK, [Next]_vars, TypeOK', DatesOK'
  PROVE  (LET u == maker[hand.event]
          IN  Busy /\ hand.today = day /\ u \notin unrenewed =>
                /\ hand.pc = "incr" => last[u] = day - 1
                /\ hand.pc \in AfterCount /\ hand.streak # 1 =>
                     last[u] \in {day, day - 1} /\ streak[u] >= hand.streak)'
<1> USE StreaksAssumption DEF Never, AfterCount
<1> DEFINE Now(w) == /\ hand.pc = "incr" => last[w] = day - 1
                     /\ hand.pc \in AfterCount /\ hand.streak # 1 =>
                          last[w] \in {day, day - 1} /\ streak[w] >= hand.streak
           Then(w) == /\ hand'.pc = "incr" => last'[w] = day' - 1
                      /\ hand'.pc \in AfterCount /\ hand'.streak # 1 =>
                           last'[w] \in {day', day' - 1} /\ streak'[w] >= hand'.streak
<1>1. SUFFICES ASSUME Busy', hand'.today = day', maker'[hand'.event] \notin unrenewed'
               PROVE  Then(maker'[hand'.event])
  OBVIOUS
<1>2. Busy /\ hand.today = day /\ maker[hand.event] \notin unrenewed => Now(maker[hand.event])
  BY DEF MilestonesOK
<1>16. unrenewed \subseteq unrenewed'
  BY SpoiledGrows
<1>3. day \in Nat /\ 1 <= day /\ (Busy => maker[hand.event] \in Users)
  BY DEF TypeOK, DatesOK
<1>4. CASE UNCHANGED <<day, maker, streak, last, hand>>
  BY <1>1, <1>2, <1>4, <1>16 DEF Busy
<1>5. CASE PassDay
  BY <1>1, <1>3, <1>5 DEF PassDay, Busy, DatesOK, TypeOK, Hand
<1>6. ASSUME NEW x \in Events, Save(x) PROVE Then(maker'[hand'.event])
  <2>1. UNCHANGED <<day, streak, last, hand>>
    BY <1>6 DEF Save, counting, keys
  <2>2. maker'[hand.event] = maker[hand.event]
    BY <1>1, <1>6, <2>1 DEF Save, DatesOK, TypeOK, Hand, Busy
  <2> QED BY <1>1, <1>2, <1>16, <2>1, <2>2 DEF Busy
<1>7. CASE \E x \in Events : Take(x)
  BY <1>7 DEF Take
<1>8. ASSUME NEW v \in Users, ExpireStreak(v) \/ ExpireLast(v) PROVE Then(maker'[hand'.event])
  <2>1. UNCHANGED <<day, maker, hand, unrenewed>>
    BY <1>8 DEF ExpireStreak, ExpireLast, calendar, excepted
  <2>2. PICK w \in Users : w = maker[hand.event] /\ w \notin unrenewed
    BY <1>1, <1>3, <2>1 DEF Busy
  <2>3. Now(w)
    BY <1>1, <1>2, <2>1, <2>2 DEF Busy
  <2>4. CASE ExpireStreak(v)
    <3>1. last' = last /\ Due(streakTo[v]) /\ (w # v => streak'[w] = streak[w])
      BY <2>4 DEF ExpireStreak, TypeOK
    <3>2. ASSUME w = v, hand.pc \in AfterCount, hand.streak # 1 PROVE FALSE
      <4>1. last[w] \in {day, day - 1} /\ 1 <= streakTo[w] /\ streakTo[w] <= day
            /\ streakTo[w] \in Nat
        BY <2>3, <3>1, <3>2 DEF Due, TypeOK
      <4>2. ~(hand.pc = "renew")
        BY <1>1, <1>3, <2>1, <2>2, <3>2, <4>1 DEF KeysOK, NotingOK
      <4>3. streakTo[w] > last[w] + 1
        BY <1>3, <2>2, <4>1, <4>2 DEF KeysOK, RenewOK
      <4> QED BY <1>3, <4>1, <4>3
    <3> QED BY <2>1, <2>2, <2>3, <3>1, <3>2
  <2>5. CASE ExpireLast(v)
    <3>1. streak' = streak /\ Due(lastTo[v]) /\ (w # v => last'[w] = last[w])
      BY <2>5 DEF ExpireLast, TypeOK
    <3>2. ASSUME w = v PROVE last[w] \notin {day, day - 1}
      BY <1>3, <2>2, <3>1, <3>2 DEF Due, KeysOK, LastOK, TypeOK
    <3> QED BY <2>1, <2>2, <2>3, <3>1, <3>2
  <2> QED BY <1>8, <2>4, <2>5
<1>9. CASE Get
  <2>1. UNCHANGED <<day, maker, streak, last>>
    BY <1>9 DEF Get, calendar, keys
  <2>2. /\ hand'.event = hand.event /\ hand'.today = hand.today
        /\ hand'.pc \in {NextCount(last[maker[hand.event]], hand.today, day - 1), "commit"}
    BY <1>9 DEF Get, Goto, TypeOK, Hand
  <2> QED BY <1>3, <2>1, <2>2 DEF NextCount
<1>10. CASE Incr
  <2>1. UNCHANGED <<day, maker, last, unrenewed>> /\ Busy /\ hand.pc = "incr"
    BY <1>10 DEF Incr, calendar, keys, Busy
  <2>2. PICK w \in Users : w = maker[hand.event]
    BY <1>3, <2>1
  <2>3. CASE HandIs("note", hand.event, hand.today, streak[w] + 1)
             /\ streak' = [streak EXCEPT ![w] = @ + 1]
    <3>1. streak'[w] = streak[w] + 1 /\ streak[w] \in Nat
      BY <2>3 DEF TypeOK
    <3>2. hand'.event = hand.event /\ hand'.today = hand.today /\ hand'.pc = "note"
          /\ hand'.streak = streak[w] + 1
      BY <2>3 DEF HandIs
    <3>3. last[w] = day - 1
      BY <1>1, <1>2, <2>1, <2>2, <3>2
    <3> QED BY <2>1, <2>2, <3>1, <3>2, <3>3
  <2>4. CASE HandIs("commit", hand.event, hand.today, hand.streak)
    BY <2>4 DEF HandIs
  <2> QED BY <1>10, <2>2, <2>3, <2>4, IncrForm DEF TypeOK
<1>11. CASE Reset
  <2>1. HandIs("note", hand.event, hand.today, 1)
    BY <1>11, HandForms DEF Reset, TypeOK
  <2> QED BY <2>1 DEF HandIs
<1>12. CASE Note
  <2>1. UNCHANGED <<day, maker, streak>> /\ Busy /\ hand.pc = "note"
    BY <1>12 DEF Note, calendar, keys, Busy
  <2>2. HandIs("renew", hand.event, hand.today, hand.streak)
    BY <1>12, HandForms DEF Note, TypeOK
  <2>3. PICK w \in Users : w = maker[hand.event]
    BY <1>3, <2>1
  <2>4. last'[w] = last[w] \/ last'[w] = hand.today
    BY <1>12, <2>3 DEF Note, TypeOK
  <2>5. hand.today = day /\ w \notin unrenewed
    BY <1>1, <1>16, <2>1, <2>2, <2>3 DEF HandIs
  <2> QED BY <1>2, <2>1, <2>2, <2>3, <2>4, <2>5 DEF HandIs
<1>17. CASE Renew \/ Keep
  <2>1. UNCHANGED <<day, maker, streak, last>> /\ Busy /\ hand.pc \in {"renew", "keep"}
    BY <1>17 DEF Renew, Keep, calendar, Busy
  <2>2. \E pc \in {"keep", "tell"} : HandIs(pc, hand.event, hand.today, hand.streak)
    BY <1>17, HandForms DEF Renew, Keep, TypeOK
  <2> QED BY <1>1, <1>2, <1>16, <2>1, <2>2 DEF HandIs
<1>13. CASE TellMilestone \/ Commit \/ Restart
  BY <1>1, <1>13 DEF TellMilestone, Commit, Restart, Goto, NoHand, TypeOK, Hand, Busy
<1>14. CASE Reconnect \/ (\E e \in Events : Arrives(e) \/ Lost(e)) \/ UNCHANGED vars
  BY <1>4, <1>14 DEF Reconnect, Arrives, Lost, calendar, counting, keys, vars
<1>15. CASE Remind
  BY <1>4, <1>15, RemindForm DEF calendar, counting, keys
<1> QED BY <1>5, <1>6, <1>7, <1>8, <1>9, <1>10, <1>11, <1>12, <1>13, <1>14, <1>15,
           <1>17 DEF Next, Count

\* Milestones that were told stay passed, and so is one that is just told.
LEMMA MilestonesStep ==
  ASSUME TypeOK, DatesOK, KeysOK, MilestonesOK, [Next]_vars, TypeOK', DatesOK'
  PROVE  MilestonesOK'
<1>1. ASSUME NEW n \in notices', n.kind = "streak_milestone", n.user \notin unrenewed'
      PROVE  Passed(n.user, n.day, n.streak)'
  <2>1. CASE n \in notices
    <3>1. n.user \in Users /\ n.user \notin unrenewed /\ n.day \in Nat /\ n.streak \in Nat
      BY <1>1, <2>1, SpoiledGrows DEF TypeOK, Notice
    <3>2. Passed(n.user, n.day, n.streak)
      BY <1>1, <2>1, <3>1 DEF MilestonesOK
    <3> QED BY <3>1, <3>2, PassedStep
  <2>2. CASE n \notin notices
    <3>1. TellMilestone /\ hand.streak \in Milestones /\ n = Milestone
      BY <1>1, <2>2, NoticesGrow DEF RoundTell, Tell, Reminder, telling
    <3>2. UNCHANGED <<day, maker, streak, last, unrenewed>> /\ hand.pc = "tell" /\ Busy
          /\ hand'.pc = "commit" /\ hand'.event = hand.event /\ hand'.today = hand.today
      BY <3>1 DEF TellMilestone, calendar, keys, excepted, Goto, Busy, TypeOK, Hand
    <3>3. PICK w \in Users : w = maker[hand.event] /\ w \notin unrenewed
      BY <1>1, <3>1, <3>2 DEF DatesOK, Milestone
    <3>4. PICK d \in Nat, k \in Nat : d = hand.today /\ k = hand.streak /\ k >= 2 /\ d <= day
      BY <3>1, <3>2, StreaksAssumption DEF DatesOK, TypeOK, Hand
    <3>5. d = day => last[w] = d \/ (last[w] = d - 1 /\ streak[w] >= k)
      BY <3>2, <3>3, <3>4 DEF MilestonesOK, AfterCount
    <3>6. Passed(w, d, k)'
      BY <3>2, <3>4, <3>5 DEF Passed, AfterCount
    <3> QED BY <3>1, <3>3, <3>4, <3>6 DEF Milestone
  <2> QED BY <2>1, <2>2
<1> QED BY <1>1, CountInHandStep DEF MilestonesOK

\* Nothing is told twice, but a milestone of a streak that was not renewed.
LEMMA OnceStep ==
  ASSUME TypeOK, DatesOK, MarksOK, MilestonesOK, ToldOnce, [Next]_vars
  PROVE  ToldOnce'
<1> DEFINE Excused(n) == n.kind = "streak_milestone" /\ n.user \in unrenewed
<1>4. unrenewed \subseteq unrenewed'
  BY SpoiledGrows
<1>1. CASE RoundTell
  <2>1. \A n \in notices : ~(n.kind = "streak_reminder" /\ n.user = round.user /\ n.day = round.today)
    BY <1>1 DEF RoundTell, MarksOK
  <2>2. Reminder \notin notices /\ notices' = notices \cup {Reminder}
        /\ repeated' = repeated \cup ({Reminder} \cap notices)
    BY <1>1, <2>1 DEF RoundTell, Reminder, Tell
  <2> QED BY <1>4, <2>1, <2>2 DEF ToldOnce, Reminder
<1>2. CASE TellMilestone /\ hand.streak \in Milestones /\ Tell(Milestone)
  <2>1. hand.pc = "tell" /\ Busy /\ hand.streak \in Nat /\ hand.streak # 1
    BY <1>2, StreaksAssumption DEF TellMilestone, Busy
  <2>2. Milestone \in notices => Excused(Milestone)
    <3>1. SUFFICES ASSUME Milestone \in notices, maker[hand.event] \notin unrenewed PROVE FALSE
      BY DEF Milestone
    <3>2. Passed(maker[hand.event], hand.today, hand.streak)
      BY <3>1 DEF MilestonesOK, Milestone
    <3> QED BY <2>1, <3>2 DEF Passed, AfterCount
  <2>3. notices' = notices \cup {Milestone} /\ \A n \in repeated' : n \in repeated \/ Excused(n)
    BY <1>2, <2>2 DEF Tell
  <2> QED BY <1>4, <2>3 DEF ToldOnce, Milestone
<1>3. CASE UNCHANGED telling
  BY <1>3, <1>4 DEF telling, ToldOnce
<1> QED BY <1>1, <1>2, <1>3, NoticesGrow

-----------------------------------------------------------------------------
(* The invariant and what follows from it. *)

\* The invariant holds at first.
LEMMA IInvInit == Init => IInv
<1> SUFFICES ASSUME Init PROVE IInv
  OBVIOUS
<1> USE StreaksAssumption, GroupsAssumption DEF Init, Never
<1>1. TypeOK
  BY DeliveryInitType DEF TypeOK, NoHand, Hand, NoRound, Round
<1>2. DatesOK
  BY DEF DatesOK, Busy, OnTheWay, DeliveryInit, NoHand, NoRound
<1>3. StreaksOK /\ KeysOK
  <2>1. \A u \in Users : UserOK(u)
    BY DEF UserOK, StreakOK, WholeOK, LastCounted, Noting, NoHand
  <2>2. \A u \in Users : LastOK(u) /\ RenewOK(u) /\ streakTo[u] = 0
    BY DEF LastOK, RenewOK
  <2> QED BY <2>1, <2>2 DEF StreaksOK, CountOK, KeysOK, NotingOK, NoHand
<1>4. RemindOK /\ RemindersAreTrue /\ MarksOK /\ ToldOnce
  BY DEF RemindOK, RemindersAreTrue, MarksOK, ToldOnce, NoRound
<1>5. MilestonesOK
  BY DEF MilestonesOK, Busy, NoHand
<1> QED BY <1>1, <1>2, <1>3, <1>4, <1>5 DEF IInv

\* Every step keeps the invariant.
LEMMA IInvStep == IInv /\ [Next]_vars => IInv'
<1> SUFFICES ASSUME IInv, [Next]_vars PROVE IInv'
  OBVIOUS
<1> USE DEF IInv
<1>1. TypeOK' /\ DatesOK'
  BY TypeStep, DatesStep
<1>2. StreaksOK'
  BY <1>1, StreakStep, CountStep DEF StreaksOK
<1>6. KeysOK'
  BY <1>1, KeysStep
<1>3. RemindOK' /\ RemindersAreTrue'
  BY <1>1, RemindStep, RemindersStep
<1>4. MarksOK' /\ ToldOnce'
  BY MarksStep, OnceStep
<1>5. MilestonesOK'
  BY <1>1, MilestonesStep
<1> QED BY <1>1, <1>2, <1>3, <1>4, <1>5, <1>6

\* In every state the invariant holds.
LEMMA IInvAlways == Spec => []IInv
BY IInvInit, IInvStep, PTL DEF Spec

\* Every variable has its type.
THEOREM TypeCorrect == Spec => []TypeOK
<1>1. IInv => TypeOK
  BY DEF IInv
<1> QED BY <1>1, IInvAlways, PTL

\* No day counts that was not danced and no day twice, though events come again, for users
\* whose events were all handled in time and to the end.
THEOREM StreaksDanced == Spec => []StreaksAreDanced
<1>1. IInv => StreaksAreDanced
  BY DEF IInv, StreaksOK, UserOK, StreakOK, StreaksAreDanced
<1> QED BY <1>1, IInvAlways, PTL

\* For users whose events were all handled in time and to the end, once none of them is
\* waiting: the last two days are noted if they were danced and, unless the streak was once
\* not renewed before midnight, a streak that can be continued misses no day.
THEOREM StreaksWhole == Spec => []StreaksAreWhole
<1>1. IInv => StreaksAreWhole
  <2> SUFFICES ASSUME IInv, NEW u \in Users \ spoiled, ~Waiting(u)
               PROVE  /\ \A d \in Danced(u) : d >= day - 1 => d <= last[u]
                      /\ last[u] >= day - 1 /\ u \notin unrenewed => last[u] - streak[u] \notin Danced(u)
    BY DEF StreaksAreWhole
  <2>1. UserOK(u)
    BY DEF IInv, StreaksOK
  <2>2. LastCounted(u) = last[u] /\ \A e \in Events : maker[e] = u => e # hand.event /\ e \notin OnTheWay
    <3>1. \A e \in Events : maker[e] = u => e # hand.event /\ e \notin OnTheWay
      BY DEF Waiting, OnTheWay
    <3>2. ~Noting(u)
      BY <3>1 DEF Noting, IInv, DatesOK, Busy, TypeOK, Hand
    <3> QED BY <3>1, <3>2 DEF LastCounted
  <2>3. ASSUME NEW e \in Events, maker[e] = u
        PROVE  made[e] <= last[u] \/ made[e] < day - 1
    BY <2>1, <2>2, <2>3 DEF UserOK, StreakOK, Counted, At
  <2>4. ASSUME NEW e \in Events, maker[e] = u, last[u] >= day - 1, u \notin unrenewed
        PROVE  made[e] # last[u] - streak[u]
    BY <2>1, <2>2, <2>4 DEF UserOK, WholeOK, At
  <2> QED BY <2>3, <2>4 DEF Danced, IInv, TypeOK, Never
<1> QED BY <1>1, IInvAlways, PTL

\* A reminder speaks of a streak that was danced up to the day before or later.
THEOREM RemindersTrue == Spec => []RemindersAreTrue
<1>1. IInv => RemindersAreTrue
  BY DEF IInv
<1> QED BY <1>1, IInvAlways, PTL

\* Nobody is reminded twice of a day, whatever crashes, and a milestone is told twice only of
\* a streak that was once not renewed.
THEOREM NothingToldTwice == Spec => []ToldOnce
<1>1. IInv => ToldOnce
  BY DEF IInv
<1> QED BY <1>1, IInvAlways, PTL
=============================================================================
