----------------------------- MODULE ViewsProofs -----------------------------
(***************************************************************************)
(* Proofs about Views, for any number of views and events, and whatever    *)
(* calls fail: that no view is lost but where something failed, and that   *)
(* all others are written in the end.                                      *)
(***************************************************************************)
EXTENDS Views, DeliveryProofs

\* Events on their way.
Underway == sending \cup queued[Worker] \cup held[Worker] \cup ({hand.event} \ {None})

\* They tell of views, and what the consumer has added is of an event.
EventsOK == /\ \A e \in Underway : view[e] # None
            /\ hand.added => hand.event # None

Made(v) == v \in keys \/ \E e \in Events : view[e] = v
Kept(v) == v \in table \/ Pending(v) \/ v \in lost

IInv == TypeOK /\ EventsOK /\ ViewsAreKept

-----------------------------------------------------------------------------
(* Types. *)

\* Every step keeps the types.
LEMMA TypeStep == ASSUME TypeOK, EventsOK, [Next]_vars PROVE TypeOK'
<1> USE ViewsAssumption DEF Hand, NoHand, Flush, NoFlush
<1>1. DeliveryTypeOK /\ Worker \in Groups
  BY DEF TypeOK
<1> DEFINE Rest == /\ keys \in SUBSET Views
                   /\ view \in [Events -> Views \cup {None}]
                   /\ phase \in {"up", "stopping", "last"}
                   /\ hand \in Hand
                   /\ memory \in SUBSET Views
                   /\ flush \in Flush
                   /\ table \in SUBSET Views
                   /\ lost \in SUBSET Views
<1>2. Rest
  BY DEF TypeOK
<1>3. SUFFICES DeliveryTypeOK' /\ Rest'
  BY DEF TypeOK
<1>4. ASSUME NEW v \in Views, Record(v) PROVE DeliveryTypeOK' /\ Rest'
  <2>1. \E es \in SUBSET Events : Published(es) /\ UNCHANGED <<queued, held>>
    BY <1>4 DEF Record, Publish
  <2>2. Rest'
    BY <1>2, <1>4 DEF Record, Publish, working
  <2> QED BY <1>1, <2>1, <2>2, DeliveryStepType
<1>5. ASSUME NEW v \in Views, RecordCrash(v) \/ KeyExpires(v) PROVE DeliveryTypeOK' /\ Rest'
  BY <1>1, <1>2, <1>5, DeliveryStepType DEF RecordCrash, KeyExpires, Dropped, working
<1>6. ASSUME NEW e \in Events, Arrives(e) PROVE DeliveryTypeOK' /\ Rest'
  BY <1>1, <1>2, <1>6, DeliveryStepType DEF Arrives, working, requesting
<1>7. ASSUME NEW e \in Events, NotSent(e) PROVE DeliveryTypeOK' /\ Rest'
  <2>1. view[e] \in Views
    BY <1>2, <1>7 DEF NotSent, GiveUp, EventsOK, Underway
  <2> QED BY <1>1, <1>2, <1>7, <2>1, DeliveryStepType DEF NotSent, Dropped, working, requesting
<1>8. ASSUME NEW e \in Events, Take(e) PROVE DeliveryTypeOK' /\ Rest'
  BY <1>1, <1>2, <1>8, DeliveryStepType DEF Take, requesting
<1>9. CASE Add
  <2>1. view[hand.event] \in Views
    BY <1>2, <1>9 DEF Add, MayAdd, EventsOK, Underway
  <2> QED BY <1>1, <1>2, <1>9, <2>1, DeliveryStepType DEF Add, requesting
<1>10. CASE Commit
  <2>1. hand.event \in Events
    BY <1>2, <1>10 DEF Commit, EventsOK
  <2> QED BY <1>1, <1>2, <1>10, <2>1, DeliveryStepType DEF Commit, requesting
<1>11. CASE Reconnect \/ Start
  <2>1. Reread(Worker, {})
    BY <1>11 DEF Reconnect, Start
  <2>2. DeliveryTypeOK'
    BY <1>1, <2>1, DeliveryStepType
  <2> QED BY <1>2, <1>11, <2>2 DEF Reconnect, Start, requesting, working
<1>12. CASE Kill
  <2>1. Unfinished \in SUBSET Events
    BY <1>2 DEF Unfinished
  <2>2. DeliveryTypeOK'
    BY <1>1, <1>12, <2>1, DeliveryStepType DEF Kill
  <2> QED BY <1>2, <1>12, <2>2 DEF Kill, Dropped, requesting
<1>13. CASE FlushDrain \/ FlushInsert \/ Stop \/ StopFlush
  BY <1>1, <1>2, <1>13, DeliveryStepType
  DEF FlushDrain, MayDrain, FlushInsert, Stop, StopFlush, MayStop, requesting
<1>14. CASE FlushBegin \/ FlushCommit
  <2>1. UNCHANGED deliveryVars /\ UNCHANGED <<requesting, phase, hand, memory>>
    BY <1>14 DEF FlushBegin, FlushCommit, FlushFails
  <2>2. flush.batch \in SUBSET Views
    BY <1>2
  <2>3. lost' = lost \/ lost' = lost \cup flush.batch
    BY <1>14 DEF FlushBegin, FlushCommit, FlushFails, Dropped
  <2>4. table' = table \/ table' = table \cup flush.batch
    BY <1>14 DEF FlushBegin, FlushCommit, FlushFails
  <2>5. flush' = NoFlush \/ flush' = [flush EXCEPT !.pc = "insert"]
    BY <1>14 DEF FlushBegin, FlushCommit, FlushFails
  <2>6. flush' \in Flush
    <3>1. flush \in Flush
      BY <1>2
    <3>2. CASE flush' = NoFlush
      BY <3>2
    <3>3. CASE flush' = [flush EXCEPT !.pc = "insert"]
      BY <3>1, <3>3
    <3> QED BY <2>5, <3>2, <3>3
  <2> QED BY <1>1, <1>2, <2>1, <2>2, <2>3, <2>4, <2>6, DeliveryStepType DEF requesting
<1>15. CASE UNCHANGED vars
  BY <1>1, <1>2, <1>15, DeliveryStepType DEF vars, deliveryVars
<1> QED BY <1>4, <1>5, <1>6, <1>7, <1>8, <1>9, <1>10, <1>11, <1>12, <1>13, <1>14, <1>15
        DEF Next, Consume, Flushing

-----------------------------------------------------------------------------
(* The events. *)

\* Events that are underway have been published, and stay so.
LEMMA EventsStep == ASSUME IInv, [Next]_vars PROVE EventsOK'
<1> USE ViewsAssumption DEF IInv, EventsOK, Underway, NoHand
<1>1. Worker \in Groups /\ DeliveryTypeOK /\ view \in [Events -> Views \cup {None}] /\ hand \in Hand
  BY DEF TypeOK
<1>2. ASSUME NEW v \in Views, Record(v) PROVE EventsOK'
  <2>1. PICK e \in Events : /\ view' = [view EXCEPT ![e] = v]
                            /\ sending' = sending \cup {e}
    BY <1>2 DEF Record, Publish, Published
  <2>2. UNCHANGED <<queued, held, hand>>
    BY <1>2 DEF Record, working
  <2>3. \A x \in Events : view'[x] = view[x] \/ (x = e /\ view'[x] = v)
    BY <1>1, <2>1
  <2>4. Underway \subseteq Events
    BY <1>1 DEF DeliveryTypeOK, Hand
  <2> QED BY <1>1, <2>1, <2>2, <2>3, <2>4
<1>3. ASSUME UNCHANGED <<view, hand>>, Underway' \subseteq Underway PROVE EventsOK'
  BY <1>3
<1>4. ASSUME NEW v \in Views, RecordCrash(v) \/ KeyExpires(v) PROVE EventsOK'
  BY <1>4 DEF RecordCrash, KeyExpires, deliveryVars, working
<1>5. ASSUME NEW e \in Events, Arrives(e) \/ NotSent(e) PROVE EventsOK'
  <2>1. UNCHANGED <<view, hand, held>>
    BY <1>5 DEF Arrives, NotSent, Arrive, GiveUp, working, requesting
  <2>2. Underway' \subseteq Underway
    BY <1>1, <1>5, <2>1 DEF Arrives, NotSent, Arrive, GiveUp, DeliveryTypeOK
  <2> QED BY <1>3, <2>1, <2>2
<1>6. ASSUME NEW e \in Events, Take(e) PROVE EventsOK'
  <2>1. e \in queued[Worker] /\ UNCHANGED <<view, sending, held>>
    BY <1>6 DEF Take, Taken, requesting
  <2>2. Underway' \subseteq Underway
    BY <1>1, <1>6, <2>1 DEF Take, Taken, DeliveryTypeOK
  <2> QED BY <1>6, <2>1, <2>2 DEF Take
<1>7. CASE Add
  BY <1>1, <1>7 DEF Add, MayAdd, deliveryVars, requesting, Hand
<1>8. CASE Commit
  <2>1. hand.event \in Events /\ hand' = NoHand /\ UNCHANGED <<view, sending, queued>>
    BY <1>1, <1>8 DEF Commit, Committed, requesting, Hand
  <2>2. held'[Worker] \subseteq held[Worker] \cup {hand.event}
    BY <1>1, <1>8 DEF Commit, Committed, DeliveryTypeOK
  <2> QED BY <2>1, <2>2
<1>9. CASE Reconnect \/ Start
  <2>1. UNCHANGED <<view, hand, sending>> /\ Reread(Worker, {})
    BY <1>9 DEF Reconnect, Start, Reread, requesting, working
  <2>2. Underway' \subseteq Underway
    BY <1>1, <2>1 DEF Reread, DeliveryTypeOK
  <2> QED BY <1>3, <2>1, <2>2
<1>10. CASE Kill
  <2>1. UNCHANGED <<view, sending>> /\ hand' = NoHand /\ Reread(Worker, Unfinished)
    BY <1>10 DEF Kill, Reread, requesting
  <2>2. Underway' \subseteq Underway
    BY <1>1, <2>1 DEF Reread, Unfinished, DeliveryTypeOK
  <2> QED BY <2>1, <2>2
<1>11. CASE Flushing \/ Stop \/ StopFlush \/ UNCHANGED vars
  BY <1>11 DEF Flushing, FlushDrain, FlushBegin, FlushInsert, FlushCommit, FlushFails, Stop,
               StopFlush, vars, deliveryVars, requesting
<1> QED BY <1>2, <1>4, <1>5, <1>6, <1>7, <1>8, <1>9, <1>10, <1>11 DEF Next, Consume

-----------------------------------------------------------------------------
(* The views. *)

\* Every step keeps every view that is made.
LEMMA KeptStep == ASSUME IInv, [Next]_vars PROVE ViewsAreKept'
<1> USE ViewsAssumption DEF NoHand
<1>1. /\ Worker \in Groups /\ DeliveryTypeOK /\ view \in [Events -> Views \cup {None}]
      /\ hand \in Hand /\ flush \in Flush
  BY DEF IInv, TypeOK
<1>2. \A v \in Views : Made(v) => Kept(v)
  BY DEF IInv, ViewsAreKept, Made, Kept
<1>3. SUFFICES ASSUME NEW v \in Views, Made(v)' PROVE Kept(v)'
  BY DEF ViewsAreKept, Made, Kept
<1>4. ASSUME NEW w \in Views, Record(w) PROVE Kept(v)'
  <2>1. PICK e \in Events : /\ view[e] = None /\ view' = [view EXCEPT ![e] = w]
                            /\ sending' = sending \cup {e}
    BY <1>4 DEF Record, Publish, Published
  <2>2. UNCHANGED <<queued, hand, memory, flush, table, lost>> /\ keys' \subseteq keys \cup {w}
    BY <1>4 DEF Record, working
  <2>3. CASE v = w
    BY <1>1, <2>1, <2>3 DEF Kept, Pending
  <2>4. CASE v # w
    <3>1. Made(v)
      BY <1>1, <1>3, <2>1, <2>2, <2>4 DEF Made
    <3>2. \A x : view[x] = v /\ x \in Events => view'[x] = v
      BY <1>1, <2>1
    <3> QED BY <1>1, <1>2, <2>1, <2>2, <3>1, <3>2 DEF Kept, Pending, Hand, DeliveryTypeOK
  <2> QED BY <2>3, <2>4
<1>5. ASSUME NEW w \in Views, RecordCrash(w) PROVE Kept(v)'
  <2>1. /\ UNCHANGED <<sending, queued, view, hand, memory, flush, table>>
        /\ keys' = keys \cup {w} /\ lost' = lost \cup {w}
    BY <1>5 DEF RecordCrash, Dropped, deliveryVars, working
  <2>2. Made(v) \/ v = w
    BY <1>3, <2>1 DEF Made
  <2> QED BY <1>2, <2>1, <2>2 DEF Kept, Pending
<1>6. ASSUME UNCHANGED view, keys' \subseteq keys PROVE Kept(v)
  BY <1>2, <1>3, <1>6 DEF Made
<1>7. ASSUME NEW w \in Views, KeyExpires(w) PROVE Kept(v)'
  <2>1. keys' \subseteq keys /\ UNCHANGED <<sending, queued, view, hand, memory, flush, table, lost>>
    BY <1>7 DEF KeyExpires, deliveryVars, working
  <2> QED BY <1>6, <2>1 DEF Kept, Pending
<1>8. ASSUME NEW e \in Events, Arrives(e) PROVE Kept(v)'
  <2>1. UNCHANGED <<keys, view, hand, memory, flush, table, lost>>
    BY <1>8 DEF Arrives, working, requesting
  <2>2. sending \cup queued[Worker] \subseteq sending' \cup queued'[Worker]
    BY <1>1, <1>8 DEF Arrives, Arrive
  <2> QED BY <1>6, <2>1, <2>2 DEF Kept, Pending
<1>9. ASSUME NEW e \in Events, NotSent(e) PROVE Kept(v)'
  <2>1. UNCHANGED <<keys, view, hand, memory, flush, table, queued>> /\ sending' = sending \ {e}
    BY <1>9 DEF NotSent, GiveUp, working, requesting
  <2>2. lost' = lost \cup {view[e]}
    BY <1>9 DEF NotSent, Dropped
  <2> QED BY <1>6, <2>1, <2>2 DEF Kept, Pending
<1>10. ASSUME NEW e \in Events, Take(e) PROVE Kept(v)'
  <2>1. /\ UNCHANGED <<keys, view, memory, flush, table, lost, sending>> /\ hand = NoHand
        /\ hand' = [event |-> e, added |-> FALSE] /\ e \in queued[Worker]
    BY <1>10 DEF Take, MayTake, Taken, requesting
  <2>2. queued[Worker] \subseteq queued'[Worker] \cup {e}
    BY <1>1, <1>10 DEF Take, Taken, DeliveryTypeOK
  <2> QED BY <1>6, <2>1, <2>2 DEF Kept, Pending
<1>11. CASE Add
  <2>1. /\ UNCHANGED <<keys, view, flush, table, lost, sending, queued>>
        /\ memory' = memory \cup {view[hand.event]}
    BY <1>11 DEF Add, deliveryVars, requesting
  <2> QED BY <1>6, <2>1 DEF Kept, Pending
<1>12. CASE Commit
  <2>1. UNCHANGED <<keys, view, memory, flush, table, lost, sending, queued>> /\ hand.added
    BY <1>12 DEF Commit, Committed, requesting
  <2> QED BY <1>6, <2>1 DEF Kept, Pending
<1>13. CASE Reconnect \/ Start
  <2>1. UNCHANGED <<keys, view, memory, flush, hand, table, lost, sending>> /\ Reread(Worker, {})
    BY <1>13 DEF Reconnect, Start, Reread, requesting, working
  <2>2. queued[Worker] \subseteq queued'[Worker]
    BY <1>1, <2>1 DEF Reread, DeliveryTypeOK
  <2> QED BY <1>6, <2>1, <2>2 DEF Kept, Pending
<1>14. CASE Kill
  <2>1. /\ UNCHANGED <<keys, view, table, sending>> /\ lost' = lost \cup memory \cup flush.batch
        /\ Reread(Worker, Unfinished)
    BY <1>14 DEF Kill, Reread, Dropped, requesting
  <2>2. queued[Worker] \cup Unfinished \subseteq queued'[Worker]
    BY <1>1, <2>1 DEF Reread, DeliveryTypeOK
  <2> QED BY <1>6, <2>1, <2>2 DEF Kept, Pending, Unfinished
<1>15. CASE FlushDrain
  <2>1. /\ UNCHANGED <<keys, view, hand, table, lost, sending, queued>>
        /\ flush = NoFlush /\ flush'.batch = memory
    BY <1>15 DEF FlushDrain, MayDrain, NoFlush, deliveryVars, requesting
  <2> QED BY <1>6, <2>1 DEF Kept, Pending, NoFlush
<1>16. ASSUME FlushFails PROVE Kept(v)'
  <2>1. /\ UNCHANGED <<keys, view, hand, memory, table, sending, queued>>
        /\ lost' = lost \cup flush.batch
    BY <1>16 DEF FlushFails, Dropped, deliveryVars, requesting
  <2> QED BY <1>6, <2>1 DEF Kept, Pending
<1>17. CASE FlushBegin \/ FlushInsert \/ FlushCommit
  <2>1. CASE FlushFails
    BY <1>16, <2>1
  <2>2. CASE ~FlushFails
    <3>1. /\ UNCHANGED <<keys, view, hand, memory, lost, sending, queued>>
          /\ \/ flush'.batch = flush.batch /\ table' = table
             \/ table' = table \cup flush.batch
      BY <1>1, <1>17, <2>2
      DEF FlushBegin, FlushInsert, FlushCommit, Flush, deliveryVars, requesting
    <3> QED BY <1>6, <3>1 DEF Kept, Pending
  <2> QED BY <2>1, <2>2
<1>18. CASE StopFlush
  <2>1. /\ UNCHANGED <<keys, view, hand, table, lost, sending, queued>>
        /\ flush = NoFlush /\ memory \subseteq flush'.batch
    BY <1>18 DEF StopFlush, MayStop, NoFlush, deliveryVars, requesting
  <2> QED BY <1>6, <2>1 DEF Kept, Pending, NoFlush
<1>19. CASE Stop \/ UNCHANGED vars
  <2>1. UNCHANGED <<keys, view, hand, memory, flush, table, lost, sending, queued>>
    BY <1>19 DEF Stop, vars, deliveryVars, requesting
  <2> QED BY <1>6, <2>1 DEF Kept, Pending
<1> QED BY <1>4, <1>5, <1>7, <1>8, <1>9, <1>10, <1>11, <1>12, <1>13, <1>14, <1>15, <1>17, <1>18,
           <1>19 DEF Next, Consume, Flushing

-----------------------------------------------------------------------------
(* The theorems. *)

\* The invariant holds at first and every step keeps it.
LEMMA IInvAlways == Spec => []IInv
<1>1. Init => IInv
  <2> SUFFICES ASSUME Init PROVE IInv
    OBVIOUS
  <2>1. TypeOK
    BY ViewsAssumption, DeliveryInitType
    DEF Init, TypeOK, Hand, NoHand, Flush, NoFlush
  <2>2. EventsOK
    BY ViewsAssumption DEF Init, DeliveryInit, EventsOK, Underway, NoHand
  <2>3. ViewsAreKept
    BY ViewsAssumption DEF Init, ViewsAreKept
  <2> QED BY <2>1, <2>2, <2>3 DEF IInv
<1>2. IInv /\ [Next]_vars => IInv'
  BY TypeStep, EventsStep, KeptStep DEF IInv
<1> QED BY <1>1, <1>2, PTL DEF Spec

\* Every variable has its type, in every behaviour of requests, consumer and flushes.
THEOREM TypeCorrect == Spec => []TypeOK
BY IInvAlways, PTL DEF IInv

\* Views are lost only where a call fails or a process ends, however adding, draining,
\* writing, committing and reading again are ordered.
THEOREM ViewsKept == Spec => []ViewsAreKept
BY IInvAlways, PTL DEF IInv

-----------------------------------------------------------------------------
(* Where the worker stands between flushes and starts.                     *)

LifeOK == /\ flush.pc = "idle" => flush = NoFlush
          /\ phase = "last" => memory = {} /\ hand = NoHand

\* Nothing is added or drained before the last flush ends and the worker starts again.
LEMMA LifeStep == ASSUME IInv, LifeOK, [Next]_vars PROVE LifeOK'
<1> USE DEF LifeOK, NoFlush, NoHand
<1>1. flush \in Flush /\ hand \in Hand
  BY DEF IInv, TypeOK
<1>2. CASE UNCHANGED <<phase, hand, memory, flush>>
  BY <1>2
<1>3. CASE \E v \in Views : Record(v) \/ RecordCrash(v) \/ KeyExpires(v)
  BY <1>2, <1>3 DEF Record, RecordCrash, KeyExpires, working
<1>4. CASE \E e \in Events : Arrives(e) \/ NotSent(e)
  BY <1>2, <1>4 DEF Arrives, NotSent, working
<1>5. CASE Consume
  BY <1>2, <1>5 DEF Consume, Take, MayTake, Add, MayAdd, Commit, Reconnect, working
<1>6. CASE FlushDrain \/ FlushBegin \/ FlushInsert \/ FlushCommit
  BY <1>1, <1>6 DEF FlushDrain, MayDrain, FlushBegin, FlushInsert, FlushCommit, FlushFails, Flush
<1>7. CASE Stop \/ StopFlush \/ Start \/ Kill
  BY <1>7 DEF Stop, StopFlush, MayStop, Start, Kill
<1> QED BY <1>2, <1>3, <1>4, <1>5, <1>6, <1>7 DEF Next, Flushing, vars

\* It holds always.
LEMMA LifeAlways == Spec => [](IInv /\ LifeOK)
<1>1. Init => LifeOK
  BY DEF Init, LifeOK, NoFlush
<1> QED BY <1>1, LifeStep, IInvAlways, PTL DEF Spec

-----------------------------------------------------------------------------
(* Every view that is published is written or lost.                        *)

\* The fairness assumed of Take, Add and FlushDrain is SF, where the guards of these actions
\* are what enables them.
LEMMA FairnessIsStrong ==
  ASSUME NEW e \in Events
  PROVE  /\ [](MayTake(e) <=> ENABLED <<Take(e)>>_vars) =>
              ((<>[]~MayTake(e) \/ []<><<Take(e)>>_vars) <=> SF_vars(Take(e)))
         /\ [](InHand(e) <=> ENABLED <<InHand(e) /\ Add>>_vars) =>
              ((<>[]~InHand(e) \/ []<><<InHand(e) /\ Add>>_vars) <=> SF_vars(InHand(e) /\ Add))
         /\ [](MayDrain <=> ENABLED <<FlushDrain>>_vars) =>
              ((<>[]~MayDrain \/ []<><<FlushDrain>>_vars) <=> SF_vars(FlushDrain))
  BY PTL

\* Commit, Start and StopFlush make their guards false, so that what is assumed of them, that
\* the guards are false again and again, is WF of them.  Likewise of the other steps.
LEMMA FairnessIsWeak ==
  /\ [](hand.added <=> ENABLED <<Commit>>_vars) => ([]<>~hand.added <=> WF_vars(Commit))
  /\ [](MayStop <=> ENABLED <<StopFlush>>_vars) => ([]<>~MayStop <=> WF_vars(StopFlush))
  /\ [](MayStart <=> ENABLED <<Start>>_vars) => ([]<>~MayStart <=> WF_vars(Start))
<1>1. /\ <<Commit>>_vars => ~(hand.added)'
      /\ <<StopFlush>>_vars => ~MayStop'
      /\ <<Start>>_vars => ~MayStart'
  BY DEF Commit, NoHand, StopFlush, MayStop, Start, MayStart
<1> QED BY <1>1, PTL

\* A flush goes through its steps or ends.
LEMMA FlushGoes ==
  ASSUME IInv, LifeOK, [Next]_vars
  PROVE  /\ flush.pc = "begin" => flush'.pc \in {"begin", "insert", "idle"}
         /\ flush.pc = "insert" => flush'.pc \in {"insert", "commit", "idle"}
         /\ flush.pc = "commit" => flush'.pc \in {"commit", "idle"}
<1> USE DEF NoFlush
<1>1. flush \in Flush
  BY DEF IInv, TypeOK
<1>2. CASE UNCHANGED flush
  BY <1>2
<1>3. CASE Flushing
  <2>1. CASE FlushDrain
    BY <2>1 DEF FlushDrain, MayDrain
  <2>2. CASE FlushBegin
    BY <1>1, <2>2 DEF FlushBegin, FlushFails, Flush
  <2>3. CASE FlushInsert
    BY <1>1, <2>3 DEF FlushInsert, Flush
  <2>4. CASE FlushCommit
    BY <2>4 DEF FlushCommit, FlushFails
  <2> QED BY <1>3, <2>1, <2>2, <2>3, <2>4 DEF Flushing
<1>4. CASE StopFlush \/ Kill
  BY <1>4 DEF StopFlush, MayStop, Kill
<1>5. CASE \/ \E v \in Views : Record(v) \/ RecordCrash(v) \/ KeyExpires(v)
           \/ \E e \in Events : Arrives(e) \/ NotSent(e)
           \/ Consume \/ Stop \/ Start \/ UNCHANGED vars
  BY <1>2, <1>5 DEF Record, RecordCrash, KeyExpires, Arrives, NotSent, Consume, Take, Add, Commit,
                    Reconnect, Stop, Start, working, vars
<1> QED BY <1>3, <1>4, <1>5 DEF Next

\* Flushes end, in a commit, a failure or with the process.
LEMMA FlushesEnd == FairSpec => []<>(flush = NoFlush)
<1>1. FairSpec => /\ Spec
                  /\ []<>(flush.pc # "begin") /\ []<>(flush.pc # "insert")
                  /\ []<>(flush.pc # "commit")
  BY DEF FairSpec, Fairness
<1>2. /\ flush.pc # "begin" <=> ~(flush.pc = "begin")
      /\ flush.pc # "insert" <=> ~(flush.pc = "insert")
      /\ flush.pc # "commit" <=> ~(flush.pc = "commit")
  OBVIOUS
<1>3. IInv /\ LifeOK =>
        flush.pc = "begin" \/ flush.pc = "insert" \/ flush.pc = "commit" \/ flush = NoFlush
  BY DEF IInv, TypeOK, Flush, LifeOK
<1>4. IInv /\ LifeOK /\ IInv' /\ LifeOK' /\ [Next]_vars =>
        /\ flush.pc = "begin" => (flush.pc = "begin" \/ flush.pc = "insert" \/ flush = NoFlush)'
        /\ flush.pc = "insert" => (flush.pc = "insert" \/ flush.pc = "commit" \/ flush = NoFlush)'
        /\ flush.pc = "commit" => (flush.pc = "commit" \/ flush = NoFlush)'
  BY FlushGoes DEF LifeOK
<1> QED BY <1>1, <1>2, <1>3, <1>4, LifeAlways, PTL DEF Spec

\* The consumer's work on an event goes on to its end, or ends with the process.
LEMMA HandGoes ==
  ASSUME IInv, LifeOK, [Next]_vars
  PROVE  /\ MayAdd => (MayAdd \/ hand.added \/ hand = NoHand)'
         /\ hand.added => (hand.added \/ hand = NoHand)'
<1> USE DEF MayAdd
<1>1. hand \in Hand
  BY DEF IInv, TypeOK
<1>2. CASE UNCHANGED hand
  BY <1>2
<1>3. CASE Consume
  BY <1>1, <1>3 DEF Consume, Take, MayTake, Add, Commit, Reconnect, working, Hand, NoHand
<1>4. CASE Kill
  BY <1>4 DEF Kill
<1>5. CASE \/ \E v \in Views : Record(v) \/ RecordCrash(v) \/ KeyExpires(v)
           \/ \E e \in Events : Arrives(e) \/ NotSent(e)
           \/ Flushing \/ Stop \/ StopFlush \/ Start \/ UNCHANGED vars
  BY <1>2, <1>5 DEF Record, RecordCrash, KeyExpires, Arrives, NotSent, Flushing, FlushDrain,
                    FlushBegin, FlushInsert, FlushCommit, FlushFails, Stop, StopFlush, Start,
                    working, vars
<1> QED BY <1>3, <1>4, <1>5 DEF Next

\* The consumer is done with its event again and again.
LEMMA HandsEmpty == FairSpec => []<>(hand = NoHand)
<1>1. FairSpec => Spec /\ []<>~MayAdd /\ []<>~hand.added
  BY DEF FairSpec, Fairness
<1>2. IInv => MayAdd \/ hand.added \/ hand = NoHand
  BY DEF IInv, TypeOK, Hand, MayAdd, NoHand, EventsOK
<1>3. IInv /\ LifeOK /\ [Next]_vars =>
        /\ MayAdd => (MayAdd \/ hand.added \/ hand = NoHand)'
        /\ hand.added => (hand.added \/ hand = NoHand)'
  BY HandGoes
<1> QED BY <1>1, <1>2, <1>3, LifeAlways, PTL DEF Spec

Ready    == phase = "up" /\ hand = NoHand
Stopping == phase = "stopping" /\ hand = NoHand
Drained  == Stopping /\ memory = {}
Waiting  == phase = "last" /\ flush = NoFlush

\* A worker that stops lets go of its event, drains its memory at most once more, flushes
\* what is left, and is up again with empty hands.
LEMMA WorkerGoes ==
  ASSUME IInv, LifeOK, [Next]_vars
  PROVE  /\ phase = "up" => (phase = "up" \/ phase = "stopping")'
         /\ phase = "stopping" => (phase = "stopping" \/ phase = "last" \/ Ready)'
         /\ Stopping => (Stopping \/ phase = "last" \/ Ready)'
         /\ Drained => (Drained \/ phase = "last" \/ Ready)'
         /\ MayStop => (MayStop \/ Drained \/ phase = "last" \/ Ready)'
         /\ MayStop /\ Drained => (MayStop \/ phase = "last" \/ Ready)'
         /\ phase = "last" => (phase = "last" \/ Ready)'
         /\ Waiting => (Waiting \/ Ready)'
<1> USE DEF Ready, Stopping, Drained, Waiting, MayStop, LifeOK, NoFlush, NoHand
<1>1. phase \in {"up", "stopping", "last"}
  BY DEF IInv, TypeOK
<1>2. CASE UNCHANGED <<phase, hand, memory, flush>>
  BY <1>2
<1>3. CASE \/ \E v \in Views : Record(v) \/ RecordCrash(v) \/ KeyExpires(v)
           \/ \E e \in Events : Arrives(e) \/ NotSent(e)
           \/ Reconnect \/ UNCHANGED vars
  BY <1>2, <1>3 DEF Record, RecordCrash, KeyExpires, Arrives, NotSent, Reconnect, working, vars
<1>4. CASE \E e \in Events : Take(e)
  BY <1>4 DEF Take, MayTake
<1>5. CASE Add
  BY <1>1, <1>5 DEF Add, MayAdd
<1>6. CASE Commit
  BY <1>1, <1>6 DEF Commit, IInv, EventsOK
<1>7. CASE FlushDrain
  BY <1>1, <1>7 DEF FlushDrain, MayDrain, Due
<1>8. CASE FlushBegin \/ FlushInsert \/ FlushCommit
  <2>1. UNCHANGED <<phase, hand, memory>>
    BY <1>8 DEF FlushBegin, FlushInsert, FlushCommit, FlushFails
  <2>2. flush.pc # "idle"
    BY <1>8 DEF FlushBegin, FlushInsert, FlushCommit
  <2>3. flush # NoFlush
    BY <2>2
  <2> QED BY <1>1, <2>1, <2>3
<1>9. CASE Stop \/ StopFlush \/ Start \/ Kill
  BY <1>1, <1>9 DEF Stop, StopFlush, Start, MayStart, Kill
<1> QED BY <1>3, <1>4, <1>5, <1>6, <1>7, <1>8, <1>9 DEF Next, Consume, Flushing

\* The consumer can take an event again and again, however often the worker stops.
LEMMA ConsumerReady == FairSpec => []<>Ready
<1>1. FairSpec => Spec /\ []<>~MayStop /\ []<>~MayStart
  BY DEF FairSpec, Fairness
<1>2. IInv => phase = "up" \/ phase = "stopping" \/ phase = "last"
  BY DEF IInv, TypeOK
<1>3. IInv /\ LifeOK /\ [Next]_vars =>
         /\ phase = "up" => (phase = "up" \/ phase = "stopping")'
         /\ phase = "stopping" => (phase = "stopping" \/ phase = "last" \/ Ready)'
         /\ Stopping => (Stopping \/ phase = "last" \/ Ready)'
         /\ Drained => (Drained \/ phase = "last" \/ Ready)'
         /\ MayStop => (MayStop \/ Drained \/ phase = "last" \/ Ready)'
         /\ MayStop /\ Drained => (MayStop \/ phase = "last" \/ Ready)'
         /\ phase = "last" => (phase = "last" \/ Ready)'
         /\ Waiting => (Waiting \/ Ready)'
  BY WorkerGoes
<1>4. /\ phase = "up" /\ hand = NoHand => Ready
      /\ phase = "stopping" /\ hand = NoHand => Stopping
      /\ Stopping /\ flush = NoFlush => MayStop
      /\ phase = "last" /\ flush = NoFlush => Waiting
      /\ Waiting => MayStart
  BY DEF Ready, Stopping, Waiting, MayStop, MayStart
<1> QED BY <1>1, <1>2, <1>3, <1>4, FlushesEnd, HandsEmpty, LifeAlways, PTL DEF Spec

\* The stations of the view of event e.
Sent(e)     == e \in sending
InQueue(e)  == e \in queued[Worker]
InMemory(e) == view[e] # None /\ view[e] \in memory
InFlush(e)  == view[e] # None /\ view[e] \in flush.batch
Settled(e)  == view[e] \in table \cup lost

\* No step lets a view go but to its next station, or back to the queue with its event.
LEMMA ViewGoes ==
  ASSUME IInv, [Next]_vars, NEW e \in Events
  PROVE  /\ Sent(e) => (Sent(e) \/ InQueue(e) \/ Settled(e))'
         /\ InQueue(e) => (InQueue(e) \/ InHand(e))'
         /\ InHand(e) => (InHand(e) \/ InMemory(e) \/ InQueue(e))'
         /\ InMemory(e) => (InMemory(e) \/ InFlush(e) \/ Settled(e))'
         /\ InFlush(e) => (InFlush(e) \/ Settled(e))'
<1> USE ViewsAssumption
    DEF Sent, InQueue, InHand, InMemory, InFlush, Settled, NoHand, NoFlush
<1>1. /\ Worker \in Groups /\ DeliveryTypeOK /\ view \in [Events -> Views \cup {None}]
      /\ hand \in Hand /\ flush \in Flush
  BY DEF IInv, TypeOK
<1>2. ASSUME NEW v \in Views, Record(v)
      PROVE  /\ UNCHANGED <<queued, hand, memory, flush, table>> /\ sending \subseteq sending'
             /\ view[e] # None => view'[e] = view[e]
             /\ lost \subseteq lost'
  BY <1>1, <1>2 DEF Record, Publish, Published, working
<1>3. ASSUME UNCHANGED <<queued, hand, memory, flush, table>>, sending \subseteq sending',
             view[e] # None => view'[e] = view[e], lost \subseteq lost'
      PROVE  /\ (Sent(e) => Sent(e)') /\ (InQueue(e) => InQueue(e)')
             /\ (InHand(e) => InHand(e)')
             /\ (InMemory(e) => InMemory(e)') /\ (InFlush(e) => InFlush(e)')
  BY <1>3
<1>4. CASE \/ \E v \in Views : Record(v) \/ RecordCrash(v) \/ KeyExpires(v)
           \/ UNCHANGED vars
  <2>1. \/ \E v \in Views : Record(v)
        \/ UNCHANGED <<sending, queued, view, hand, memory, flush, table>> /\ lost \subseteq lost'
    BY <1>4 DEF RecordCrash, KeyExpires, Dropped, working, deliveryVars, vars
  <2>2. /\ UNCHANGED <<queued, hand, memory, flush, table>> /\ sending \subseteq sending'
        /\ view[e] # None => view'[e] = view[e]
        /\ lost \subseteq lost'
    BY <1>2, <2>1
  <2> QED BY <1>3, <2>2
<1>5. ASSUME NEW x \in Events, Arrives(x) \/ NotSent(x)
      PROVE  /\ UNCHANGED <<view, hand, memory, flush, table>>
             /\ queued[Worker] \subseteq queued'[Worker] /\ lost \subseteq lost'
             /\ e \in sending => e \in sending' \/ e \in queued'[Worker] \/ view[e] \in lost'
  BY <1>1, <1>5 DEF Arrives, Arrive, NotSent, GiveUp, Dropped, working, requesting
<1>6. ASSUME NEW x \in Events, Take(x)
      PROVE  /\ UNCHANGED <<sending, view, memory, flush, table, lost>> /\ hand = NoHand
             /\ x = e => hand' = [event |-> e, added |-> FALSE]
             /\ x # e /\ e \in queued[Worker] => e \in queued'[Worker]
  BY <1>1, <1>6 DEF Take, MayTake, Taken, requesting, DeliveryTypeOK
<1>7. CASE Add
  <2>1. /\ UNCHANGED <<sending, queued, view, flush, table, lost>>
        /\ memory' = memory \cup {view[hand.event]}
        /\ hand.event # None /\ view[hand.event] # None
    BY <1>1, <1>7 DEF Add, MayAdd, deliveryVars, requesting, IInv, EventsOK, Underway
  <2> QED BY <2>1
<1>8. CASE Commit
  <2>1. UNCHANGED <<sending, queued, view, memory, flush, table, lost>> /\ hand.added
    BY <1>8 DEF Commit, Committed, requesting
  <2> QED BY <2>1
<1>9. CASE Reconnect \/ Start
  <2>1. UNCHANGED <<sending, view, hand, memory, flush, table, lost>> /\ Reread(Worker, {})
    BY <1>9 DEF Reconnect, Start, Reread, requesting, working
  <2>2. queued[Worker] \subseteq queued'[Worker]
    BY <1>1, <2>1 DEF Reread, DeliveryTypeOK
  <2> QED BY <2>1, <2>2
<1>10. CASE Kill
  <2>1. /\ UNCHANGED <<sending, view, table>> /\ lost' = lost \cup memory \cup flush.batch
        /\ Reread(Worker, Unfinished)
    BY <1>10 DEF Kill, Reread, Dropped, requesting
  <2>2. queued[Worker] \cup Unfinished \subseteq queued'[Worker]
    BY <1>1, <2>1 DEF Reread, DeliveryTypeOK
  <2> QED BY <2>1, <2>2 DEF Unfinished
<1>11. CASE FlushDrain \/ StopFlush
  <2>1. /\ UNCHANGED <<sending, queued, view, hand, table, lost>>
        /\ flush = NoFlush /\ memory \subseteq flush'.batch
    BY <1>11 DEF FlushDrain, MayDrain, StopFlush, MayStop, deliveryVars, requesting
  <2> QED BY <2>1
<1>12. CASE FlushBegin \/ FlushInsert \/ FlushCommit
  <2>1. /\ UNCHANGED <<sending, queued, view, hand, memory>>
        /\ \/ flush'.batch = flush.batch /\ table' = table /\ lost' = lost
           \/ table' \cup lost' = table \cup lost \cup flush.batch
    <3>1. CASE FlushFails
      BY <3>1, <1>12 DEF FlushBegin, FlushInsert, FlushCommit, FlushFails, Dropped, deliveryVars,
                         requesting
    <3>2. CASE ~FlushFails
      BY <1>1, <1>12, <3>2
      DEF FlushBegin, FlushInsert, FlushCommit, Flush, deliveryVars, requesting
    <3> QED BY <3>1, <3>2
  <2> QED BY <2>1
<1>13. CASE Stop
  BY <1>13 DEF Stop, deliveryVars, requesting
<1> QED BY <1>4, <1>5, <1>6, <1>7, <1>8, <1>9, <1>10, <1>11, <1>12, <1>13
        DEF Next, Consume, Flushing

\* However often the worker fails, stops and is killed, and whatever else is recorded, every
\* view that is published reaches the table or is lost where a call fails or a process ends.
THEOREM ViewsWritten == FairSpec => ViewsAreWritten
<1> SUFFICES ASSUME NEW e \in Events
             PROVE  FairSpec => (e \in sending \cup queued[Worker] ~> view[e] \in table \cup lost)
  BY DEF ViewsAreWritten
<1>1. FairSpec => /\ Spec /\ []<>(e \notin sending)
                  /\ <>[]~MayTake(e) \/ []<><<Take(e)>>_vars
                  /\ <>[]~InHand(e) \/ []<><<InHand(e) /\ Add>>_vars
                  /\ <>[]~MayDrain \/ []<><<FlushDrain>>_vars
  BY DEF FairSpec, Fairness
<1>2. IInv /\ [Next]_vars =>
         /\ Sent(e) => (Sent(e) \/ InQueue(e) \/ Settled(e))'
         /\ InQueue(e) => (InQueue(e) \/ InHand(e))'
         /\ InHand(e) => (InHand(e) \/ InMemory(e) \/ InQueue(e))'
         /\ InMemory(e) => (InMemory(e) \/ InFlush(e) \/ Settled(e))'
         /\ InFlush(e) => (InFlush(e) \/ Settled(e))'
  BY ViewGoes
<1>3. /\ e \in sending \cup queued[Worker] <=> Sent(e) \/ InQueue(e)
      /\ e \notin sending <=> ~Sent(e)
      /\ view[e] \in table \cup lost <=> Settled(e)
  BY DEF Sent, InQueue, Settled
<1>4. InQueue(e) /\ Ready => MayTake(e)
  BY DEF InQueue, Ready, MayTake
<1>5. <<Take(e)>>_vars => InHand(e)'
  BY DEF Take, InHand
<1>6. IInv /\ <<InHand(e) /\ Add>>_vars => InMemory(e)'
  <2> SUFFICES ASSUME IInv, InHand(e), Add PROVE InMemory(e)'
    OBVIOUS
  <2>1. hand.event = e /\ e # None /\ view[e] # None
    BY ViewsAssumption DEF InHand, IInv, EventsOK, Underway
  <2> QED BY <2>1 DEF Add, InMemory, requesting
<1>7. IInv /\ LifeOK /\ InMemory(e) /\ flush = NoFlush => MayDrain
  BY DEF InMemory, MayDrain, Due, LifeOK, IInv, TypeOK
<1>8. InMemory(e) /\ <<FlushDrain>>_vars => InFlush(e)'
  BY DEF InMemory, InFlush, FlushDrain, MayDrain, NoFlush, requesting
<1>9. InFlush(e) => ~(flush = NoFlush)
  BY DEF InFlush, NoFlush
<1> QED BY <1>1, <1>2, <1>3, <1>4, <1>5, <1>6, <1>7, <1>8, <1>9, FlushesEnd, ConsumerReady,
           LifeAlways, PTL DEF Spec
=============================================================================
