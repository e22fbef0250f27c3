-------------------------------- MODULE Views --------------------------------
(***************************************************************************)
(* Views of dances: RecordDanceView in dance/usecase/usecase.go, which     *)
(* sets a Redis key for an hour and publishes the view, and the worker of  *)
(* cmd/analytics-worker/main.go, which collects views in memory and writes *)
(* them to the table dance_views every 30 seconds.  A view is committed to *)
(* Kafka long before it is written, and may be lost at every step; this    *)
(* module says where, and that it is nowhere else.                         *)
(***************************************************************************)
EXTENDS Delivery

CONSTANTS
  Views,    \* a view: a viewer and a dance
  Fragile,  \* bound: whether calls fail and processes are killed
  None      \* no view, no event

Worker == "analytics-worker-views"

ASSUME ViewsAssumption ==
  /\ Groups = {Worker}
  /\ Fragile \in BOOLEAN
  /\ None \notin Events \cup Views

\* The event the consumer has in hand; added: its view is in memory.
Hand == [event : Events \cup {None}, added : BOOLEAN]
NoHand == [event |-> None, added |-> FALSE]

\* A flush: the views it has drained, and whether a statement of its transaction failed.
Flush == [pc : {"idle", "begin", "insert", "commit"}, batch : SUBSET Views, aborted : BOOLEAN]
NoFlush == [pc |-> "idle", batch |-> {}, aborted |-> FALSE]

VARIABLES
  keys,    \* the Redis keys view:<viewer>:<dance>
  view,    \* view[e]: the view event e tells of, None before it is published
  phase,   \* of the worker; stopping: its context is cancelled, last: the final flush
  hand,    \* what the consumer is doing
  memory,  \* viewAccumulator.events
  flush,   \* what flushViews is doing
  table,   \* dance_views
  lost     \* history: views a copy of which was dropped

vars == <<sending, queued, held, keys, view, phase, hand, memory, flush, table, lost>>

Init == /\ DeliveryInit
        /\ keys = {}
        /\ view = [e \in Events |-> None]
        /\ phase = "up"
        /\ hand = NoHand
        /\ memory = {}
        /\ flush = NoFlush
        /\ table = {}
        /\ lost = {}

\* What the requests leave alone, and what the worker leaves alone.
working == <<phase, hand, memory, flush, table>>
requesting == <<keys, view>>

\* View v is on its way to the table.
Pending(v) ==
  \/ v \in memory \cup flush.batch
  \/ \E e \in sending \cup queued[Worker] : view[e] = v
  \/ hand.event # None /\ ~hand.added /\ view[hand.event] = v

\* A copy of each of these views is dropped.
Dropped(vs) == lost' = lost \cup vs

-----------------------------------------------------------------------------
(* RecordDanceView. *)

Publish(v) == \E e \in Events :
  /\ view[e] = None
  /\ view' = [view EXCEPT ![e] = v]
  /\ Published({e})

\* SETNX makes the key, or fails, with or without effect: the view is then recorded, too.
Record(v) ==
  /\ \/ /\ v \notin keys
        /\ keys' = keys \cup {v}
     \/ /\ Fragile
        /\ \/ keys' = keys \cup {v}
           \/ UNCHANGED keys
  /\ Publish(v)
  /\ UNCHANGED <<queued, held, working, lost>>

\* The process stops between SETNX and the publishing.
RecordCrash(v) ==
  /\ Fragile
  /\ v \notin keys
  /\ keys' = keys \cup {v}
  /\ Dropped({v})
  /\ UNCHANGED <<deliveryVars, view, working>>

KeyExpires(v) ==
  /\ v \in keys
  /\ keys' = keys \ {v}
  /\ UNCHANGED <<deliveryVars, view, working, lost>>

Arrives(e) ==
  /\ Arrive(e)
  /\ UNCHANGED <<requesting, working, lost>>

NotSent(e) ==
  /\ Fragile
  /\ GiveUp(e)
  /\ Dropped({view[e]})
  /\ UNCHANGED <<requesting, working>>

-----------------------------------------------------------------------------
(* The consumer. *)

MayTake(e) == phase = "up" /\ hand = NoHand /\ e \in queued[Worker]

Take(e) ==
  /\ MayTake(e)
  /\ Taken(Worker, e)
  /\ hand' = [event |-> e, added |-> FALSE]
  /\ UNCHANGED <<requesting, phase, memory, flush, table, lost>>

\* add
MayAdd == hand.event # None /\ ~hand.added

Add ==
  /\ MayAdd
  /\ memory' = memory \cup {view[hand.event]}
  /\ hand' = [hand EXCEPT !.added = TRUE]
  /\ UNCHANGED <<deliveryVars, requesting, phase, flush, table, lost>>

Commit ==
  /\ hand.added
  /\ Committed(Worker, hand.event)
  /\ hand' = NoHand
  /\ UNCHANGED <<requesting, phase, memory, flush, table, lost>>

\* The consumer's connection breaks between two events; the memory stays.
Reconnect ==
  /\ Fragile
  /\ hand = NoHand
  /\ held[Worker] # {}
  /\ Reread(Worker, {})
  /\ UNCHANGED <<requesting, working, lost>>

-----------------------------------------------------------------------------
(* flushViews. *)

\* Mutant of Due: views are collected until there are two.
DueMany == \E v, w \in memory : v # w

\* Whether the ticker's flush finds anything.
Due == memory # {}

\* drain, at the ticker: when the context is cancelled, either may be served first.
MayDrain == phase \in {"up", "stopping"} /\ flush = NoFlush /\ Due

FlushDrain ==
  /\ MayDrain
  /\ flush' = [NoFlush EXCEPT !.pc = "begin", !.batch = memory]
  /\ memory' = {}
  /\ UNCHANGED <<deliveryVars, requesting, phase, hand, table, lost>>

\* A call to the database may fail, and may once the context is cancelled.
MayFail == Fragile \/ phase = "stopping"

\* The flush ends without a commit: its views are not put back.
FlushFails ==
  /\ MayFail
  /\ flush' = NoFlush
  /\ Dropped(flush.batch)
  /\ UNCHANGED <<deliveryVars, requesting, phase, hand, memory, table>>

FlushBegin ==
  /\ flush.pc = "begin"
  /\ \/ /\ flush' = [flush EXCEPT !.pc = "insert"]
        /\ UNCHANGED <<deliveryVars, requesting, phase, hand, memory, table, lost>>
     \/ FlushFails

\* One INSERT per view; a failing one is logged, but the transaction is aborted.
FlushInsert ==
  /\ flush.pc = "insert"
  /\ \E failed \in BOOLEAN :
       /\ failed => MayFail
       /\ flush' = [flush EXCEPT !.pc = "commit", !.aborted = failed]
  /\ UNCHANGED <<deliveryVars, requesting, phase, hand, memory, table, lost>>

\* COMMIT fails with or without effect, or rolls an aborted transaction back.
FlushCommit ==
  /\ flush.pc = "commit"
  /\ \/ /\ ~flush.aborted
        /\ table' = table \cup flush.batch
        /\ flush' = NoFlush
        /\ UNCHANGED <<deliveryVars, requesting, phase, hand, memory, lost>>
     \/ FlushFails

-----------------------------------------------------------------------------
(* The worker stops and starts. *)

\* SIGTERM: the context is cancelled.
Stop ==
  /\ phase = "up"
  /\ phase' = "stopping"
  /\ UNCHANGED <<deliveryVars, requesting, hand, memory, flush, table, lost>>

\* Both goroutines have returned: what is in memory is flushed once more.
MayStop == phase = "stopping" /\ hand = NoHand /\ flush = NoFlush

StopFlush ==
  /\ MayStop
  /\ phase' = "last"
  /\ memory' = {}
  /\ flush' = IF memory = {} THEN NoFlush ELSE [NoFlush EXCEPT !.pc = "begin", !.batch = memory]
  /\ UNCHANGED <<deliveryVars, requesting, hand, table, lost>>

\* The process has ended and is started again.
MayStart == phase = "last" /\ flush = NoFlush

Start ==
  /\ MayStart
  /\ phase' = "up"
  /\ Reread(Worker, {})
  /\ UNCHANGED <<requesting, hand, memory, flush, table, lost>>

\* Mutants of Unfinished: the event is committed before it is handled; there always is one.
UnfinishedNone == {}
UnfinishedAlways == {hand.event}

\* The event that is read again when the worker is killed.
Unfinished == {hand.event} \ {None}

\* The worker is killed, in any phase, and started again.
Kill ==
  /\ Fragile
  /\ Reread(Worker, Unfinished)
  /\ phase' = "up"
  /\ hand' = NoHand
  /\ memory' = {}
  /\ flush' = NoFlush
  /\ Dropped(memory \cup flush.batch)
  /\ UNCHANGED <<requesting, table>>

-----------------------------------------------------------------------------
Consume == (\E e \in Events : Take(e)) \/ Add \/ Commit \/ Reconnect
Flushing == FlushDrain \/ FlushBegin \/ FlushInsert \/ FlushCommit

Next == \/ \E v \in Views : Record(v) \/ RecordCrash(v) \/ KeyExpires(v)
        \/ \E e \in Events : Arrives(e) \/ NotSent(e)
        \/ Consume
        \/ Flushing
        \/ Stop \/ StopFlush \/ Start \/ Kill

Spec == Init /\ [][Next]_vars

\* Event e is in hand and its view not yet in memory.
InHand(e) == hand.event = e /\ ~hand.added

\* A publishing ends, with its timeout at the latest.  The consumer and the ticker go on
\* whatever stops them, though not each time at the same point, and a worker that stops is
\* started again (restart: unless-stopped).  Strong fairness of Take, Add and FlushDrain
\* is stated with their guards for ENABLED.  Arriving, Add, Commit, the three steps of a
\* flush, StopFlush and Start each make their own guard false, so that weak fairness of
\* them says that the guard is false again and again.
Fairness ==
  /\ \A e \in Events :
       /\ []<>(e \notin sending)
       /\ <>[]~MayTake(e) \/ []<><<Take(e)>>_vars
       /\ <>[]~InHand(e) \/ []<><<InHand(e) /\ Add>>_vars
  /\ []<>~MayAdd /\ []<>~hand.added
  /\ <>[]~MayDrain \/ []<><<FlushDrain>>_vars
  /\ []<>(flush.pc # "begin") /\ []<>(flush.pc # "insert") /\ []<>(flush.pc # "commit")
  /\ []<>~MayStop /\ []<>~MayStart

FairSpec == Spec /\ Fairness

-----------------------------------------------------------------------------
(* Properties. *)

\* Every variable has its type.
TypeOK == /\ DeliveryTypeOK
          /\ keys \in SUBSET Views
          /\ view \in [Events -> Views \cup {None}]
          /\ phase \in {"up", "stopping", "last"}
          /\ hand \in Hand
          /\ memory \in SUBSET Views
          /\ flush \in Flush
          /\ table \in SUBSET Views
          /\ lost \in SUBSET Views

\* A view that was recorded, or whose key keeps it from being recorded again, is in the
\* table, on its way, or was lost by a failing call, a flush cut off by a stop, or a killed
\* process: no order of adding, draining, writing, committing and reading again loses another.
ViewsAreKept ==
  \A v \in Views : v \in keys \/ (\E e \in Events : view[e] = v) =>
    v \in table \/ Pending(v) \/ v \in lost

\* Every view that is published is in the table in the end, unless it is lost on the way.
ViewsAreWritten ==
  \A e \in Events : e \in sending \cup queued[Worker] ~> view[e] \in table \cup lost
=============================================================================
