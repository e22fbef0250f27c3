--------------------------- MODULE CandidateCache ---------------------------
(***************************************************************************)
(* A list of published dances that one process of the backend keeps in     *)
(* memory: the two candidateCache of recommendation/usecase/usecase.go,    *)
(* and topDances of dance/usecase/usecase.go, which is never invalidated.  *)
(* Requests look at the list under its mutex; those that miss share one    *)
(* query through a singleflight group.  Meanwhile the list ages, the       *)
(* database moves on and the poll of an upload invalidates the cache.      *)
(***************************************************************************)
EXTENDS Integers

CONSTANTS
  Callers,    \* requests this process handles at the same time
  MaxVersion, \* bound: how often the published dances change
  None        \* Go's nil

ASSUME CacheAssumption == MaxVersion \in Nat /\ None \notin Callers \cup Nat

Versions == 0..MaxVersion

VARIABLES
  version,   \* how often the published dances in the database have changed
  items,     \* the version of them the cache holds, None when it holds none
  fresh,     \* the list is younger than its time to live
  flight,    \* the caller whose query the group is running, or None
  call,      \* call[c]: where request c is
  shown,     \* history: the latest version a request was answered with
  since,     \* history: the version at the last invalidation
  overtaken  \* history: versions read before an invalidation and not yet answered then

vars == <<version, items, fresh, flight, call, shown, since, overtaken>>

\* A request: the version it has read or is answered with (None: an error), and
\* "shown" and "since" as they were when it looked at the cache.
Call == [pc : {"idle", "miss", "wait", "fetch", "store", "land", "done"},
         got : Versions \cup {None},
         floor : Versions,
         asof : Versions]

Idle == [pc |-> "idle", got |-> None, floor |-> 0, asof |-> 0]

Init == /\ version = 0
        /\ items = None
        /\ fresh = FALSE
        /\ flight = None
        /\ call = [c \in Callers |-> Idle]
        /\ shown = 0
        /\ since = 0
        /\ overtaken = {}

Goto(c, pc) == call' = [call EXCEPT ![c].pc = pc]

\* A request is answered with version v, or with an error.
Show(v) == shown' = IF v # None /\ v > shown THEN v ELSE shown

-----------------------------------------------------------------------------
(* load / GetTopDances. *)

\* Mutant of Hit: the age of the list is not looked at.
HitAny == items # None

Hit == items # None /\ fresh

\* The look at the list, under its mutex.
Look(c) ==
  /\ call[c].pc = "idle"
  /\ call' = [call EXCEPT ![c] = [pc |-> IF Hit THEN "done" ELSE "miss",
                                  got |-> IF Hit THEN items ELSE None,
                                  floor |-> shown, asof |-> since]]
  /\ IF Hit THEN Show(items) ELSE UNCHANGED shown
  /\ UNCHANGED <<version, items, fresh, flight, since, overtaken>>

\* Mutant of MayLead: every request that misses runs a query of its own.
MayLeadAlways == TRUE

\* group.Do: the first request runs the query, the others wait for what it finds.
MayLead == flight = None

Lead(c) ==
  /\ call[c].pc = "miss"
  /\ MayLead
  /\ flight' = c
  /\ Goto(c, "fetch")
  /\ UNCHANGED <<version, items, fresh, shown, since, overtaken>>

Join(c) ==
  /\ call[c].pc = "miss"
  /\ ~MayLead
  /\ Goto(c, "wait")
  /\ UNCHANGED <<version, items, fresh, flight, shown, since, overtaken>>

\* Mutant of AfterFetch: the error of the query is not looked at.
AfterFetchStore(v) == "store"

AfterFetch(v) == IF v = None THEN "land" ELSE "store"

\* The query, with the context of the request that leads: it also fails for all
\* when that request's client goes away.
Fetch(c) ==
  /\ call[c].pc = "fetch"
  /\ \E v \in {version, None} :
       call' = [call EXCEPT ![c] = [@ EXCEPT !.pc = AfterFetch(v), !.got = v]]
  /\ UNCHANGED <<version, items, fresh, flight, shown, since, overtaken>>

Store(c) ==
  /\ call[c].pc = "store"
  /\ items' = call[c].got
  /\ fresh' = TRUE
  /\ Goto(c, "land")
  /\ UNCHANGED <<version, flight, shown, since, overtaken>>

\* The group forgets the query; who led it and who waits for it are answered.
Land(c) ==
  /\ call[c].pc = "land"
  /\ flight' = None
  /\ call' = [d \in Callers |->
                IF d = c \/ call[d].pc = "wait"
                THEN [call[d] EXCEPT !.pc = "done", !.got = call[c].got]
                ELSE call[d]]
  /\ Show(call[c].got)
  /\ UNCHANGED <<version, items, fresh, since, overtaken>>

Return(c) ==
  /\ call[c].pc = "done"
  /\ call' = [call EXCEPT ![c] = Idle]
  /\ UNCHANGED <<version, items, fresh, flight, shown, since, overtaken>>

-----------------------------------------------------------------------------
(* What happens meanwhile. *)

\* The time to live runs out.
Expire ==
  /\ fresh
  /\ fresh' = FALSE
  /\ UNCHANGED <<version, items, flight, call, shown, since, overtaken>>

\* Mutant of Cleared: InvalidateCache leaves this list out.
ClearedNot(i) == i

Cleared(i) == None

\* InvalidateCache, by the poll that finds an upload processed: only the list that
\* is held is dropped, not the query that is under way.
Invalidate ==
  /\ items' = Cleared(items)
  /\ since' = version
  /\ overtaken' = overtaken \cup {call[c].got : c \in {d \in Callers :
                                    call[d].pc \in {"store", "land"} /\ call[d].got # None}}
  /\ UNCHANGED <<version, fresh, flight, call, shown>>

\* A dance is published, changed or withdrawn, by whichever process.
Change ==
  /\ version < MaxVersion
  /\ version' = version + 1
  /\ UNCHANGED <<items, fresh, flight, call, shown, since, overtaken>>

Enter(c) == Lead(c) \/ Join(c)

Answer(c) == Enter(c) \/ Fetch(c) \/ Store(c) \/ Land(c) \/ Return(c)

\* Request c has something to do of its own: it is under way and waits for nobody.
MayGo(c) == call[c].pc \notin {"idle", "wait"}

Next == \/ \E c \in Callers : Look(c) \/ Answer(c)
        \/ Expire \/ Invalidate \/ Change

Spec == Init /\ [][Next]_vars

\* Requests that have begun go on, queries end, and time passes: weak fairness of
\* Expire and of each Answer(c), with "fresh" and MayGo(c) for what enables them.
Fairness ==
  /\ []<>~fresh \/ []<><<Expire>>_vars
  /\ \A c \in Callers : []<>~MayGo(c) \/ []<><<Answer(c)>>_vars

FairSpec == Spec /\ Fairness

-----------------------------------------------------------------------------
(* Properties. *)

\* Every variable has its type, and only what a query found is on its way into the cache.
TypeOK == /\ version \in Versions
          /\ items \in Versions \cup {None}
          /\ fresh \in BOOLEAN
          /\ flight \in Callers \cup {None}
          /\ call \in [Callers -> Call]
          /\ \A c \in Callers : call[c].pc = "store" => call[c].got # None
          /\ shown \in Versions
          /\ since \in Versions
          /\ overtaken \in SUBSET Versions

\* Requests that follow each other never go back: one that looks at the cache after
\* another was answered is not answered with an older list, though a query reads the
\* database long before its list is stored and handed out.
AnswersMoveOn ==
  \A c \in Callers : call[c].pc = "done" /\ call[c].got # None => call[c].got >= call[c].floor

\* A request that begins after an invalidation is only answered with a list from
\* before it when the query for that list was under way at the invalidation: storing
\* it undoes the invalidation.
InvalidationHolds ==
  \A c \in Callers : call[c].pc = "done" /\ call[c].got # None =>
    call[c].got >= call[c].asof \/ call[c].got \in overtaken

\* Nobody is left with an old list: once the published dances change no more, the
\* requests come to be answered with them as they are, whatever query was under way
\* and although publishing or withdrawing a dance invalidates nothing.
AnswersCatchUp ==
  \A v \in Versions, c \in Callers : <>[](version = v) =>
    <>[](call[c].pc = "done" => call[c].got \in {v, None})
=============================================================================
