------------------------ MODULE CandidateCacheProofs ------------------------
(***************************************************************************)
(* Proofs about CandidateCache, for any number of requests and changes.    *)
(* The singleflight group keeps at most one query between its read of the  *)
(* database and the answers to those who wait: what was answered meanwhile *)
(* came from the list, which is never newer than what that query has read. *)
(* Old queries, then the old list, then old answers go, for good.          *)
(***************************************************************************)
EXTENDS CandidateCache, TLAPS

Leading == {"fetch", "store", "land"}

\* Only one request at a time runs the query.
OneFlight == \A c \in Callers : call[c].pc \in Leading => flight = c

\* The list is not older than any answer, and what the query has read not older than the list.
ListOK == /\ shown <= version /\ since <= version
          /\ items # None => shown <= items /\ items <= version

FlightOK(c) == call[c].pc \in {"store", "land"} /\ call[c].got # None =>
  /\ shown <= call[c].got /\ call[c].got <= version
  /\ items # None => items <= call[c].got
  /\ call[c].pc = "land" /\ items # None => items = call[c].got

\* What a request remembers of the time it looked at the list.
PastOK(c) == call[c].floor <= shown /\ call[c].asof <= since

\* A version from before the last invalidation was on its way at one.
Current(v) == v >= since \/ v \in overtaken

CurrentOK == /\ items # None => Current(items)
             /\ \A c \in Callers : call[c].pc \in {"store", "land"} /\ call[c].got # None =>
                  Current(call[c].got)

IInv == /\ TypeOK
        /\ OneFlight
        /\ ListOK
        /\ \A c \in Callers : FlightOK(c) /\ PastOK(c)
        /\ CurrentOK
        /\ AnswersMoveOn
        /\ InvalidationHolds

-----------------------------------------------------------------------------

\* The fairness assumed is WF of Expire and of Answer(c), where "fresh" and MayGo(c) are
\* what enables them (as they are: the guards of these actions).
LEMMA FairnessIsWeak ==
  ASSUME NEW c \in Callers
  PROVE  /\ [](fresh <=> ENABLED <<Expire>>_vars) =>
              (([]<>~fresh \/ []<><<Expire>>_vars) <=> WF_vars(Expire))
         /\ [](MayGo(c) <=> ENABLED <<Answer(c)>>_vars) =>
              (([]<>~MayGo(c) \/ []<><<Answer(c)>>_vars) <=> WF_vars(Answer(c)))
  BY PTL

\* Every step keeps the types.
LEMMA TypeStep == ASSUME TypeOK, [Next]_vars PROVE TypeOK'
<1> USE CacheAssumption DEF TypeOK, Versions, Call
<1>1. CASE UNCHANGED vars
  BY <1>1 DEF vars
<1>2. ASSUME NEW c \in Callers, Look(c) PROVE TypeOK'
  BY <1>2 DEF Look, Hit, Show
<1>3. ASSUME NEW c \in Callers, Enter(c) PROVE TypeOK'
  BY <1>3 DEF Enter, Lead, Join, Goto
<1>4. ASSUME NEW c \in Callers, Fetch(c) PROVE TypeOK'
  <2>1. PICK v \in {version, None} :
          call' = [call EXCEPT ![c] = [@ EXCEPT !.pc = AfterFetch(v), !.got = v]]
    BY <1>4 DEF Fetch
  <2> DEFINE q == [call[c] EXCEPT !.pc = AfterFetch(v), !.got = v]
  <2>2. q \in Call /\ (q.pc = "store" => q.got # None)
    BY DEF AfterFetch
  <2> HIDE DEF q
  <2>3. call' = [call EXCEPT ![c] = q]
    BY <2>1 DEF q
  <2> QED BY <1>4, <2>2, <2>3 DEF Fetch
<1>5. ASSUME NEW c \in Callers, Store(c) PROVE TypeOK'
  BY <1>5 DEF Store, Goto
<1>6. ASSUME NEW c \in Callers, Land(c) PROVE TypeOK'
  <2>1. shown' \in Versions
    BY <1>6 DEF Land, Show
  <2>2. call' \in [Callers -> Call]
    <3>1. \A d \in Callers : [call[d] EXCEPT !.pc = "done", !.got = call[c].got] \in Call
      OBVIOUS
    <3> QED BY <1>6, <3>1 DEF Land
  <2>3. \A d \in Callers : call'[d].pc = "store" => call'[d] = call[d]
    BY <1>6 DEF Land
  <2> QED BY <1>6, <2>1, <2>2, <2>3 DEF Land
<1>7. ASSUME NEW c \in Callers, Return(c) PROVE TypeOK'
  <2>1. Idle \in Call /\ Idle.pc # "store"
    BY DEF Idle
  <2> QED BY <1>7, <2>1 DEF Return
<1>8. CASE Expire
  BY <1>8 DEF Expire
<1>9. CASE Change
  <2>1. version' \in Versions
    BY <1>9 DEF Change
  <2> QED BY <1>9, <2>1 DEF Change
<1>10. CASE Invalidate
  <2>1. \A d \in Callers : call[d].got # None => call[d].got \in Versions
    OBVIOUS
  <2>2. overtaken' \subseteq Versions
    <3>1. ASSUME NEW v \in overtaken' PROVE v \in Versions
      <4>1. v \in overtaken \/ \E d \in Callers : call[d].got # None /\ v = call[d].got
        BY <1>10 DEF Invalidate
      <4> QED BY <2>1, <4>1
    <3> QED BY <3>1
  <2> QED BY <1>10, <2>2 DEF Invalidate, Cleared
<1> QED
  BY <1>1, <1>2, <1>3, <1>4, <1>5, <1>6, <1>7, <1>8, <1>9, <1>10 DEF Next, Answer

\* Every step keeps the inductive invariant.
LEMMA InvStep == ASSUME IInv, [Next]_vars PROVE IInv'
<1> USE CacheAssumption DEF IInv, TypeOK, Versions, Call, OneFlight, ListOK, FlightOK, PastOK,
        Current, CurrentOK, AnswersMoveOn, InvalidationHolds, Leading
<1>0. TypeOK'
  BY TypeStep
<1>1. CASE UNCHANGED vars
  BY <1>1 DEF vars
<1>2. ASSUME NEW c \in Callers, Look(c) PROVE IInv'
  BY <1>0, <1>2 DEF Look, Hit, Show
<1>3. ASSUME NEW c \in Callers, Enter(c) PROVE IInv'
  BY <1>0, <1>3 DEF Enter, Lead, Join, Goto, MayLead
<1>4. ASSUME NEW c \in Callers, Fetch(c) PROVE IInv'
  <2>1. PICK v \in {version, None} :
          call' = [call EXCEPT ![c] = [@ EXCEPT !.pc = AfterFetch(v), !.got = v]]
    BY <1>4 DEF Fetch
  <2> DEFINE q == [call[c] EXCEPT !.pc = AfterFetch(v), !.got = v]
  <2>2. /\ q.pc = (IF v = None THEN "land" ELSE "store") /\ q.got = v
        /\ q.floor = call[c].floor /\ q.asof = call[c].asof
    BY DEF AfterFetch
  <2> HIDE DEF q
  <2>3. call' = [call EXCEPT ![c] = q]
    BY <2>1 DEF q
  <2>4. \A d \in Callers \ {c} : call'[d] = call[d] /\ call[d].pc \notin Leading
    BY <1>4, <2>3 DEF Fetch
  <2>5. call'[c] = q /\ UNCHANGED <<version, items, flight, shown, since, overtaken>>
    BY <1>4, <2>3 DEF Fetch
  <2>6. v # None => v = version
    BY <2>1
  <2>7. OneFlight' /\ CurrentOK' /\ ListOK'
    BY <1>4, <2>2, <2>4, <2>5, <2>6 DEF Fetch
  <2>8. \A d \in Callers : FlightOK(d)' /\ PastOK(d)'
    BY <2>2, <2>4, <2>5, <2>6
  <2>9. AnswersMoveOn' /\ InvalidationHolds'
    BY <2>2, <2>4, <2>5
  <2> QED BY <1>0, <2>7, <2>8, <2>9
<1>5. ASSUME NEW c \in Callers, Store(c) PROVE IInv'
  BY <1>0, <1>5 DEF Store, Goto
<1>6. ASSUME NEW c \in Callers, Land(c) PROVE IInv'
  <2> DEFINE v == call[c].got
             answered(d) == d = c \/ call[d].pc = "wait"
  <2>1. \A d \in Callers :
          /\ answered(d) => call'[d].pc = "done" /\ call'[d].got = v
          /\ ~answered(d) => call'[d] = call[d] /\ call[d].pc \notin Leading
          /\ call'[d].floor = call[d].floor /\ call'[d].asof = call[d].asof
    BY <1>6 DEF Land
  <2>2. v # None => v \in Versions /\ shown <= v /\ Current(v)
    BY <1>6 DEF Land
  <2>3. /\ UNCHANGED <<version, items, since, overtaken>>
        /\ shown' = (IF v = None THEN shown ELSE v)
    <3>1. UNCHANGED <<version, items, since, overtaken>>
      BY <1>6 DEF Land
    <3>2. shown' = (IF v # None /\ v > shown THEN v ELSE shown)
      BY <1>6 DEF Land, Show
    <3>3. v = None \/ v = shown \/ (v # None /\ v > shown)
      BY <2>2
    <3> QED BY <3>1, <3>2, <3>3
  <2>4. OneFlight' /\ CurrentOK'
    BY <1>6, <2>1, <2>2, <2>3 DEF Land
  <2>5. ListOK'
    <3>1. items # None /\ v # None => items = v
      BY <1>6 DEF Land
    <3>2. v # None => v <= version
      BY <1>6 DEF Land
    <3>3. shown' <= version /\ (items # None => shown' <= items)
      BY <2>2, <2>3, <3>1, <3>2
    <3> QED BY <2>3, <3>3
  <2>6. \A d \in Callers : FlightOK(d)' /\ PastOK(d)'
    BY <2>1, <2>2, <2>3
  <2>7. AnswersMoveOn' /\ InvalidationHolds'
    BY <2>1, <2>2, <2>3
  <2> QED BY <1>0, <2>4, <2>5, <2>6, <2>7
<1>7. ASSUME NEW c \in Callers, Return(c) PROVE IInv'
  BY <1>0, <1>7 DEF Return, Idle
<1>8. CASE Expire
  BY <1>0, <1>8 DEF Expire
<1>9. CASE Invalidate
  BY <1>0, <1>9 DEF Invalidate, Cleared
<1>10. CASE Change
  BY <1>0, <1>10 DEF Change
<1> QED
  BY <1>1, <1>2, <1>3, <1>4, <1>5, <1>6, <1>7, <1>8, <1>9, <1>10 DEF Next, Answer

\* The inductive invariant holds in every reachable state.
LEMMA Invariance == Spec => []IInv
<1>1. ASSUME Init PROVE IInv
  <2>0. Idle.pc = "idle" /\ Idle.got = None /\ Idle.floor = 0 /\ Idle.asof = 0
    BY DEF Idle
  <2>1. \A c \in Callers : call[c] = Idle
    BY <1>1 DEF Init
  <2>2. TypeOK
    <3>1. Idle \in Call /\ Idle.pc = "idle"
      BY CacheAssumption DEF Call, Idle, Versions
    <3>2. call \in [Callers -> Call]
      BY <1>1, <3>1 DEF Init
    <3>3. 0 \in Versions
      BY CacheAssumption DEF Versions
    <3>4. \A c \in Callers : call[c].pc # "store"
      BY <2>0, <2>1
    <3> QED BY <1>1, <3>2, <3>3, <3>4 DEF Init, TypeOK
  <2>3. OneFlight /\ AnswersMoveOn /\ InvalidationHolds
    BY <2>1 DEF OneFlight, AnswersMoveOn, InvalidationHolds, Leading, Idle
  <2>4. ListOK /\ CurrentOK
    BY <1>1, <2>1 DEF Init, ListOK, CurrentOK, Idle
  <2>5. \A c \in Callers : FlightOK(c) /\ PastOK(c)
    <3>1. shown = 0 /\ since = 0 /\ \A c \in Callers : call[c].floor = 0 /\ call[c].asof = 0
      BY <1>1, <2>0, <2>1 DEF Init
    <3>2. \A x : x = 0 => x <= 0
      OBVIOUS
    <3>3. \A c \in Callers : PastOK(c)
      BY <3>1, <3>2 DEF PastOK
    <3>4. \A c \in Callers : FlightOK(c)
      BY <2>0, <2>1 DEF FlightOK
    <3> QED BY <3>3, <3>4
  <2> QED BY <2>2, <2>3, <2>4, <2>5 DEF IInv
<1> QED
  BY <1>1, InvStep, PTL DEF Spec

\* Every variable keeps its type, and a query that failed stores nothing.
THEOREM TypeCorrect == Spec => []TypeOK
<1>1. IInv => TypeOK
  BY DEF IInv
<1> QED
  BY <1>1, Invariance, PTL

\* A request that looks at the list after another was answered gets no older list.
THEOREM AnswersCorrect == Spec => []AnswersMoveOn
<1>1. IInv => AnswersMoveOn
  BY DEF IInv
<1> QED
  BY <1>1, Invariance, PTL

\* A list from before an invalidation is only served by a query that was under way then.
THEOREM InvalidationCorrect == Spec => []InvalidationHolds
<1>1. IInv => InvalidationHolds
  BY DEF IInv
<1> QED
  BY <1>1, Invariance, PTL

-----------------------------------------------------------------------------
(* Once the published dances stay at version v: the query that read before ends,  *)
(* then the list it stored ages, then the requests that were answered with it are *)
(* gone, and no step brings any of the three back.                                *)

\* Request c runs a query that has read an older version, and stores it or hands it out.
OldAt(v, c, pc) == call[c].pc = pc /\ call[c].got \notin {v, None}
Old(v, c)       == OldAt(v, c, "store") \/ OldAt(v, c, "land")

NoneOld(v)      == \A c \in Callers : ~Old(v, c)
NoOtherOld(v, c) == \A d \in Callers \ {c} : ~Old(v, d)

\* The list is the present one, or is not served any more.
ListRenewed(v) == items \in {v, None} \/ ~fresh

\* Request c is not being answered with an older version.
AnsweredWell(v, c) == call[c].pc = "done" => call[c].got \in {v, None}

\* While version v is the present one, no step makes an older list: no query comes to
\* hold one; where none does, the list stays renewed; and where it is, answers stay good.
LEMMA NothingOlder ==
  ASSUME IInv, [Next]_vars, NEW v \in Versions, version = v
  PROVE  /\ \A c \in Callers :
              /\ ~Old(v, c) => ~Old(v, c)'
              /\ OldAt(v, c, "store") => (OldAt(v, c, "store") \/ OldAt(v, c, "land"))'
              /\ OldAt(v, c, "land") => (OldAt(v, c, "land") \/ ~Old(v, c))'
         /\ NoneOld(v) /\ ListRenewed(v) => ListRenewed(v)'
         /\ NoneOld(v) /\ ListRenewed(v) =>
              \A c \in Callers : AnsweredWell(v, c) => AnsweredWell(v, c)'
<1> USE CacheAssumption DEF Old, OldAt, NoneOld, ListRenewed, AnsweredWell
<1>0. /\ call \in [Callers -> Call] /\ fresh \in BOOLEAN
      /\ \A c \in Callers : call[c].pc = "store" => call[c].got # None
  BY DEF IInv, TypeOK
<1>1. ASSUME NEW c \in Callers, Look(c) PROVE call'[c].pc = "done" => fresh /\ call'[c].got = items
  BY <1>0, <1>1 DEF Look, Hit
<1>2. ASSUME NEW c \in Callers, Look(c)
      PROVE  /\ UNCHANGED <<items, fresh>> /\ call'[c].pc \in {"done", "miss"}
             /\ call[c].pc = "idle" /\ \A d \in Callers \ {c} : call'[d] = call[d]
  BY <1>0, <1>2 DEF Look
<1>3. ASSUME NEW c \in Callers, Enter(c) \/ Return(c)
      PROVE  /\ UNCHANGED <<items, fresh>> /\ call'[c].pc \in {"fetch", "wait", "idle"}
             /\ call[c].pc \in {"miss", "done"} /\ \A d \in Callers \ {c} : call'[d] = call[d]
  <2>1. CASE Enter(c)
    BY <1>0, <2>1 DEF Enter, Lead, Join, Goto, Call
  <2>2. CASE Return(c)
    BY <1>0, <2>2 DEF Return, Idle
  <2> QED BY <1>3, <2>1, <2>2
<1>4. ASSUME NEW c \in Callers, Fetch(c)
      PROVE  /\ UNCHANGED <<items, fresh>> /\ call'[c].pc \in {"store", "land"}
             /\ call[c].pc = "fetch" /\ call'[c].got \in {v, None}
             /\ \A d \in Callers \ {c} : call'[d] = call[d]
  BY <1>0, <1>4 DEF Fetch, AfterFetch, Call
<1>5. ASSUME NEW c \in Callers, Store(c)
      PROVE  /\ items' = call[c].got /\ call[c].got # None
             /\ call[c].pc = "store" /\ call'[c].pc = "land" /\ call'[c].got = call[c].got
             /\ \A d \in Callers \ {c} : call'[d] = call[d]
  BY <1>0, <1>5 DEF Store, Goto, Call
<1>6. ASSUME NEW c \in Callers, Land(c)
      PROVE  /\ UNCHANGED <<items, fresh>> /\ call[c].pc = "land"
             /\ \A d \in Callers : \/ call'[d] = call[d] /\ d # c
                                   \/ /\ call[d].pc \in {"land", "wait"}
                                      /\ call[d].pc = "land" => d = c
                                      /\ call'[d].pc = "done" /\ call'[d].got = call[c].got
  BY <1>0, <1>6 DEF Land, Call
<1>7. CASE Expire
  BY <1>7 DEF Expire
<1>8. CASE Invalidate
  BY <1>8 DEF Invalidate, Cleared
<1>9. CASE Change \/ UNCHANGED vars
  BY <1>9 DEF Change, vars
<1> QED BY <1>1, <1>2, <1>3, <1>4, <1>5, <1>6, <1>7, <1>8, <1>9 DEF Next, Answer

\* A request that holds an older version gets on: it stores it, hands it out, returns it.
LEMMA OldMovesOn ==
  ASSUME IInv, NEW v \in Versions, NEW c \in Callers, Answer(c)
  PROVE  /\ OldAt(v, c, "store") => OldAt(v, c, "land")'
         /\ OldAt(v, c, "land") => ~Old(v, c)'
         /\ ~AnsweredWell(v, c) => AnsweredWell(v, c)'
<1> USE DEF Old, OldAt, AnsweredWell
<1>1. call \in [Callers -> Call]
  BY DEF IInv, TypeOK
<1>2. CASE Store(c)
  BY <1>1, <1>2 DEF Store, Goto, Call
<1>3. CASE Land(c)
  BY <1>1, <1>3 DEF Land, Call
<1>4. CASE Enter(c) \/ Fetch(c) \/ Return(c)
  BY <1>1, <1>4 DEF Enter, Lead, Join, Fetch, Return, Idle
<1> QED BY <1>2, <1>3, <1>4 DEF Answer

\* A query that read before the last change ends, and it was the only one.
LEMMA OldQueryEnds ==
  ASSUME NEW v \in Versions
  PROVE  FairSpec => (<>[](version = v) => <>[]NoneOld(v))
<1>1. ASSUME NEW c \in Callers
      PROVE  FairSpec => []([](version = v) => (Old(v, c) => <>NoneOld(v)))
  <2>1. FairSpec => Spec /\ ([]<>~MayGo(c) \/ []<><<Answer(c)>>_vars)
    BY DEF FairSpec, Fairness
  <2>2. IInv /\ (version = v) /\ [Next]_vars =>
          /\ NoOtherOld(v, c) => NoOtherOld(v, c)'
          /\ OldAt(v, c, "store") => (OldAt(v, c, "store") \/ OldAt(v, c, "land"))'
          /\ OldAt(v, c, "land") => (OldAt(v, c, "land") \/ ~Old(v, c))'
    BY NothingOlder DEF NoOtherOld
  <2>3. IInv /\ <<Answer(c)>>_vars =>
          /\ OldAt(v, c, "store") => OldAt(v, c, "land")'
          /\ OldAt(v, c, "land") => ~Old(v, c)'
    BY OldMovesOn
  <2>4. IInv /\ Old(v, c) => NoOtherOld(v, c)
    BY DEF IInv, OneFlight, Leading, Old, OldAt, NoOtherOld
  <2>5. ~Old(v, c) /\ NoOtherOld(v, c) => NoneOld(v)
    BY DEF NoOtherOld, NoneOld
  <2>6. Old(v, c) <=> OldAt(v, c, "store") \/ OldAt(v, c, "land")
    BY DEF Old
  <2>7. Old(v, c) => MayGo(c)
    BY DEF Old, OldAt, MayGo
  <2> QED BY <2>1, <2>2, <2>3, <2>4, <2>5, <2>6, <2>7, Invariance, PTL DEF Spec
<1>2. FairSpec => \A c \in Callers : []([](version = v) => (Old(v, c) => <>NoneOld(v)))
  BY <1>1
<1>3. (\A c \in Callers : []([](version = v) => (Old(v, c) => <>NoneOld(v))))
        => [](\A c \in Callers : [](version = v) => (Old(v, c) => <>NoneOld(v)))
  OBVIOUS
<1>4. (\A c \in Callers : [](version = v) => (Old(v, c) => <>NoneOld(v)))
        => ([](version = v) => ((\E c \in Callers : Old(v, c)) => <>NoneOld(v)))
  OBVIOUS
<1>5. NoneOld(v) \/ \E c \in Callers : Old(v, c)
  BY DEF NoneOld
<1>6. IInv /\ (version = v) /\ [Next]_vars => (NoneOld(v) => NoneOld(v)')
  BY NothingOlder DEF NoneOld
<1> QED BY <1>2, <1>3, <1>4, <1>5, <1>6, Invariance, PTL DEF FairSpec, Spec

\* Whatever query was under way and however often the list is invalidated: from some
\* moment after the last change on, no request is answered with an older list.
THEOREM AnswersRenewed == FairSpec => AnswersCatchUp
<1> SUFFICES ASSUME NEW v \in Versions, NEW c \in Callers
             PROVE  FairSpec => (<>[](version = v) =>
                      <>[](call[c].pc = "done" => call[c].got \in {v, None}))
  BY DEF AnswersCatchUp
<1>1. FairSpec => /\ Spec /\ ([]<>~fresh \/ []<><<Expire>>_vars)
                  /\ ([]<>~MayGo(c) \/ []<><<Answer(c)>>_vars)
  BY DEF FairSpec, Fairness
<1>2. IInv /\ (version = v) /\ [Next]_vars =>
        /\ NoneOld(v) /\ ListRenewed(v) => ListRenewed(v)'
        /\ NoneOld(v) /\ ListRenewed(v) => (AnsweredWell(v, c) => AnsweredWell(v, c)')
  BY NothingOlder
<1>3. ~fresh => ListRenewed(v)
  BY DEF ListRenewed
<1>4. <<Expire>>_vars => ListRenewed(v)'
  BY DEF Expire, ListRenewed
<1>5. ~AnsweredWell(v, c) => MayGo(c)
  BY DEF AnsweredWell, MayGo
<1>6. IInv /\ <<Answer(c)>>_vars => (~AnsweredWell(v, c) => AnsweredWell(v, c)')
  BY OldMovesOn
<1>7. AnsweredWell(v, c) <=> (call[c].pc = "done" => call[c].got \in {v, None})
  BY DEF AnsweredWell
<1> QED BY <1>1, <1>2, <1>3, <1>4, <1>5, <1>6, <1>7, OldQueryEnds, Invariance, PTL DEF Spec
=============================================================================
