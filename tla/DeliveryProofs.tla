--------------------------- MODULE DeliveryProofs ---------------------------
(***************************************************************************)
(* What the steps of Delivery keep, for the modules that are built on it.  *)
(***************************************************************************)
EXTENDS Delivery, TLAPS

\* Nothing is on its way at first.
LEMMA DeliveryInitType == DeliveryInit => DeliveryTypeOK
BY DEF DeliveryInit, DeliveryTypeOK

\* Every step of the producer and of a consumer keeps the types.
LEMMA DeliveryStepType ==
  ASSUME DeliveryTypeOK,
         \/ \E es \in SUBSET Events : Published(es) /\ UNCHANGED <<queued, held>>
         \/ \E e \in Events : Arrive(e) \/ GiveUp(e)
         \/ \E g \in Groups, e \in Events : Taken(g, e) \/ Committed(g, e)
         \/ \E g \in Groups, es \in SUBSET Events : Reread(g, es)
         \/ UNCHANGED deliveryVars
  PROVE  DeliveryTypeOK'
<1>1. CASE \E es \in SUBSET Events : Published(es) /\ UNCHANGED <<queued, held>>
  BY <1>1 DEF DeliveryTypeOK, Published
<1>2. CASE \E e \in Events : Arrive(e) \/ GiveUp(e)
  <2>1. ASSUME NEW e \in Events, Arrive(e) PROVE DeliveryTypeOK'
    BY <2>1 DEF DeliveryTypeOK, Arrive
  <2>2. ASSUME NEW e \in Events, GiveUp(e) PROVE DeliveryTypeOK'
    BY <2>2 DEF DeliveryTypeOK, GiveUp
  <2> QED BY <1>2, <2>1, <2>2
<1>3. ASSUME NEW g \in Groups, NEW e \in Events, Taken(g, e) PROVE DeliveryTypeOK'
  BY <1>3 DEF DeliveryTypeOK, Taken
<1>4. ASSUME NEW g \in Groups, NEW e \in Events, Committed(g, e) PROVE DeliveryTypeOK'
  <2>1. CASE held' = [held EXCEPT ![g] = @ \cup {e}]
    BY <1>4, <2>1 DEF DeliveryTypeOK, Committed
  <2>2. ASSUME NEW covered \in SUBSET held[g],
               held' = [held EXCEPT ![g] = @ \ (covered \cup {e})]
        PROVE  DeliveryTypeOK'
    BY <1>4, <2>2 DEF DeliveryTypeOK, Committed
  <2> QED BY <1>4, <2>1, <2>2 DEF Committed
<1>5. ASSUME NEW g \in Groups, NEW es \in SUBSET Events, Reread(g, es) PROVE DeliveryTypeOK'
  BY <1>5 DEF DeliveryTypeOK, Reread
<1>6. CASE UNCHANGED deliveryVars
  BY <1>6 DEF DeliveryTypeOK, deliveryVars
<1> QED BY <1>1, <1>2, <1>3, <1>4, <1>5, <1>6
=============================================================================
