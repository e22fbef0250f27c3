------------------------------ MODULE Delivery ------------------------------
(***************************************************************************)
(* How an event gets from a request to a worker: kafka/producer.go and     *)
(* kafka/consumer.go.  An event is published by a goroutine of its own and *)
(* put into a partition that does not depend on its key, so events arrive  *)
(* in any order or, when publishing fails, not at all.  A consumer takes   *)
(* one event, handles it and then commits it; what is not committed when   *)
(* it reads again from the committed offsets comes a second time.  How the *)
(* events are spread over partitions is left open: a consumer takes any    *)
(* event of its queue, and a commit may cover earlier ones.                *)
(***************************************************************************)
CONSTANTS
  Events,  \* events that may be published
  Groups   \* consumer groups; each gets every event and has one consumer

VARIABLES
  sending, \* events that a goroutine of the producer is publishing
  queued,  \* queued[g]: events group g has still to take
  held     \* held[g]: events group g has handled since it reads, but not committed

deliveryVars == <<sending, queued, held>>

DeliveryInit == /\ sending = {}
                /\ queued = [g \in Groups |-> {}]
                /\ held = [g \in Groups |-> {}]

\* PublishAsync: the caller goes on at once.
Published(es) == sending' = sending \cup es

\* The brokers take the event; the writer may not learn of it and send it once more.
Arrive(e) ==
  /\ e \in sending
  /\ \E unsure \in BOOLEAN : sending' = IF unsure THEN sending ELSE sending \ {e}
  /\ queued' = [g \in Groups |-> queued[g] \cup {e}]
  /\ UNCHANGED held

\* The writer gives up, or the process stops; the failure is only logged.
GiveUp(e) ==
  /\ e \in sending
  /\ sending' = sending \ {e}
  /\ UNCHANGED <<queued, held>>

\* FetchMessage
Taken(g, e) ==
  /\ e \in queued[g]
  /\ queued' = [queued EXCEPT ![g] = @ \ {e}]
  /\ UNCHANGED <<sending, held>>

\* CommitMessages, which also covers the events before e in its partition, or fails:
\* that is logged and the next event taken.
Committed(g, e) ==
  /\ \/ \E covered \in SUBSET held[g] : held' = [held EXCEPT ![g] = @ \ (covered \cup {e})]
     \/ held' = [held EXCEPT ![g] = @ \cup {e}]
  /\ UNCHANGED <<sending, queued>>

\* The consumer reads again from the committed offsets: after an error of the brokers
\* (Subscribe) or in a new process.  inHand: the events whose handling it breaks off.
Reread(g, inHand) ==
  /\ queued' = [queued EXCEPT ![g] = @ \cup held[g] \cup inHand]
  /\ held' = [held EXCEPT ![g] = {}]
  /\ UNCHANGED sending

DeliveryTypeOK ==
  /\ sending \in SUBSET Events
  /\ queued \in [Groups -> SUBSET Events]
  /\ held \in [Groups -> SUBSET Events]
=============================================================================
