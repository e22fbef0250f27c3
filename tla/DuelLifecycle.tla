--------------------------- MODULE DuelLifecycle ---------------------------
(***************************************************************************)
(* What the duel service promises about each duel, whatever requests, jobs *)
(* and failures produce it: a challenge is answered at most once, a duel   *)
(* that was never accepted never gets a result, a finished duel never      *)
(* changes, and a result names a winner whose score is not beaten.         *)
(***************************************************************************)
EXTENDS Integers

CONSTANTS Duels, Users, Scores, NoResult

Sides == {"challenger", "opponent"}

\* The final result of a duel: each side's player and score, and the winner.
Results ==
  {res \in [player : [Sides -> Users], score : [Sides -> Scores], winner : Users] :
     \E s \in Sides : /\ res.winner = res.player[s]
                      /\ \A o \in Sides : res.score[o] <= res.score[s]}

Final == {"completed", "expired", "declined"}

VARIABLES phase,    \* phase[d]: where duel d is in its life
          result    \* result[d]: its result, NoResult until it is completed

lifeVars == <<phase, result>>

Init == /\ phase = [d \in Duels |-> "none"]
        /\ result = [d \in Duels |-> NoResult]

\* Duel d moves from one of the phases in "from" to the phase "to", without a result.
Move(d, from, to) == /\ phase[d] \in from
                     /\ phase' = [phase EXCEPT ![d] = to]
                     /\ UNCHANGED result

Challenge(d) == Move(d, {"none"}, "pending")
Accept(d)    == Move(d, {"pending"}, "live")
Decline(d)   == Move(d, {"pending"}, "declined")

Complete(d) == /\ phase[d] = "live"
               /\ phase' = [phase EXCEPT ![d] = "completed"]
               /\ result'[d] \in Results
               /\ result' = [result EXCEPT ![d] = result'[d]]

\* One pass of the expiry job ends any number of open duels.
Expire == /\ \E ds \in SUBSET {d \in Duels : phase[d] \in {"pending", "live"}} :
               phase' = [d \in Duels |-> IF d \in ds THEN "expired" ELSE phase[d]]
          /\ UNCHANGED result

Next == \/ \E d \in Duels : Challenge(d) \/ Accept(d) \/ Decline(d) \/ Complete(d)
        \/ Expire

Spec == Init /\ [][Next]_lifeVars
=============================================================================
