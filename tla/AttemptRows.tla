----------------------------- MODULE AttemptRows -----------------------------
(***************************************************************************)
(* The tables dance_attempts and saved_attempts as the duels see them: an  *)
(* attempt is recorded once and stays recorded, and it is saved under its  *)
(* dance and removed again.  Duel is built over this module, and the       *)
(* component that writes the rows, Attempts, implements it as long as the  *)
(* dance is not deleted.                                                   *)
(***************************************************************************)
CONSTANTS Attempts,
          AttemptDance,  \* AttemptDance[a]: the dance it was recorded for
          NotSaved       \* no row of saved_attempts

VARIABLES recorded,  \* the attempts that have a row in dance_attempts
          saved      \* saved[a]: the dance under which saved_attempts holds a

rows == <<recorded, saved>>

Init == /\ recorded \in SUBSET Attempts
        /\ saved = [a \in Attempts |-> NotSaved]

\* RecordDanceAttempt, called by a poll or a save.
Record(a) == /\ a \notin recorded
             /\ recorded' = recorded \cup {a}
             /\ UNCHANGED saved

\* Some user saves the attempt; the row is that user's.
Save(a) == /\ saved[a] = NotSaved
           /\ saved' = [saved EXCEPT ![a] = AttemptDance[a]]
           /\ UNCHANGED recorded

\* The user whose row it is removes it.
Unsave(a) == /\ saved[a] # NotSaved
             /\ saved' = [saved EXCEPT ![a] = NotSaved]
             /\ UNCHANGED recorded

Next == \E a \in Attempts : Record(a) \/ Save(a) \/ Unsave(a)

Spec == Init /\ [][Next]_rows
=============================================================================
