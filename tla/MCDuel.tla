------------------------------- MODULE MCDuel -------------------------------
(* Instances of Duel for TLC: two players, and attempts of known scores. *)
EXTENDS Duel, TLC

CONSTANTS u1, u2, dn1, a1, a2, b1, d1, p1

\* u1 danced dn1 once or twice, u2 once; u2 beats a1 and ties with a2.
MCOwner  == [a \in Attempts |-> IF a = b1 THEN u2 ELSE u1]
MCDance  == [a \in Attempts |-> dn1]
MCResult == [a \in Attempts |-> IF a = b1 THEN None ELSE dn1]
MCScore  == [a \in Attempts |-> IF a = a1 THEN 1 ELSE 2]

\* Bounds of single runs: which actions of the rest of the system are explored.
DancesStay == /\ \A dn \in Dances : catalog[dn] = "published"
              /\ recorded = Attempts
FirstChallenges == \A d \in Duels : duels[d].player["challenger"] # u2

AllConsent == \A r \in Requests : req[r].op = "submit" => req[r].consent
OwnersSubmit == \A r \in Requests :
  req[r].op = "submit" => AttemptOwner[req[r].attempt] = req[r].user

RaceBound == DancesStay /\ FirstChallenges /\ AllConsent /\ OwnersSubmit

\* Challenges only: nothing is saved or submitted, and one replica expires duels.
TwinBound == /\ DancesStay /\ FirstChallenges
             /\ \A d \in Duels : duels[d].score = BothNone
             /\ \A r \in Requests : req[r].op # "submit"
             /\ \A a \in Attempts : saved[a] = NotSaved
             /\ \A p \in Replicas \ {p1} : job[p] = {}

\* All that may happen to one duel, or challenges with more.
OneDuel == \A d \in Duels : duels[d] # NoRow => d = d1
RaceOrTwins == (RaceBound /\ OneDuel) \/ TwinBound

Sym == Permutations(Requests)
=============================================================================
