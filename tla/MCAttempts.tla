----------------------------- MODULE MCAttempts -----------------------------
(* Instances of Attempts for TLC: an attempt of u1 and one made without an account. *)
EXTENDS Attempts, TLC

CONSTANTS u1, a1, g1

MCMaker == [a \in Attempts |-> IF a = a1 THEN u1 ELSE None]
MCScore == [a \in Attempts |-> 1]
MCClaims == {2}

\* Bound of single runs: no video expires.
VideosStay == aged = {}

\* Bound of single runs: once a user has been told of a row that is another's for the
\* second time since it was made, nothing more is followed.
OthersToldOnce ==
  \A a \in Attempts, u \in Users : saved[a].user # u => told[a][u] <= 1

\* Bound of single runs: only one of the attempts is made.
OneAttempt == Cardinality({a \in Attempts : video[a] \/ ml[a] # "none"}) <= 1

\* Bound of single runs: saves keep the video.
SavesWithVideo == \A s \in Slots : req[s].pc = "load" => req[s].video

\* Bound of single runs: a request that never fails begins only while the failing one
\* is idle or about to take a video.  The steps fairness speaks of never leave it.
TakingVideo == {"discard", "prune", "delete", "erase"}

OneRacer ==
  \A s \in Slots \cap Fragile, t \in Slots \ Fragile :
    req[t].pc = "idle" \/ req[s].pc \in {"idle"} \cup TakingVideo

Sym == Permutations(Slots)
=============================================================================
