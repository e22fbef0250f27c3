----------------------------- MODULE MCStreaks -----------------------------
(* Instances of Streaks for TLC. *)
EXTENDS Streaks, TLC

\* Bounds: each crash between the two writes may count a day again; what happens after an
\* event was lost or late is explored for two days and without reminders, and not for a user
\* whose streak was not renewed either, of whom the properties then say nothing.
\* Three attempts are saved within two days, or two within three.
CountsBound == \A u \in Users : streak[u] <= LastDay + 1
Early == marked = {} /\ round = NoRound /\ unrenewed = {} /\ day < LastDay
Unspoiled == spoiled = {} \/ Early
ThirdSaveEarly == (\A e \in Events : maker[e] # None) => day < LastDay
RaceBound == CountsBound /\ Unspoiled /\ ThirdSaveEarly

Sym == Permutations(Events)
=============================================================================
