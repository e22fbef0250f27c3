----------------------------- MODULE MCUploads -----------------------------
(* Instances of Uploads for TLC. *)
EXTENDS Uploads, Integers, TLC

\* Bound: where approvals start two tasks for a dance, one account is concerned with it;
\* where there are two accounts, one task.
Started(d) == {k \in Rework : ml[d][k] # "none"}
Concerned(d) ==
  (uploaders[d] \cup {maker[d]} \cup {req[s].user : s \in Slots}) \ {None}
TasksOrAccounts ==
  \A d \in Dances : Cardinality(Started(d)) < 2 \/ Cardinality(Concerned(d)) < 2

Sym == Permutations(Slots) \cup Permutations(Users)
=============================================================================
