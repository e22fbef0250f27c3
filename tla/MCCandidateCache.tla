------------------------- MODULE MCCandidateCache -------------------------
(* Instances of CandidateCache for TLC. *)
EXTENDS CandidateCache
=============================================================================
