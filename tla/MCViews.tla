------------------------------- MODULE MCViews -------------------------------
(* Instances of Views for TLC. *)
EXTENDS Views

CONSTANTS v1

\* Bounds: one view, recorded again after its key expired or was not set; or two views
\* without keys, commits that fail and losses.
OneView == \A e \in Events : view[e] \in {v1, None}
Smooth == keys = {} /\ lost = {} /\ held[Worker] = {}
RaceBound == keys \subseteq {v1} /\ (OneView \/ Smooth)
=============================================================================
