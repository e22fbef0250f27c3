------------------------------ MODULE Catalogue ------------------------------
(***************************************************************************)
(* The column dances.status as the services that only read it see it: a    *)
(* dance can be danced for the public, or it cannot, or it has been        *)
(* deleted for good.  Duel is built over this module, and the component    *)
(* that writes the column, Uploads, implements it.                         *)
(***************************************************************************)
CONSTANT Dances
VARIABLE catalog  \* catalog[dn]: "published", "private" or "deleted"

Init == catalog \in [Dances -> {"published", "private"}]

\* The status of a dance that is there changes, whoever asked for it.
SetStatus(dn) ==
  /\ catalog[dn] # "deleted"
  /\ catalog' = [catalog EXCEPT ![dn] = IF @ = "published" THEN "private" ELSE "published"]

\* The row goes, and its id is never given again.
Delete(dn) ==
  /\ catalog[dn] # "deleted"
  /\ catalog' = [catalog EXCEPT ![dn] = "deleted"]

Next == \E dn \in Dances : SetStatus(dn) \/ Delete(dn)

Spec == Init /\ [][Next]_catalog
=============================================================================
