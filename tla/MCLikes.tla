------------------------------ MODULE MCLikes ------------------------------
(* Instances of Likes for TLC. *)
EXTENDS Likes, TLC

CONSTANTS u1, u2, d1, d2

\* The first dance has two uploaders, the second none.
AuthorOf == [d \in Dances |-> IF d = d1 THEN u1 ELSE None]
UploadersOf == [d \in Dances |-> IF d = d1 THEN {u1, u2} ELSE {}]

\* Bounds: the consumers meet in no state but the likes, so one of them at a time is
\* explored; one like may fail to be handled, one event be sent twice, or one commit fail;
\* a second request and another check, of the author, do not run at the same time; and no
\* like is set that has no event left.
FeederStill == hand[Feeder] = NoHand /\ held[Feeder] = {} /\ feed = {}
ChecksStill == held[Checker] = {} /\ unlocked = {} /\ \A p \in Checks : check[p] = NoCheck
Missing == UNION {missed[g] : g \in Groups}
Doubted == {e \in sending : \E g \in Groups : e \in queued[g]}
Uncommitted == UNION {held[g] : g \in Groups}
OneTrouble == Cardinality(Missing) + Cardinality(Doubted) + Cardinality(Uncommitted) <= 1
OneRequest == Cardinality({s \in Slots : req[s] # Idle}) <= 1
NoOthers == \A p \in Others : check[p] = NoCheck
OfAuthor == \A p \in Others : check[p].user \in {None, u1}
AllToAnnounce ==
  (\A e \in Events : about[e] # NoLike) => \A s \in Slots : req[s].pc # "announce"

RaceBound == /\ FeederStill \/ ChecksStill
             /\ OneTrouble
             /\ OneRequest \/ NoOthers
             /\ OfAuthor
             /\ AllToAnnounce

Sym == Permutations(Slots) \cup Permutations(Events)
=============================================================================
