\* One duel, two competing requests, two replicas, one attempt of each player; or three ids
\* for challenges between the same two players.
SPECIFICATION Spec
CONSTANTS
  u1 = u1
  u2 = u2
  dn1 = dn1
  a1 = a1
  a2 = a2
  b1 = b1
  d1 = d1
  p1 = p1
  None = None
  Users = {u1, u2}
  Dances = {dn1}
  Duels = {d1, d2, d3}
  Attempts = {a1, b1}
  Requests = {r1, r2}
  Replicas = {p1, p2}
  Fragile = {}
  AttemptOwner <- MCOwner
  AttemptDance <- MCDance
  ResultDance <- MCResult
  AttemptScore <- MCScore
CONSTRAINT RaceOrTwins
SYMMETRY Sym
INVARIANTS
  TypeOK
  WinnerIsNotBeaten
  NoScoreBeforeAcceptance
  OutcomeToldOnce
  OpenTwinsBounded
PROPERTIES
  EndedDuelsKeepTheirEnding
  LifecycleSpec
