\* Every duel ends, by the ticker alone, with failing requests and a crashing replica.
SPECIFICATION FairSpec
CONSTANTS
  u1 = u1
  u2 = u2
  dn1 = dn1
  a1 = a1
  a2 = a2
  b1 = b1
  d1 = d1
  p1 = p1
  None = None
  Users = {u1, u2}
  Dances = {dn1}
  Duels = {d1}
  Attempts = {a1, b1}
  Requests = {r1}
  Replicas = {p1}
  Fragile = {r1, p1}
  AttemptOwner <- MCOwner
  AttemptDance <- MCDance
  ResultDance <- MCResult
  AttemptScore <- MCScore
CONSTRAINT FirstChallenges
INVARIANTS
  PublicNeedsBothConsents
  ScoresComeFromOwnAttempts
  NoticesTellTheOutcome
PROPERTY EveryDuelEnds
