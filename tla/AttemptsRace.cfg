\* Two requests of any kind at the same time; two users want the same attempt, of one of
\* them or of nobody.
SPECIFICATION Spec
CONSTANTS
  u1 = u1
  a1 = a1
  g1 = g1
  None = None
  Users = {u1, u2}
  Attempts = {a1, g1}
  Slots = {s1, s2}
  Sweepers = {p1}
  Fragile = {}
  Maker <- MCMaker
  Score <- MCScore
  Claims <- MCClaims
CONSTRAINTS
  VideosStay
  OthersToldOnce
  OneAttempt
  SavesWithVideo
SYMMETRY Sym
INVARIANTS
  TypeOK
  MeasuredScoresStay
  SavedIsRecorded
  ClaimedIsRecorded
  ResultToldBounded
PROPERTY RowsKeepTheirUser
