\* A failing download counts as "no result": the score the client reports is stored.
SPECIFICATION Spec
CONSTANTS
  u1 = u1
  a1 = a1
  g1 = g1
  None = None
  Users = {u1}
  Attempts = {a1}
  Slots = {s1}
  Sweepers = {p1}
  Fragile = {s1}
  Maker <- MCMaker
  Score <- MCScore
  Claims <- MCClaims
INVARIANT MeasuredScoresStay
