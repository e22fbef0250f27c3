\* Three saved attempts of one user on up to three days, failing calls and crashes.
SPECIFICATION Spec
CONSTANTS
  None = None
  Groups = {"streak-worker"}
  Events = {e1, e2, e3}
  Users = {u1}
  LastDay = 3
  Milestones = {2}
  Fragile = TRUE
CONSTRAINT RaceBound
SYMMETRY Sym
CHECK_DEADLOCK FALSE
INVARIANTS
  TypeOK
  StreaksAreDanced
  StreaksAreWhole
  RemindersAreTrue
  ToldOnce
