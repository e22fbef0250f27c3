\* Approving publishes a dance before it is processed.
SPECIFICATION Spec
CONSTANTS
  None = None
  Users = {u1}
  Dances = {d1}
  Slots = {s1}
  Rework = {k1}
  Fragile = {}
SYMMETRY Sym
CHECK_DEADLOCK FALSE
INVARIANT PublishedIsWatchable
