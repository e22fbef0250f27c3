\* Two requests of any kind and one dance, whose id is used up when it is deleted.
SPECIFICATION Spec
CONSTANTS
  None = None
  Users = {u1, u2}
  Dances = {d1}
  Slots = {s1, s2}
  Rework = {k1, k2}
  Fragile = {s1, s2}
CONSTRAINT TasksOrAccounts
SYMMETRY Sym
CHECK_DEADLOCK FALSE
INVARIANTS
  TypeOK
  UploadsHaveUploader
  LeftoversAreLate
PROPERTIES
  PublicationKept
  ApprovedToldWhenWatchable
