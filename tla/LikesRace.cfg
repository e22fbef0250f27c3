\* Two requests, two accounts that like, two events and a check of another consumer.
SPECIFICATION Spec
CONSTANTS
  None = None
  u1 = u1
  u2 = u2
  d1 = d1
  d2 = d2
  Groups = {"achievements", "feed"}
  Events = {e1, e2}
  Users = {u1, u2}
  Dances = {d1}
  Author <- AuthorOf
  Uploaders <- UploadersOf
  Levels = {1, 2}
  Slots = {s1, s2}
  Others = {o1}
  Fragile = TRUE
CONSTRAINT RaceBound
SYMMETRY Sym
CHECK_DEADLOCK FALSE
INVARIANTS
  TypeOK
  LikesAreShown
  ReachedIsUnlocked
  AchievementToldOnce
