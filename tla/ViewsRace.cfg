\* Two views, one of which may be recorded again, a worker that fails, stops and is killed.
SPECIFICATION FairSpec
CONSTANTS
  None = None
  Groups = {"analytics-worker-views"}
  v1 = v1
  Events = {e1, e2}
  Views = {v1, v2}
  Fragile = TRUE
CONSTRAINT RaceBound
CHECK_DEADLOCK FALSE
INVARIANTS
  TypeOK
  ViewsAreKept
PROPERTY
  ViewsAreWritten
