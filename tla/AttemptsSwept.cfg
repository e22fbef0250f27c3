\* Videos: requests that fail half way, one that races with their deletions, and a sweep that fails.
SPECIFICATION FairSpec
CONSTANTS
  u1 = u1
  a1 = a1
  g1 = g1
  None = None
  Users = {u1}
  Attempts = {a1}
  Slots = {s1, s2}
  Sweepers = {p1}
  Fragile = {s1, p1}
  Maker <- MCMaker
  Score <- MCScore
  Claims = {}
CONSTRAINT OneRacer
PROPERTIES
  VideosAreSwept
  ShownVideosTakenOnlyByOvertaken
