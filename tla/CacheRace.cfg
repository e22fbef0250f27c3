\* Three requests at the same time while the published dances change once.
SPECIFICATION FairSpec
CONSTANTS
  None = None
  Callers = {c1, c2, c3}
  MaxVersion = 1
INVARIANTS
  TypeOK
  AnswersMoveOn
  InvalidationHolds
PROPERTY AnswersCatchUp
