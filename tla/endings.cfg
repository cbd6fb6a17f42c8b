SPECIFICATION MCSpec
CONSTANTS
  s1 = s1
  s2 = s2
  k1 = k1
  k2 = k2
  n1 = n1
  n2 = n2
  None = None
  Bad = Bad
  q1 = q1
  q2 = q2
  p1 = p1
  Mutations = 3
  Size <- MCSize
  Verdicts <- MCVerdicts
  Jobs = 2
  MinScore = 67
  Seconds = 1
INVARIANTS
  SuccessMeansAlikeNoticed CopiesAreApart OnlyAlikeAreConfused
PROPERTIES
  EveryFormEnds EveryRequestEnds EveryRunEnds CheckEnds
CHECK_DEADLOCK FALSE
