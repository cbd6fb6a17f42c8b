SPECIFICATION MCSpec
CONSTANTS
  Parts = {"suppliers", "materials", "forms"}
  s1 = s1
  s2 = s2
  i1 = i1
  i2 = i2
  k1 = k1
  k2 = k2
  n1 = n1
  n2 = n2
  None = None
  Bad = Bad
  Request = {q1, q2}
  Start <- MCStart
  Asked <- MCAsked
  Admin <- Nobody
  MaxId = 3
SYMMETRY Symmetry
INVARIANTS TypeOK Integrity
PROPERTIES ApiRefusalStoresNothing SuccessIsStored EditsKeepTheRest
