SPECIFICATION Spec
CONSTANTS
  k1 = k1
  root = root
  Okei = {k1}
  Inn = {n1}
  Sku = {a1}
  Login = {root, petrov}
  Invoice = {i1}
  MaxId = 2
  Start <- Seeded
INVARIANTS TypeOK Integrity
