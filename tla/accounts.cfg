SPECIFICATION Spec
CONSTANTS
  k1 = k1
  n1 = n1
  a1 = a1
  i1 = i1
  root = root
  petrov = petrov
  Okei = {k1}
  Inn = {n1}
  Sku = {a1}
  Login = {root, petrov}
  Invoice = {i1}
  MaxId = 3
  None = None
  Request = {q1, q2}
  Start <- Accounts
  Operation = {"create_user", "delete_user", "create_receipt", "delete_receipt"}
SYMMETRY Symmetry
CHECK_DEADLOCK FALSE
PROPERTIES LastAdminGoesOnlyByADeletedOne
