SPECIFICATION Spec
CONSTANTS
  k1 = k1
  n1 = n1
  a1 = a1
  i1 = i1
  root = root
  petrov = petrov
  Okei = {k1}
  Inn = {n1}
  Sku = {a1}
  Login = {root, petrov}
  Invoice = {i1}
  MaxId = 2
  None = None
  Request = {q1, q2, q3}
  Start <- Arrivals
  Operation = {"create_receipt", "delete_receipt", "add_item", "delete_item",
               "delete_supplier", "delete_material"}
SYMMETRY Symmetry
INVARIANTS TypeOK Integrity SuccessCanCommit
