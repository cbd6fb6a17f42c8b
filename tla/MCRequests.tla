----------------------------- MODULE MCRequests -----------------------------
(* Small databases and symmetry for checking Requests with TLC. *)
EXTENDS Requests, TLC

CONSTANTS k1, n1, a1, i1, root, petrov

Symmetry == Permutations(Request)

Admin(id, login) ==
  [table |-> "app_user", id |-> id, login |-> login, role |-> "admin"]
Storekeeper(id, login) ==
  [table |-> "app_user", id |-> id, login |-> login, role |-> "storekeeper"]
Unit1     == [table |-> "unit", id |-> 1, okei |-> k1]
Supplier1 == [table |-> "supplier", id |-> 1, inn |-> n1]
Material1 == [table |-> "material", id |-> 1, sku |-> a1, unit |-> 1]
Receipt1  == [table |-> "receipt", id |-> 1, supplier |-> 1, invoice |-> i1,
              author |-> 1]
Item1     == [table |-> "receipt_item", id |-> 1, receipt |-> 1,
              material |-> 1]

(* A database whose sequences stand at the last identifier in use. *)
With(rows) ==
  [rows |-> rows,
   issued |-> [t \in Table |-> IF \E x \in rows : Name(x) = <<t, 2>> THEN 2
                               ELSE IF \E x \in rows : Name(x) = <<t, 1>> THEN 1
                               ELSE 0]]

(* Documents: one receipt with one item, and the records it refers to. *)
Documents ==
  {With({Admin(1, root), Unit1, Supplier1, Material1, Receipt1, Item1})}

(* Arrivals: also a receipt without items, and no receipt yet, so that two  *)
(* items, or two receipts, can be entered at once.                          *)
Arrivals ==
  Documents \cup
    {With({Admin(1, root), Unit1, Supplier1, Material1, Receipt1}),
     With({Admin(1, root), Unit1, Supplier1, Material1})}

(* Directories: as make seed leaves them (one unit), and one material. *)
Directories ==
  {With({Admin(1, root), Storekeeper(2, petrov), Unit1}),
   With({Admin(1, root), Unit1, Supplier1, Material1})}

(* Accounts: two administrators; a supplier to receive from. *)
Accounts ==
  {With({Admin(1, root), Admin(2, petrov), Supplier1})}

=============================================================================
