----------------------------- MODULE MCWarehouse ----------------------------
(* A small instance of Warehouse for TLC: the database make seed leaves.   *)
EXTENDS Warehouse

CONSTANTS k1, root

Seeded ==
  {{[table |-> "app_user", id |-> 1, login |-> root, role |-> "admin"],
    [table |-> "unit", id |-> 1, okei |-> k1]}}

=============================================================================
