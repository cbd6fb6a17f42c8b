----------------------------- MODULE Warehouse ------------------------------
(***************************************************************************)
(* What the warehouse promises, with no requests, sessions or locks: the   *)
(* database changes by one whole operation at a time and each operation    *)
(* obeys the domain rules (README.md, BP-01 ... BP-11) at the moment it    *)
(* takes effect:                                                           *)
(*   - a record is entered only if everything it refers to is there and    *)
(*     nothing with the same unique columns is (BP-01, 05, 06, 07, 11);    *)
(*   - a record that is referred to is not struck out (BP-08);             *)
(*   - a receipt is struck out together with all of its items.             *)
(* Requests.tla is shown to implement this module.                         *)
(***************************************************************************)
EXTENDS Schema

CONSTANT Start    (* databases the service may be started on *)

ASSUME StartAssumption ==
  \A d \in Start : d \in SUBSET Row /\ Consistent(d)

VARIABLE db

Init == db \in Start

(* A row is inserted (services.create_unit ... services.add_item). *)
Enter(x) ==
  /\ x.id # NoId
  /\ \A ref \in Refs(x) : \E y \in db : Name(y) = ref
  /\ \A y \in db : Name(y) # Name(x) /\ Key(y) # Key(x)
  /\ db' = db \cup {x}

(* A directory record or a single item is deleted. *)
Strike(x) ==
  /\ x \in db
  /\ Referrers(db, x) = {}
  /\ db' = db \ {x}

(* Faulty: the items of a deleted receipt stay, or stay without a receipt. *)
StrikeReceiptOnly(x) ==
  /\ x \in db
  /\ x.table = "receipt"
  /\ db' = db \ {x}
StrikeReceiptUnlink(x) ==
  /\ x \in db
  /\ x.table = "receipt"
  /\ db' = (db \ ({x} \cup Referrers(db, x)))
             \cup {[y EXCEPT !.receipt = NoId] : y \in Referrers(db, x)}

(* A receipt is deleted together with its items. *)
StrikeReceipt(x) ==
  /\ x \in db
  /\ x.table = "receipt"
  /\ db' = db \ ({x} \cup Referrers(db, x))

Next ==
  \/ \E x \in Row : Enter(x)
  \/ \E x \in db : Strike(x)
  \/ \E x \in db : StrikeReceipt(x)

Spec == Init /\ [][Next]_db

-----------------------------------------------------------------------------
(* Every stored row is a row of its table. *)
TypeOK == db \in SUBSET Row

(* No record is stored twice and none refers to a record that is not       *)
(* there: the foreign keys and unique columns of app/models.py hold after  *)
(* every sequence of operations.                                           *)
Integrity == Consistent(db)

=============================================================================
