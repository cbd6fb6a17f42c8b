---------------------------- MODULE SchemaProofs ----------------------------
(***************************************************************************)
(* Facts about rows and about what keeps a set of rows consistent, which   *)
(* the proofs about the operations rest on.                                *)
(***************************************************************************)
EXTENDS Schema, TLAPS

(* Only an item of a receipt refers to a receipt, and nothing refers to an *)
(* item: striking out a receipt with its items leaves no loose reference.  *)
LEMMA ReceiptReferrers ==
  ASSUME NEW x \in Row, NEW y \in Row
  PROVE  /\ x.table = "receipt_item" => ~PointsTo(y, x)
         /\ x.table = "receipt" /\ PointsTo(y, x) => y.table = "receipt_item"
  BY DEF PointsTo, Name, Refs, Row, UnitRow, SupplierRow, MaterialRow,
         UserRow, ReceiptRow, ItemRow

(* Removing rows keeps a database distinct; it keeps it referential when   *)
(* no row that stays refers to one that goes.                              *)
LEMMA RemovalKeepsConsistent ==
  ASSUME NEW d, NEW gone,
         Consistent(d),
         \A x \in d \ gone : \A y \in gone : ~PointsTo(x, y)
  PROVE  Consistent(d \ gone)
<1>1. Distinct(d \ gone)
  BY DEF Consistent, Distinct
<1>2. Referential(d \ gone)
  <2>1. SUFFICES ASSUME NEW x \in d \ gone, NEW ref \in Refs(x)
                 PROVE  \E y \in d \ gone : Name(y) = ref
    BY DEF Referential
  <2>2. PICK y \in d : Name(y) = ref
    BY <2>1 DEF Consistent, Referential
  <2>3. y \notin gone
    BY <2>1, <2>2 DEF PointsTo
  <2> QED
    BY <2>2, <2>3
<1> QED
  BY <1>1, <1>2 DEF Consistent

(* The identifier of a row takes no part in its type, its references or    *)
(* its unique columns.                                                     *)
LEMMA Renumbered ==
  ASSUME NEW x \in Row, NEW n \in Id
  PROVE  /\ [x EXCEPT !.id = n] \in Row
         /\ [x EXCEPT !.id = n].id = n
         /\ [x EXCEPT !.id = n].table = x.table
  BY MaxIdAssumption DEF Id, NoId, AnyId, Row, UnitRow, SupplierRow,
     MaterialRow, UserRow, ReceiptRow, ItemRow

(* The primary key of a row and the references it makes.                   *)
LEMMA RowNames ==
  ASSUME NEW x \in Row
  PROVE  /\ x.table \in Table
         /\ x.id \in Nat
         /\ Name(x) \in Table \X Nat
         /\ Refs(x) \subseteq Table \X Nat
         /\ Name(x) \notin Refs(x)
  BY MaxIdAssumption DEF Id, NoId, AnyId, Name, Refs, Table, Row, UnitRow,
     SupplierRow, MaterialRow, UserRow, ReceiptRow, ItemRow

(* A row of the table of users is a user.                                  *)
LEMMA UserRows ==
  ASSUME NEW x \in Row, x.table = "app_user"
  PROVE  x \in UserRow
  BY DEF Row, UnitRow, SupplierRow, MaterialRow, ReceiptRow, ItemRow, UserRow

(* Adding a row keeps a database consistent when the row is new and what   *)
(* it refers to is there.                                                  *)
LEMMA AdditionKeepsConsistent ==
  ASSUME NEW d, NEW x,
         Consistent(d),
         \A ref \in Refs(x) : \E y \in d : Name(y) = ref,
         \A y \in d : Name(y) # Name(x) /\ Key(y) # Key(x)
  PROVE  Consistent(d \cup {x})
<1>1. Referential(d \cup {x})
  BY DEF Consistent, Referential
<1>2. Distinct(d \cup {x})
  BY DEF Consistent, Distinct
<1> QED
  BY <1>1, <1>2 DEF Consistent

=============================================================================
