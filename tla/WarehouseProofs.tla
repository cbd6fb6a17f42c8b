--------------------------- MODULE WarehouseProofs --------------------------
(***************************************************************************)
(* The promises of Warehouse hold for every set of codes, numbers and      *)
(* names, every bound on identifiers and every database to start on.       *)
(***************************************************************************)
EXTENDS Warehouse, SchemaProofs

LEMMA StrikeKeepsConsistent ==
  ASSUME NEW x \in db, Consistent(db), Strike(x)
  PROVE  Consistent(db')
  BY RemovalKeepsConsistent DEF Strike, Referrers

LEMMA StrikeReceiptKeepsConsistent ==
  ASSUME NEW x \in db, TypeOK, Consistent(db), StrikeReceipt(x)
  PROVE  Consistent(db')
<1> DEFINE gone == {x} \cup Referrers(db, x)
<1>1. x \in Row /\ x.table = "receipt" /\ db \subseteq Row
  BY DEF TypeOK, StrikeReceipt
<1>2. \A y \in Referrers(db, x) : y \in Row /\ y.table = "receipt_item"
  BY <1>1, ReceiptReferrers DEF Referrers
<1>3. ASSUME NEW z \in db \ gone, NEW y \in gone
      PROVE  ~PointsTo(z, y)
  <2>1. CASE y = x
    BY <1>3, <2>1 DEF Referrers
  <2>2. CASE y \in Referrers(db, x)
    BY <1>1, <1>2, <1>3, <2>2, ReceiptReferrers
  <2> QED
    BY <1>3, <2>1, <2>2
<1>4. Consistent(db \ gone)
  BY <1>3, RemovalKeepsConsistent
<1> QED
  BY <1>4 DEF StrikeReceipt

-----------------------------------------------------------------------------
(* Every stored row is a row of its table. *)
THEOREM WarehouseTypeOK == Spec => []TypeOK
<1>1. Init => TypeOK
  BY StartAssumption DEF Init, TypeOK
<1>2. TypeOK /\ [Next]_db => TypeOK'
  BY DEF TypeOK, Next, Enter, Strike, StrikeReceipt
<1> QED
  BY <1>1, <1>2, PTL DEF Spec

(* BP-01, 05, 06, 07, 08 and 11 hold after every sequence of operations.   *)
THEOREM WarehouseIntegrity == Spec => []Integrity
<1>1. Init => Integrity
  BY StartAssumption DEF Init, Integrity
<1>2. TypeOK /\ Integrity /\ [Next]_db => Integrity'
  <2> SUFFICES ASSUME TypeOK, Integrity, [Next]_db
               PROVE  Integrity'
    OBVIOUS
  <2>1. ASSUME NEW x \in Row, Enter(x) PROVE Integrity'
    BY <2>1, AdditionKeepsConsistent DEF Integrity, Enter
  <2>2. ASSUME NEW x \in db, Strike(x) PROVE Integrity'
    BY <2>2, StrikeKeepsConsistent DEF Integrity
  <2>3. ASSUME NEW x \in db, StrikeReceipt(x) PROVE Integrity'
    BY <2>3, StrikeReceiptKeepsConsistent DEF Integrity
  <2>4. CASE UNCHANGED db
    BY <2>4 DEF Integrity
  <2> QED
    BY <2>1, <2>2, <2>3, <2>4 DEF Next
<1> QED
  BY <1>1, <1>2, WarehouseTypeOK, PTL DEF Spec

=============================================================================
