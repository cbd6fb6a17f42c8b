--------------------------- MODULE RequestsProofs ---------------------------
(***************************************************************************)
(* The promises of Requests hold for every set of request slots, every     *)
(* choice of operations and every consistent database to start on.         *)
(*                                                                         *)
(* The argument: PostgreSQL lets two statements be in flight together only *)
(* when they do not collide.  Such statements do not disturb one another:  *)
(* after either has committed, the other removes the same rows, is still   *)
(* acceptable and still collides with nothing in flight.  So a statement   *)
(* that was accepted when it was flushed is acceptable when it commits,    *)
(* however many others committed in between, and the commit has the effect *)
(* of a whole operation of Warehouse.                                      *)
(***************************************************************************)
EXTENDS Requests, SchemaProofs

(***************************************************************************)
(* Statements.                                                             *)
(***************************************************************************)
LEMMA CollideSymmetric ==
  ASSUME NEW d, NEW v, NEW w, Collide(d, v, w)
  PROVE  Collide(d, w, v)
  BY DEF Collide

LEMMA WriteShape ==
  ASSUME NEW w \in Write
  PROVE  /\ w.row \in Row
         /\ w.kind = "insert" \/ w.kind = "delete"
         /\ w.kind = "insert" => Adds(w) = {w.row} /\ \A d : Removes(d, w) = {}
         /\ w.kind = "delete" => Adds(w) = {}
  BY DEF Write, Adds, Removes

(* What a statement removes: the row it deletes and the items that go with *)
(* it.                                                                     *)
LEMMA RemovesShape ==
  ASSUME NEW d, NEW w
  PROVE  /\ Removes(d, w) \subseteq d
         /\ \A x \in Removes(d, w) :
              x = w.row \/ GoesWith(x, w.row)
         /\ Removes(d, w) # {} => w.row \in Removes(d, w)
  BY DEF Removes

(* An acceptable statement whose row has a fresh identifier leaves a       *)
(* consistent database.                                                    *)
LEMMA EffectKeepsConsistent ==
  ASSUME NEW d, NEW w \in Write, Consistent(d), Accepts(d, w),
         \A x \in Adds(w) : \A y \in d : Name(y) # Name(x)
  PROVE  Consistent(Effect(d, w))
<1>1. CASE w.kind = "insert"
  <2>1. Effect(d, w) = d \cup {w.row}
    BY <1>1, WriteShape DEF Effect
  <2>2. /\ \A ref \in Refs(w.row) : \E y \in d : Name(y) = ref
        /\ \A y \in d : Name(y) # Name(w.row) /\ Key(y) # Key(w.row)
    BY <1>1, WriteShape DEF Accepts, NoRepeat, RefersToStored
  <2> QED
    BY <2>1, <2>2, AdditionKeepsConsistent
<1>2. CASE w.kind = "delete"
  <2>1. Effect(d, w) = d \ Removes(d, w)
    BY <1>2, WriteShape DEF Effect
  <2>2. \A x \in d \ Removes(d, w) : \A y \in Removes(d, w) : ~PointsTo(x, y)
    BY DEF Accepts, LeavesNoReferrer, Referrers
  <2> QED
    BY <2>1, <2>2, RemovalKeepsConsistent
<1> QED
  BY <1>1, <1>2, WriteShape

(***************************************************************************)
(* Statements that are apart do not disturb one another.                   *)
(***************************************************************************)
Apart(d, v, w) ==
  /\ ~Collide(d, v, w)
  /\ w.kind = "delete" => \A z \in Adds(v) : Name(z) # Name(w.row)

(* A statement apart from one that commits removes the rows it would have  *)
(* removed before.                                                         *)
LEMMA RemovesUndisturbed ==
  ASSUME NEW d, NEW v \in Write, NEW w \in Write, Apart(d, v, w)
  PROVE  Removes(Effect(d, v), w) = Removes(d, w)
<1>1. CASE w.kind = "insert"
  BY <1>1, WriteShape
<1>2. CASE w.kind = "delete"
  <2>1. w.row \in Effect(d, v) <=> w.row \in d
    <3>1. w.row \notin Adds(v)
      BY <1>2 DEF Apart
    <3>2. w.row \in d => w.row \notin Removes(d, v)
      <4>1. SUFFICES ASSUME w.row \in d, w.row \in Removes(d, v) PROVE FALSE
        OBVIOUS
      <4>2. w.row \in Removes(d, w)
        BY <1>2, <4>1 DEF Removes
      <4> QED
        BY <4>1, <4>2 DEF Apart, Collide, Touches
    <3> QED
      BY <3>1, <3>2, RemovesShape DEF Effect
  <2>2. ASSUME w.row \in d, NEW x, GoesWith(x, w.row)
        PROVE  x \in Effect(d, v) <=> x \in d
    <3>1. w.row \in Removes(d, w) /\ PointsTo(x, w.row)
      BY <1>2, <2>2 DEF Removes, GoesWith
    <3>2. x \notin Adds(v)
      BY <3>1 DEF Apart, Collide, Touches
    <3>3. x \in d => x \notin Removes(d, v)
      BY <3>1 DEF Apart, Collide, Touches
    <3> QED
      BY <3>2, <3>3, RemovesShape DEF Effect
  <2> QED
    BY <1>2, <2>1, <2>2 DEF Removes
<1> QED
  BY <1>1, <1>2, WriteShape

(* ... is still acceptable ...                                             *)
LEMMA AcceptsUndisturbed ==
  ASSUME NEW d, NEW v \in Write, NEW w \in Write,
         Apart(d, v, w), Accepts(d, w)
  PROVE  Accepts(Effect(d, v), w)
<1>1. ASSUME NEW x \in Adds(w)
      PROVE  /\ \A y \in Effect(d, v) : Key(y) # Key(x)
             /\ \A ref \in Refs(x) : \E y \in Effect(d, v) : Name(y) = ref
  <2>1. \A y \in Adds(v) : Key(y) # Key(x)
    BY <1>1 DEF Apart, Collide, Touches
  <2>2. \A y \in d : Key(y) # Key(x)
    BY <1>1 DEF Accepts, NoRepeat
  <2>3. ASSUME NEW ref \in Refs(x)
        PROVE  \E y \in Effect(d, v) : Name(y) = ref
    <3>1. PICK y \in d : Name(y) = ref
      BY <1>1, <2>3 DEF Accepts, RefersToStored
    <3>2. y \notin Removes(d, v)
      BY <1>1, <2>3, <3>1 DEF Apart, Collide, Touches, PointsTo
    <3> QED
      BY <3>1, <3>2 DEF Effect
  <2> QED
    BY <2>1, <2>2, <2>3 DEF Effect
<1>2. ASSUME NEW x \in Removes(d, w), NEW y \in Referrers(Effect(d, v), x)
      PROVE  y \in Removes(d, w)
  <2>1. y \notin Adds(v)
    BY <1>2 DEF Apart, Collide, Touches, Referrers
  <2>2. y \in Referrers(d, x)
    BY <1>2, <2>1 DEF Effect, Referrers
  <2> QED
    BY <1>2, <2>2 DEF Accepts, LeavesNoReferrer
<1>3. Removes(Effect(d, v), w) = Removes(d, w)
  BY RemovesUndisturbed
<1> QED
  BY <1>1, <1>2, <1>3
  DEF Accepts, NoRepeat, RefersToStored, LeavesNoReferrer

(* ... and still collides with nothing it did not collide with.            *)
LEMMA CollideUndisturbed ==
  ASSUME NEW d, NEW u \in Write, NEW v \in Write, NEW w \in Write,
         Apart(d, u, v), Apart(d, u, w), ~Collide(d, v, w)
  PROVE  ~Collide(Effect(d, u), v, w)
<1>1. /\ Removes(Effect(d, u), v) = Removes(d, v)
      /\ Removes(Effect(d, u), w) = Removes(d, w)
  BY RemovesUndisturbed
<1> QED
  BY <1>1 DEF Collide, Touches

-----------------------------------------------------------------------------
(***************************************************************************)
(* Types.                                                                  *)
(***************************************************************************)
LEMMA AnswersTyped ==
  /\ Success \in Outcome /\ NotFound \in Outcome /\ Forbidden \in Outcome
  /\ Invalid \in Outcome /\ OwnAccount \in Outcome
  /\ \A name \in Table \X Nat : InUse(name) \in Outcome
  /\ \A names \in SUBSET (Table \X Nat) : Known(names) \in Outcome
<1>1. /\ Success \in Outcome /\ NotFound \in Outcome /\ Forbidden \in Outcome
      /\ Invalid \in Outcome /\ OwnAccount \in Outcome
  BY DEF Success, NotFound, Forbidden, Invalid, OwnAccount, Answer, Outcome
<1>2. \A name \in Table \X Nat : InUse(name) \in Outcome
  BY DEF InUse, Answer, Outcome
<1>3. \A names \in SUBSET (Table \X Nat) : Known(names) \in Outcome
  BY DEF Known, Answer, Outcome
<1> QED
  BY <1>1, <1>2, <1>3

LEMMA DbErrorsTyped ==
  ASSUME NEW d \in SUBSET Row, NEW w \in Write
  PROVE  DbErrors(d, w) \subseteq Outcome
<1>1. Adds(w) \subseteq Row /\ Removes(d, w) \subseteq Row
  BY WriteShape, RemovesShape
<1>2. Answer(409, "not found", {}) \in Outcome
  BY DEF Answer, Outcome
<1>3. {} \in SUBSET (Table \X Nat)
  OBVIOUS
<1>4. ASSUME NEW ref \in UNION {Refs(x) : x \in Adds(w)}
      PROVE  ref \in Table \X Nat
  BY <1>1, <1>4, RowNames
<1>5. ASSUME NEW x \in Removes(d, w)
      PROVE  Name(x) \in Table \X Nat
  BY <1>1, <1>5, RowNames
<1> QED
  BY <1>2, <1>3, <1>4, <1>5, AnswersTyped DEF DbErrors

(* The row a handler makes from its command and its user.                  *)
LEMMA CommandFields ==
  ASSUME NEW c \in Command, NEW u \in UserRow
  PROVE  /\ c.op = "create_unit" =>
              [table |-> "unit", id |-> NoId, okei |-> c.okei] \in Row
         /\ c.op = "save_supplier" =>
              [table |-> "supplier", id |-> NoId, inn |-> c.inn] \in Row
         /\ c.op = "save_material" =>
              [table |-> "material", id |-> NoId, sku |-> c.sku,
               unit |-> c.unit] \in Row
         /\ c.op = "create_user" =>
              [table |-> "app_user", id |-> NoId, login |-> c.login,
               role |-> c.role] \in Row
         /\ c.op = "create_receipt" /\ u.id \in Id =>
              [table |-> "receipt", id |-> NoId, supplier |-> c.supplier,
               invoice |-> c.invoice, author |-> u.id] \in Row
         /\ c.op = "add_item" =>
              [table |-> "receipt_item", id |-> NoId, receipt |-> c.receipt,
               material |-> c.material] \in Row
  BY DEF Command, AllCommand, Row, UnitRow, SupplierRow, MaterialRow, UserRow,
         ReceiptRow, ItemRow, AnyId

(* A handler either refuses or prepares one well-formed statement; a row   *)
(* it is to delete is one it has just loaded.                              *)
Refuses(q) == \E a \in Outcome : Refuse(q, a)
Prepares(q) ==
  \E w \in Write :
    /\ Prepare(q, w)
    /\ w.kind = "delete" =>
         /\ w.row \in db
         /\ w.row.table = "app_user" =>
              IsAdmin(actor[q]) /\ actor[q].id # w.row.id

LEMMA InsertTyped ==
  ASSUME NEW x \in Row
  PROVE  Insert(x) \in Write /\ Insert(x).kind = "insert"
  BY DEF Insert, Write

LEMMA DeleteTyped ==
  ASSUME NEW x \in Row
  PROVE  /\ Delete(x) \in Write
         /\ Delete(x).kind = "delete"
         /\ Delete(x).row = x
  BY DEF Delete, Write

LEMMA DeleteUnusedPrepares ==
  ASSUME NEW q \in Request, NEW table \in Table, db \in SUBSET Row,
         DeleteUnused(q, table),
         table = "app_user" => IsAdmin(actor[q]) /\ actor[q].id # cmd[q].id
  PROVE  Refuses(q) \/ Prepares(q)
<1> DEFINE found == Find(db, table, cmd[q].id)
<1>1. CASE found = {} /\ Refuse(q, NotFound)
  BY <1>1, AnswersTyped DEF Refuses
<1>2. ASSUME NEW x \in found,
             \/ Refuse(q, InUse(Name(x)))
             \/ Prepare(q, Delete(x))
      PROVE  Refuses(q) \/ Prepares(q)
  <2>1. x \in db /\ x \in Row /\ x.table = table /\ x.id = cmd[q].id
    BY <1>2 DEF Find
  <2>2. CASE Refuse(q, InUse(Name(x)))
    BY <2>1, <2>2, RowNames, AnswersTyped DEF Refuses
  <2>3. CASE Prepare(q, Delete(x))
    BY <2>1, <2>3, DeleteTyped DEF Prepares
  <2> QED
    BY <1>2, <2>2, <2>3
<1> QED
  BY <1>1, <1>2 DEF DeleteUnused

LEMMA ReadOutcome ==
  ASSUME TypeOK, NEW q \in Request, Read(q)
  PROVE  pc[q] = "reading" /\ (Refuses(q) \/ Prepares(q))
<1>1. pc[q] = "reading"
  BY DEF Read, Reading, CreateUnit, CreateSupplier, CreateMaterial, CreateUser,
         CreateReceipt, AddItem, DeleteUnit, DeleteSupplier, DeleteMaterial,
         DeleteUser, DeleteReceipt, DeleteItem
<1> SUFFICES Refuses(q) \/ Prepares(q)
  BY <1>1
<1>2. /\ db \in SUBSET Row
      /\ cmd[q] \in Command
      /\ actor[q] \in UserRow /\ actor[q].id \in Id
  BY <1>1 DEF TypeOK, UserRow, AnyId
<1>3. ASSUME NEW x \in Row, Prepare(q, Insert(x))
      PROVE  Prepares(q)
  BY <1>3, InsertTyped DEF Prepares
<1>4. ASSUME NEW x \in db, x.table # "app_user", Prepare(q, Delete(x))
      PROVE  Prepares(q)
  BY <1>2, <1>4, DeleteTyped DEF Prepares
<1>5. /\ Refuse(q, Forbidden) => Refuses(q)
      /\ Refuse(q, NotFound) => Refuses(q)
      /\ Refuse(q, OwnAccount) => Refuses(q)
      /\ MayBeInvalid(q) => Refuses(q)
  BY AnswersTyped DEF Refuses, MayBeInvalid
<1>6. CASE CreateUnit(q)
  BY <1>2, <1>3, <1>5, <1>6, CommandFields DEF CreateUnit, Reading
<1>7. CASE CreateSupplier(q)
  BY <1>2, <1>3, <1>5, <1>7, CommandFields DEF CreateSupplier, Reading
<1>8. CASE CreateMaterial(q)
  BY <1>2, <1>3, <1>5, <1>8, CommandFields DEF CreateMaterial, Reading
<1>9. CASE CreateUser(q)
  BY <1>2, <1>3, <1>5, <1>9, CommandFields DEF CreateUser, Reading
<1>10. CASE CreateReceipt(q)
  <2> DEFINE same == {x \in db : /\ x.table = "receipt"
                                 /\ x.supplier = cmd[q].supplier
                                 /\ x.invoice = cmd[q].invoice}
  <2>1. {Name(x) : x \in same} \in SUBSET (Table \X Nat)
    BY <1>2, RowNames
  <2>2. Refuse(q, Known({Name(x) : x \in same})) => Refuses(q)
    BY <2>1, AnswersTyped DEF Refuses
  <2> QED
    BY <1>2, <1>3, <1>5, <1>10, <2>2, CommandFields DEF CreateReceipt, Reading
<1>11. CASE AddItem(q)
  <2>1. Refuse(q, Known({})) => Refuses(q)
    BY AnswersTyped DEF Refuses
  <2> QED
    BY <1>2, <1>3, <1>5, <1>11, <2>1, CommandFields DEF AddItem, Reading
<1>12. CASE DeleteUnit(q)
  BY <1>2, <1>5, <1>12, DeleteUnusedPrepares DEF DeleteUnit, Table
<1>13. CASE DeleteSupplier(q)
  BY <1>2, <1>13, DeleteUnusedPrepares DEF DeleteSupplier, Table
<1>14. CASE DeleteMaterial(q)
  BY <1>2, <1>14, DeleteUnusedPrepares DEF DeleteMaterial, Table
<1>15. CASE DeleteUser(q)
  BY <1>2, <1>5, <1>15, DeleteUnusedPrepares DEF DeleteUser, Table
<1>16. CASE DeleteReceipt(q)
  BY <1>4, <1>5, <1>16 DEF DeleteReceipt, Find
<1>17. CASE DeleteItem(q)
  BY <1>4, <1>5, <1>17 DEF DeleteItem, Find
<1> QED
  BY <1>6, <1>7, <1>8, <1>9, <1>10, <1>11, <1>12, <1>13, <1>14, <1>15,
     <1>16, <1>17 DEF Read

-----------------------------------------------------------------------------
(***************************************************************************)
(* The invariant is inductive.                                             *)
(***************************************************************************)
LEMMA EndTyped ==
  ASSUME TypeOK, NEW q \in Request, NEW a \in Outcome \cup {None}, End(q, a),
         db' \in SUBSET Row, seq' \in [Table -> AnyId]
  PROVE  TypeOK'
  BY DEF TypeOK, End, Stage

LEMMA PrepareTyped ==
  ASSUME TypeOK, NEW q \in Request, NEW w \in Write, pc[q] = "reading",
         Prepare(q, w)
  PROVE  TypeOK'
  BY DEF TypeOK, Prepare, Stage

(* Requests that hold or prepare statements have statements.               *)
LEMMA StatementsTyped ==
  ASSUME TypeOK
  PROVE  /\ \A p \in InFlight : write[p] \in Write
         /\ \A p \in Deleting : write[p] \in Write
         /\ \A p \in InFlight : Adds(write[p]) \subseteq Row
         /\ InFlight \subseteq Request /\ Deleting \subseteq Request
<1>1. \A p \in InFlight \cup Deleting : write[p] \in Write
  BY DEF TypeOK, InFlight, Deleting
<1> QED
  BY <1>1, WriteShape DEF InFlight, Deleting

(* A step that stores nothing and starts no statement keeps the invariant. *)
LEMMA QuietStep ==
  ASSUME IInv, TypeOK', db' = db,
         \A t \in Table : seq[t] <= seq'[t],
         InFlight' \subseteq InFlight, Deleting' \subseteq Deleting,
         \A p \in InFlight' \cup Deleting' : write'[p] = write[p]
  PROVE  IInv'
<1>1. Integrity'
  BY DEF IInv, Integrity
<1>2. \A t \in Table : 1 .. seq[t] \subseteq 1 .. seq'[t]
  BY MaxIdAssumption DEF IInv, TypeOK, AnyId, Id, NoId
<1>3. Numbered'
  <2>1. ASSUME NEW x \in db' PROVE x.id \in 1 .. seq'[x.table]
    BY <1>2, <2>1, RowNames DEF IInv, TypeOK, Numbered
  <2>2. ASSUME NEW p \in InFlight', NEW x \in Adds(write'[p])
        PROVE  /\ x.id \in 1 .. seq'[x.table]
               /\ \A y \in db' : Name(y) # Name(x)
    BY <1>2, <2>2, RowNames, StatementsTyped DEF IInv, Numbered
  <2> QED
    BY <2>1, <2>2 DEF Numbered
<1>4. NeverReused'
  <2>1. ASSUME NEW p \in Deleting'
        PROVE  write'[p].row.id \in 1 .. seq'[write'[p].row.table]
    <3>1. write[p].row.table \in Table
      BY <2>1, StatementsTyped, WriteShape, RowNames DEF IInv
    <3> QED
      BY <1>2, <2>1, <3>1 DEF IInv, NeverReused
  <2>2. ASSUME NEW p \in Deleting', NEW r \in InFlight',
               NEW x \in Adds(write'[r])
        PROVE  Name(x) # Name(write'[p].row)
    BY <2>2 DEF IInv, NeverReused
  <2> QED
    BY <2>1, <2>2 DEF NeverReused
<1>5. Isolation'
  BY DEF IInv, Isolation
<1> QED
  BY <1>1, <1>3, <1>4, <1>5 DEF IInv

LEMMA EndStep ==
  ASSUME IInv, NEW q \in Request, NEW a \in Outcome \cup {None}, End(q, a),
         db' = db, seq' \in [Table -> AnyId],
         \A t \in Table : seq[t] <= seq'[t]
  PROVE  IInv'
<1>1. TypeOK'
  BY EndTyped DEF IInv, TypeOK
<1>2. /\ InFlight' \subseteq InFlight /\ Deleting' \subseteq Deleting
      /\ \A p \in InFlight' \cup Deleting' : write'[p] = write[p]
  BY DEF IInv, TypeOK, End, InFlight, Deleting
<1> QED
  BY <1>1, <1>2, QuietStep

LEMMA PrepareStep ==
  ASSUME IInv, NEW q \in Request, pc[q] = "reading", Prepares(q)
  PROVE  IInv'
<1>1. PICK w \in Write : /\ Prepare(q, w)
                         /\ w.kind = "delete" => w.row \in db
  BY DEF Prepares
<1>2. TypeOK'
  BY <1>1, PrepareTyped DEF IInv
<1>3. UNCHANGED <<db, seq>> /\ InFlight' = InFlight
  BY <1>1 DEF IInv, TypeOK, Prepare, InFlight
<1>4. \A p \in Request \ {q} : write'[p] = write[p] /\ pc'[p] = pc[p]
  BY <1>1 DEF IInv, TypeOK, Prepare
<1>5. q \notin InFlight /\ write'[q] = w
  BY <1>1 DEF IInv, TypeOK, Prepare, InFlight
<1>6. \A p \in InFlight : write'[p] = write[p]
  BY <1>4, <1>5 DEF InFlight
<1>7. NeverReused'
  <2>1. ASSUME NEW p \in Deleting'
        PROVE  /\ write'[p].row.id \in 1 .. seq[write'[p].row.table]
               /\ \A r \in InFlight : \A x \in Adds(write[r]) :
                    Name(x) # Name(write'[p].row)
    <3>1. CASE p = q
      BY <1>1, <1>5, <2>1, <3>1 DEF IInv, Numbered, Deleting
    <3>2. CASE p # q
      <4>1. p \in Deleting /\ write'[p] = write[p]
        BY <1>4, <2>1, <3>2 DEF Deleting
      <4> QED
        BY <4>1 DEF IInv, NeverReused
    <3> QED
      BY <3>1, <3>2
  <2> QED
    BY <1>3, <1>6, <2>1 DEF NeverReused
<1>8. Integrity' /\ Numbered' /\ Isolation'
  BY <1>3, <1>6 DEF IInv, Integrity, Numbered, Isolation
<1> QED
  BY <1>2, <1>7, <1>8 DEF IInv

(* The statement a request sends: the one it prepared, with a fresh        *)
(* identifier when it inserts.                                             *)
LEMMA SentShape ==
  ASSUME TypeOK, NEW q \in Request, write[q] \in Write,
         write[q].kind = "insert" => seq[write[q].row.table] + 1 \in Id
  PROVE  /\ Sent(q) \in Write
         /\ Sent(q).kind = write[q].kind
         /\ write[q].kind = "delete" => Sent(q) = write[q]
         /\ write[q].kind = "insert" =>
              /\ Sent(q).row.table = write[q].row.table
              /\ Sent(q).row.id = seq[write[q].row.table] + 1
<1>1. CASE write[q].kind = "insert"
  <2> DEFINE x == write[q].row
             n == seq[x.table] + 1
  <2>1. x \in Row /\ n \in Id
    BY <1>1, WriteShape
  <2>2. Sent(q) = Insert([x EXCEPT !.id = n])
    BY <1>1 DEF Sent
  <2>3. /\ [x EXCEPT !.id = n] \in Row
        /\ [x EXCEPT !.id = n].id = n
        /\ [x EXCEPT !.id = n].table = x.table
    BY <2>1, Renumbered
  <2>4. \A y : Insert(y).row = y /\ Insert(y).kind = "insert"
    BY DEF Insert
  <2> QED
    BY <1>1, <2>2, <2>3, <2>4, InsertTyped
<1>2. CASE write[q].kind = "delete"
  BY <1>2 DEF Sent
<1> QED
  BY <1>1, <1>2, WriteShape

LEMMA FlushStep ==
  ASSUME IInv, NEW q \in Request, Flush(q), Accepts(db, Sent(q)),
         pc' = [pc EXCEPT ![q] = "flushed"],
         write' = [write EXCEPT ![q] = Sent(q)],
         UNCHANGED <<cmd, actor, answer>>
  PROVE  IInv'
<1>1. /\ TypeOK /\ pc[q] = "writing" /\ write[q] \in Write /\ db' = db
      /\ write[q].kind = "insert" => seq[write[q].row.table] + 1 \in Id
  BY DEF IInv, TypeOK, Flush
<1>2. /\ Sent(q) \in Write
      /\ Sent(q).kind = write[q].kind
      /\ write[q].kind = "delete" => Sent(q) = write[q]
      /\ write[q].kind = "insert" =>
           /\ Sent(q).row.table = write[q].row.table
           /\ Sent(q).row.id = seq[write[q].row.table] + 1
  BY <1>1, SentShape
<1>3. /\ write[q].row.table \in Table
      /\ Sent(q).row.table \in Table
  BY <1>1, <1>2, WriteShape, RowNames
<1>4. /\ seq' \in [Table -> AnyId]
      /\ \A t \in Table : seq[t] <= seq'[t]
      /\ write[q].kind = "insert" =>
           seq'[write[q].row.table] = seq[write[q].row.table] + 1
  BY <1>1, <1>3, MaxIdAssumption DEF TypeOK, Flush, AnyId, Id, NoId
<1>5. \A t \in Table : 1 .. seq[t] \subseteq 1 .. seq'[t]
  BY <1>1, <1>4, MaxIdAssumption DEF TypeOK, AnyId, Id, NoId
<1>6. /\ InFlight' = InFlight \cup {q} /\ q \notin InFlight
      /\ Deleting' = Deleting
      /\ write'[q] = Sent(q)
      /\ \A p \in Request \ {q} : write'[p] = write[p]
  BY <1>1, <1>2 DEF TypeOK, InFlight, Deleting
<1>7. TypeOK'
  BY <1>1, <1>2, <1>4 DEF TypeOK, Stage
<1>8. ASSUME NEW x \in Adds(write'[q])
      PROVE  /\ x.id \in 1 .. seq'[x.table]
             /\ x.id \notin 1 .. seq[x.table]
             /\ x.table \in Table
  <2>1. write[q].kind = "insert" /\ x = Sent(q).row
    BY <1>2, <1>6, <1>8, WriteShape
  <2> QED
    BY <1>1, <1>2, <1>3, <1>4, <2>1, MaxIdAssumption
    DEF TypeOK, AnyId, Id, NoId
<1>9. Numbered'
  <2>1. ASSUME NEW x \in db' PROVE x.id \in 1 .. seq'[x.table]
    BY <1>1, <1>5, <2>1, RowNames DEF IInv, TypeOK, Numbered
  <2>2. ASSUME NEW p \in InFlight, NEW x \in Adds(write'[p])
        PROVE  /\ x.id \in 1 .. seq'[x.table]
               /\ \A y \in db' : Name(y) # Name(x)
    <3>1. write'[p] = write[p]
      BY <1>6, <2>2 DEF InFlight
    <3> QED
      BY <1>1, <1>5, <2>2, <3>1, RowNames, StatementsTyped DEF IInv, Numbered
  <2>3. ASSUME NEW x \in Adds(write'[q]), NEW y \in db'
        PROVE  Name(y) # Name(x)
    BY <1>1, <1>8, <2>3 DEF IInv, Numbered, Name
  <2> QED
    BY <1>6, <1>8, <2>1, <2>2, <2>3 DEF Numbered
<1>10. NeverReused'
  <2>1. ASSUME NEW p \in Deleting
        PROVE  /\ write'[p] = write[p]
               /\ write[p].row.table \in Table
               /\ write[p].row.id \in 1 .. seq[write[p].row.table]
    <3>1. write'[p] = write[p]
      BY <1>1, <1>2, <1>6, <2>1 DEF Deleting
    <3> QED
      BY <1>1, <2>1, <3>1, StatementsTyped, WriteShape, RowNames
      DEF IInv, NeverReused
  <2>2. ASSUME NEW p \in Deleting, NEW r \in InFlight \cup {q},
               NEW x \in Adds(write'[r])
        PROVE  Name(x) # Name(write[p].row)
    <3>1. CASE r = q
      BY <1>8, <2>1, <2>2, <3>1 DEF Name
    <3>2. CASE r # q
      BY <1>6, <2>2, <3>2 DEF IInv, NeverReused, InFlight
    <3> QED
      BY <3>1, <3>2
  <2> QED
    BY <1>5, <1>6, <2>1, <2>2 DEF NeverReused
<1>11. Isolation'
  <2>1. \A p \in InFlight : write'[p] = write[p]
    BY <1>6 DEF InFlight
  <2>2. \A p \in InFlight \cup {q} : Accepts(db, write'[p])
    BY <1>6, <2>1 DEF IInv, Isolation
  <2>3. \A p \in InFlight : ~Collide(db, write'[p], write'[q])
    BY <1>6, <2>1 DEF Flush, Waits
  <2>4. ASSUME NEW p \in InFlight \cup {q}, NEW r \in InFlight \cup {q}, p # r
        PROVE  ~Collide(db, write'[p], write'[r])
    BY <2>1, <2>3, <2>4, CollideSymmetric DEF IInv, Isolation
  <2> QED
    BY <1>1, <1>6, <2>2, <2>4 DEF Isolation
<1>12. Integrity'
  BY <1>1 DEF IInv, Integrity
<1> QED
  BY <1>7, <1>9, <1>10, <1>11, <1>12 DEF IInv

(* Statements in flight are apart from one another.                        *)
LEMMA InFlightApart ==
  ASSUME IInv, NEW p \in InFlight, NEW r \in InFlight, p # r
  PROVE  Apart(db, write[p], write[r])
<1>1. ~Collide(db, write[p], write[r])
  BY DEF IInv, Isolation
<1>2. write[r].kind = "delete" => r \in Deleting
  BY DEF InFlight, Deleting
<1> QED
  BY <1>1, <1>2 DEF Apart, IInv, NeverReused

LEMMA CommitStep ==
  ASSUME IInv, NEW q \in Request, Commit(q)
  PROVE  IInv'
<1> DEFINE w == write[q]
<1>1. /\ TypeOK /\ pc[q] = "told" /\ q \in InFlight
      /\ db' = Effect(db, w) /\ seq' = seq /\ End(q, Success)
      /\ w \in Write
  BY DEF IInv, TypeOK, Commit, InFlight
<1>2. Accepts(db, w) /\ \A x \in Adds(w) : \A y \in db : Name(y) # Name(x)
  BY <1>1 DEF IInv, Isolation, Numbered
<1>3. TypeOK'
  <2>1. db' \in SUBSET Row
    BY <1>1, WriteShape, RemovesShape DEF TypeOK, Effect
  <2> QED
    BY <1>1, <2>1, EndTyped, AnswersTyped DEF TypeOK
<1>4. /\ InFlight' = InFlight \ {q} /\ Deleting' \subseteq Deleting \ {q}
      /\ \A p \in InFlight' \cup Deleting' : write'[p] = write[p]
  BY <1>1 DEF TypeOK, End, InFlight, Deleting
<1>5. ASSUME NEW p \in InFlight' PROVE Apart(db, w, write[p])
  BY <1>1, <1>4, <1>5, InFlightApart
<1>6. Integrity'
  BY <1>1, <1>2, EffectKeepsConsistent DEF IInv, Integrity
<1>7. Numbered'
  <2>1. ASSUME NEW x \in db' PROVE x.id \in 1 .. seq'[x.table]
    BY <1>1, <2>1, RemovesShape DEF IInv, Numbered, Effect
  <2>2. ASSUME NEW p \in InFlight', NEW x \in Adds(write'[p])
        PROVE  /\ x.id \in 1 .. seq'[x.table]
               /\ \A y \in db : Name(y) # Name(x)
    BY <1>1, <1>4, <2>2 DEF IInv, Numbered
  <2>3. ASSUME NEW p \in InFlight', NEW x \in Adds(write'[p]),
               NEW y \in Adds(w)
        PROVE  Name(y) # Name(x)
    BY <1>4, <1>5, <2>3 DEF Apart, Collide, Touches
  <2> QED
    BY <1>1, <2>1, <2>2, <2>3 DEF Numbered, Effect
<1>8. NeverReused'
  BY <1>1, <1>4 DEF IInv, NeverReused
<1>9. Isolation'
  <2>1. ASSUME NEW p \in InFlight' PROVE Accepts(db', write'[p])
    BY <1>1, <1>4, <1>5, <2>1, StatementsTyped, AcceptsUndisturbed
    DEF IInv, Isolation
  <2>2. ASSUME NEW p \in InFlight', NEW r \in InFlight', p # r
        PROVE  ~Collide(db', write'[p], write'[r])
    <3>1. ~Collide(db, write[p], write[r])
      BY <1>4, <2>2 DEF IInv, Isolation
    <3> QED
      BY <1>1, <1>4, <1>5, <2>2, <3>1, StatementsTyped, CollideUndisturbed
  <2> QED
    BY <2>1, <2>2 DEF Isolation
<1> QED
  BY <1>3, <1>6, <1>7, <1>8, <1>9 DEF IInv

LEMMA InitIInv == Init => IInv
<1> SUFFICES ASSUME Init PROVE IInv
  OBVIOUS
<1>1. PICK s \in Start : db = s.rows /\ seq = s.issued
  BY DEF Init
<1>2. TypeOK
  BY <1>1, StartAssumption DEF Init, TypeOK, Stage
<1>3. InFlight = {} /\ Deleting = {}
  BY DEF Init, InFlight, Deleting
<1>4. Integrity /\ Numbered /\ NeverReused /\ Isolation
  BY <1>1, <1>3, StartAssumption
  DEF Integrity, Numbered, NeverReused, Isolation
<1> QED
  BY <1>2, <1>4 DEF IInv

LEMMA NextIInv == IInv /\ [Next]_vars => IInv'
<1> SUFFICES ASSUME IInv, [Next]_vars PROVE IInv'
  OBVIOUS
<1>0. TypeOK /\ \A t \in Table : seq[t] <= seq[t]
  BY MaxIdAssumption DEF IInv, TypeOK, AnyId, Id, NoId
<1>1. ASSUME NEW q \in Request, NEW c \in Command,
             NEW u \in {x \in db : x.table = "app_user"}, Begin(q, c, u)
      PROVE  IInv'
  <2>1. u \in UserRow /\ u.id # NoId
    BY <1>0, UserRows DEF IInv, TypeOK, Numbered, NoId
  <2>2. TypeOK'
    BY <1>0, <1>1, <2>1 DEF TypeOK, Begin, Stage
  <2>3. /\ UNCHANGED <<db, seq, write>>
        /\ InFlight' = InFlight /\ Deleting' = Deleting
    BY <1>0, <1>1 DEF TypeOK, Begin, InFlight, Deleting
  <2> QED
    BY <1>0, <2>2, <2>3, QuietStep
<1>2. ASSUME NEW q \in Request, Read(q) PROVE IInv'
  <2>1. pc[q] = "reading" /\ (Refuses(q) \/ Prepares(q))
    BY <1>0, <1>2, ReadOutcome
  <2>2. CASE Prepares(q)
    BY <2>1, <2>2, PrepareStep
  <2>3. CASE Refuses(q)
    BY <1>0, <2>3, EndStep DEF Refuses, Refuse, TypeOK
  <2> QED
    BY <2>1, <2>2, <2>3
<1>3. ASSUME NEW q \in Request, Flush(q) PROVE IInv'
  <2>1. CASE /\ Accepts(db, Sent(q))
             /\ pc' = [pc EXCEPT ![q] = "flushed"]
             /\ write' = [write EXCEPT ![q] = Sent(q)]
             /\ UNCHANGED <<cmd, actor, answer>>
    BY <1>3, <2>1, FlushStep
  <2>2. ASSUME NEW a \in DbErrors(db, Sent(q)), End(q, a) PROVE IInv'
    <3>1. /\ db' = db /\ write[q] \in Write /\ db \in SUBSET Row
          /\ write[q].kind = "insert" => seq[write[q].row.table] + 1 \in Id
      BY <1>0, <1>3 DEF TypeOK, Flush
    <3>2. a \in Outcome
      BY <1>0, <2>2, <3>1, SentShape, DbErrorsTyped
    <3>3. seq' \in [Table -> AnyId] /\ \A t \in Table : seq[t] <= seq'[t]
      BY <1>0, <1>3, <3>1, MaxIdAssumption DEF TypeOK, Flush, AnyId, Id, NoId
    <3> QED
      BY <2>2, <3>1, <3>2, <3>3, EndStep
  <2> QED
    BY <1>3, <2>1, <2>2 DEF Flush
<1>4. ASSUME NEW q \in Request, Respond(q) PROVE IInv'
  <2>1. TypeOK'
    BY <1>0, <1>4, AnswersTyped DEF TypeOK, Respond, Stage
  <2>2. /\ UNCHANGED <<db, seq, write>>
        /\ InFlight' = InFlight /\ Deleting' = Deleting
    BY <1>0, <1>4 DEF TypeOK, Respond, InFlight, Deleting
  <2> QED
    BY <1>0, <2>1, <2>2, QuietStep
<1>5. ASSUME NEW q \in Request, Commit(q) PROVE IInv'
  BY <1>5, CommitStep
<1>6. ASSUME NEW q \in Request, Lose(q) PROVE IInv'
  BY <1>0, <1>6, EndStep DEF Lose, TypeOK
<1>7. CASE UNCHANGED vars
  BY <1>7 DEF vars, IInv, TypeOK, Integrity, Numbered, NeverReused, Isolation,
              InFlight, Deleting
<1> QED
  BY <1>1, <1>2, <1>3, <1>4, <1>5, <1>6, <1>7 DEF Next

-----------------------------------------------------------------------------
(* Rows, locks and identifiers stay in order, whatever requests do.        *)
THEOREM RequestsInvariant == Spec => []IInv
  BY InitIInv, NextIInv, PTL DEF Spec

(* Every variable keeps its type.                                          *)
THEOREM RequestsTypeOK == Spec => []TypeOK
<1>1. IInv => TypeOK
  BY DEF IInv
<1> QED
  BY <1>1, RequestsInvariant, PTL

(* No interleaving of requests stores a record twice or leaves a record    *)
(* that refers to nothing.                                                 *)
THEOREM RequestsIntegrity == Spec => []Integrity
<1>1. IInv => Integrity
  BY DEF IInv
<1> QED
  BY <1>1, RequestsInvariant, PTL

(* A change a client was told of can still be committed.                   *)
THEOREM RequestsSuccessCanCommit == Spec => []SuccessCanCommit
<1>1. IInv => SuccessCanCommit
  BY DEF IInv, Isolation, InFlight, SuccessCanCommit
<1> QED
  BY <1>1, RequestsInvariant, PTL

(***************************************************************************)
(* The requests implement Warehouse.                                       *)
(***************************************************************************)
LEMMA SameRows == Atomic!Row = Row
  BY DEF Atomic!Row, Row, Atomic!UnitRow, UnitRow, Atomic!SupplierRow,
         SupplierRow, Atomic!MaterialRow, MaterialRow, Atomic!UserRow, UserRow,
         Atomic!ReceiptRow, ReceiptRow, Atomic!ItemRow, ItemRow, Atomic!Id, Id,
         Atomic!AnyId, AnyId, Atomic!NoId, NoId, Atomic!Role, Role

LEMMA CommitIsAtomic ==
  ASSUME IInv, NEW q \in Request, Commit(q)
  PROVE  [Atomic!Next]_db
<1> DEFINE w == write[q]
<1>1. /\ q \in InFlight /\ w \in Write /\ db' = Effect(db, w)
      /\ Accepts(db, w) /\ db \in SUBSET Row
  BY DEF IInv, TypeOK, Isolation, Commit, InFlight
<1>2. CASE w.kind = "insert"
  <2> DEFINE x == w.row
  <2>1. x \in Row /\ Adds(w) = {x} /\ Removes(db, w) = {}
    BY <1>1, <1>2, WriteShape
  <2>2. /\ x.id # NoId
        /\ \A y \in db : Name(y) # Name(x) /\ Key(y) # Key(x)
        /\ \A ref \in Refs(x) : \E y \in db : Name(y) = ref
    BY <1>1, <2>1 DEF IInv, Numbered, Accepts, NoRepeat, RefersToStored,
       NoId
  <2>3. db' = db \cup {x}
    BY <1>1, <2>1 DEF Effect
  <2>4. Atomic!Enter(x)
    BY <2>2, <2>3 DEF Atomic!Enter, Atomic!NoId, Atomic!Refs, Atomic!Name,
       Atomic!Key, NoId, Refs, Name, Key
  <2> QED
    BY <2>1, <2>4, SameRows DEF Atomic!Next
<1>3. CASE w.kind = "delete" /\ w.row \notin db
  BY <1>1, <1>3, WriteShape DEF Effect, Removes
<1>4. CASE w.kind = "delete" /\ w.row \in db
  <2> DEFINE x == w.row
  <2>1. /\ x \in db /\ x \in Row
        /\ db' = db \ Removes(db, w)
        /\ Removes(db, w) = {x} \cup {y \in db : GoesWith(y, x)}
    BY <1>1, <1>4, WriteShape DEF Effect, Removes
  <2>2. CASE x.table = "receipt"
    <3>1. Referrers(db, x) = {y \in db : GoesWith(y, x)}
      BY <1>1, <2>1, <2>2, ReceiptReferrers DEF Referrers, GoesWith
    <3>2. Atomic!StrikeReceipt(x)
      BY <2>1, <2>2, <3>1
      DEF Atomic!StrikeReceipt, Atomic!Referrers, Referrers, Atomic!PointsTo,
          PointsTo, Atomic!Name, Name, Atomic!Refs, Refs
    <3> QED
      BY <2>1, <3>2 DEF Atomic!Next
  <2>3. CASE x.table # "receipt"
    <3>1. Removes(db, w) = {x}
      BY <2>1, <2>3 DEF GoesWith
    <3>2. Referrers(db, x) = {}
      BY <1>1, <2>1, <3>1, RowNames DEF Accepts, LeavesNoReferrer, Referrers, PointsTo
    <3>3. Atomic!Strike(x)
      BY <2>1, <3>1, <3>2
      DEF Atomic!Strike, Atomic!Referrers, Referrers, Atomic!PointsTo,
          PointsTo, Atomic!Name, Name, Atomic!Refs, Refs
    <3> QED
      BY <2>1, <3>3 DEF Atomic!Next
  <2> QED
    BY <2>2, <2>3
<1> QED
  BY <1>1, <1>2, <1>3, <1>4, WriteShape

LEMMA OtherStepsStoreNothing ==
  ASSUME TypeOK, [Next]_vars, \A q \in Request : ~Commit(q)
  PROVE  db' = db
<1>1. ASSUME NEW q \in Request, Read(q) PROVE db' = db
  BY <1>1, ReadOutcome DEF Refuses, Prepares, Refuse, Prepare
<1> QED
  BY <1>1 DEF Next, vars, Begin, Flush, Respond, Lose

(* Requests, interleaved as they may be, do the whole operations of the    *)
(* warehouse one at a time and nothing else.                               *)
THEOREM RequestsImplementWarehouse == Spec => Implements
<1>1. Init => Atomic!Init
  BY DEF Init, Atomic!Init
<1>2. IInv /\ [Next]_vars => [Atomic!Next]_db
  <2> SUFFICES ASSUME IInv, [Next]_vars PROVE [Atomic!Next]_db
    OBVIOUS
  <2>1. CASE \E q \in Request : Commit(q)
    BY <2>1, CommitIsAtomic
  <2>2. CASE \A q \in Request : ~Commit(q)
    BY <2>2, OtherStepsStoreNothing DEF IInv
  <2> QED
    BY <2>1, <2>2
<1> QED
  BY <1>1, <1>2, RequestsInvariant, PTL DEF Spec, Implements, Atomic!Spec

-----------------------------------------------------------------------------
(***************************************************************************)
(* Accounts.                                                               *)
(***************************************************************************)
LEMMA NextOthersDelete ==
  TypeOK /\ OthersDelete /\ [Next]_vars => OthersDelete'
<1> SUFFICES ASSUME TypeOK, OthersDelete, [Next]_vars PROVE OthersDelete'
  OBVIOUS
<1>1. ASSUME /\ Deleting' \subseteq Deleting
             /\ \A p \in Deleting' : write'[p] = write[p] /\ actor'[p] = actor[p]
      PROVE  OthersDelete'
  BY <1>1 DEF OthersDelete
<1>2. ASSUME NEW q \in Request, NEW a, End(q, a) PROVE OthersDelete'
  BY <1>1, <1>2 DEF TypeOK, End, Deleting
<1>3. ASSUME NEW q \in Request, NEW c, NEW u, Begin(q, c, u)
      PROVE  OthersDelete'
  BY <1>1, <1>3 DEF TypeOK, Begin, Deleting
<1>4. ASSUME NEW q \in Request, Read(q) PROVE OthersDelete'
  <2>1. pc[q] = "reading" /\ (Refuses(q) \/ Prepares(q))
    BY <1>4, ReadOutcome
  <2>2. CASE Refuses(q)
    BY <1>2, <2>2 DEF Refuses, Refuse
  <2>3. CASE Prepares(q)
    BY <2>1, <2>3 DEF Prepares, Prepare, TypeOK, OthersDelete, Deleting
  <2> QED
    BY <2>1, <2>2, <2>3
<1>5. ASSUME NEW q \in Request, Flush(q) PROVE OthersDelete'
  <2>1. CASE /\ pc' = [pc EXCEPT ![q] = "flushed"]
             /\ write' = [write EXCEPT ![q] = Sent(q)]
             /\ UNCHANGED actor
    <3>1. /\ pc[q] = "writing" /\ write[q] \in Write
          /\ write[q].kind = "insert" => seq[write[q].row.table] + 1 \in Id
      BY <1>5 DEF Flush, TypeOK
    <3>2. Sent(q).kind = write[q].kind
      BY <3>1, SentShape
    <3>3. write[q].kind = "delete" => Sent(q) = write[q]
      BY <3>1, SentShape
    <3> QED
      BY <1>1, <2>1, <3>1, <3>2, <3>3 DEF TypeOK, Deleting
  <2>2. ASSUME NEW a, End(q, a) PROVE OthersDelete'
    BY <1>2, <2>2
  <2> QED
    BY <1>5, <2>1, <2>2 DEF Flush
<1>6. ASSUME NEW q \in Request, Respond(q) PROVE OthersDelete'
  BY <1>1, <1>6 DEF TypeOK, Respond, Deleting
<1>7. ASSUME NEW q \in Request, Commit(q) \/ Lose(q) PROVE OthersDelete'
  BY <1>2, <1>7 DEF Commit, Lose
<1>8. CASE UNCHANGED vars
  BY <1>1, <1>8 DEF vars, Deleting
<1> QED
  BY <1>3, <1>4, <1>5, <1>6, <1>7, <1>8 DEF Next

(* As long as the administrator who deletes an account is stored, so is an *)
(* administrator after the deletion.                                       *)
LEMMA CommitKeepsAnAdmin ==
  ASSUME TypeOK, OthersDelete, NEW q \in Request, Commit(q),
         actor[q] \in db, Admins(db) # {}
  PROVE  Admins(db') # {}
<1> DEFINE w == write[q]
<1>1. /\ w \in Write /\ pc[q] = "told" /\ db' = Effect(db, w)
      /\ actor[q] \in UserRow
  BY DEF Commit, TypeOK
<1>2. \A x \in Removes(db, w) : x = w.row \/ x.table = "receipt_item"
  BY RemovesShape DEF GoesWith
<1>3. PICK admin \in db : admin.table = "app_user" /\ IsAdmin(admin)
  BY DEF Admins
<1>4. CASE admin \notin Removes(db, w)
  BY <1>1, <1>3, <1>4 DEF Effect, Admins
<1>5. CASE admin \in Removes(db, w)
  <2>1. admin = w.row /\ w.kind = "delete"
    BY <1>1, <1>2, <1>3, <1>5, WriteShape
  <2>2. IsAdmin(actor[q]) /\ actor[q].id # w.row.id
    BY <1>1, <1>3, <2>1 DEF OthersDelete, Deleting
  <2>3. actor[q].table = "app_user" /\ actor[q] \notin Removes(db, w)
    BY <1>1, <1>2, <2>2 DEF UserRow
  <2> QED
    BY <1>1, <2>2, <2>3 DEF Effect, Admins
<1> QED
  BY <1>4, <1>5

(* The last administrator goes only by the request of one whose own        *)
(* account is deleted already.                                             *)
THEOREM RequestsLastAdmin == Spec => LastAdminGoesOnlyByADeletedOne
<1>1. Init => OthersDelete
  BY DEF Init, OthersDelete, Deleting
<1>2. TypeOK /\ OthersDelete /\ [Next]_vars =>
        [(Admins(db) # {} /\ Admins(db') = {}) =>
           \E q \in Request : pc[q] = "told" /\ actor[q] \notin db]_vars
  <2> SUFFICES ASSUME TypeOK, OthersDelete, [Next]_vars,
                      Admins(db) # {}, Admins(db') = {}
               PROVE  \E q \in Request : pc[q] = "told" /\ actor[q] \notin db
    OBVIOUS
  <2>1. PICK q \in Request : Commit(q)
    BY OtherStepsStoreNothing
  <2>2. pc[q] = "told" /\ actor[q] \notin db
    BY <2>1, CommitKeepsAnAdmin DEF Commit
  <2> QED
    BY <2>2
<1> QED
  BY <1>1, <1>2, RequestsTypeOK, NextOthersDelete, PTL
  DEF Spec, LastAdminGoesOnlyByADeletedOne

=============================================================================
