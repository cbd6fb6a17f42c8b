------------------------------- MODULE Schema -------------------------------
(***************************************************************************)
(* The relational schema of the warehouse (app/models.py, the tables that  *)
(* migrations 0001-0004 create).                                           *)
(*                                                                         *)
(* A database is ONE set of rows; a row is a record that carries the name  *)
(* of its table.  The columns kept are the ones constraints and checks     *)
(* tell apart: identifiers, foreign keys, unique columns and the role of a *)
(* user.  Names, phones, dates, quantities and prices are left out here.   *)
(***************************************************************************)
EXTENDS Naturals

CONSTANTS
  Okei,      (* OKEI codes (app/rules.py OKEI)       *)
  Inn,       (* taxpayer numbers of suppliers        *)
  Sku,       (* article numbers of materials         *)
  Login,     (* login names                          *)
  Invoice,   (* invoice numbers, already normalised  *)
  MaxId      (* bound: the identifiers a table issues *)

ASSUME MaxIdAssumption == MaxId \in Nat

Id == 1 .. MaxId
NoId == 0        (* the id of an object that is not inserted yet *)
AnyId == Id \cup {NoId}

Role == {"admin", "storekeeper"}

(***************************************************************************)
(* Rows.                                                                   *)
(***************************************************************************)
UnitRow     == [table : {"unit"}, id : AnyId, okei : Okei]
SupplierRow == [table : {"supplier"}, id : AnyId, inn : Inn]
MaterialRow == [table : {"material"}, id : AnyId, sku : Sku, unit : Id]
UserRow     == [table : {"app_user"}, id : AnyId, login : Login, role : Role]
ReceiptRow  == [table : {"receipt"}, id : AnyId, supplier : Id,
                invoice : Invoice, author : Id]
ItemRow     == [table : {"receipt_item"}, id : AnyId, receipt : Id,
                material : Id]

Row == UNION {UnitRow, SupplierRow, MaterialRow, UserRow, ReceiptRow, ItemRow}

Table == {"unit", "supplier", "material", "app_user", "receipt",
          "receipt_item"}

(* The primary key of a row, qualified by its table. *)
Name(x) == <<x.table, x.id>>

(* The foreign keys of a row: the rows it refers to. *)
Refs(x) ==
  CASE x.table = "material"     -> {<<"unit", x.unit>>}
    [] x.table = "receipt"      -> {<<"supplier", x.supplier>>,
                                    <<"app_user", x.author>>}
    [] x.table = "receipt_item" -> {<<"receipt", x.receipt>>,
                                    <<"material", x.material>>}
    [] OTHER                    -> {}

(* The unique columns of a row: unit.okei_code (unit.code is a function of *)
(* it, one to one, in rules.OKEI), supplier.inn, material.sku,             *)
(* app_user.login, uq_receipt_invoice, uq_receipt_item.                    *)
Key(x) ==
  CASE x.table = "unit"         -> <<"unit", x.okei>>
    [] x.table = "supplier"     -> <<"supplier", x.inn>>
    [] x.table = "material"     -> <<"material", x.sku>>
    [] x.table = "app_user"     -> <<"app_user", x.login>>
    [] x.table = "receipt"      -> <<"receipt", x.supplier, x.invoice>>
    [] x.table = "receipt_item" -> <<"receipt_item", x.receipt, x.material>>

PointsTo(x, y) == Name(y) \in Refs(x)

(* ON DELETE CASCADE: only the items of a receipt go with what they refer  *)
(* to; every other foreign key is ON DELETE RESTRICT.                      *)
GoesWith(x, y) ==
  x.table = "receipt_item" /\ y.table = "receipt" /\ PointsTo(x, y)

Find(d, table, id) == {x \in d : x.table = table /\ x.id = id}

Referrers(d, y) == {x \in d : PointsTo(x, y)}

(***************************************************************************)
(* What it means for a set of rows to be a database of this schema.        *)
(***************************************************************************)
Referential(d) == \A x \in d : \A ref \in Refs(x) : \E y \in d : Name(y) = ref

Distinct(d) ==
  \A x, y \in d : Name(x) = Name(y) \/ Key(x) = Key(y) => x = y

Consistent(d) == Referential(d) /\ Distinct(d)

=============================================================================
