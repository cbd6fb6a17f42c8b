------------------------------ MODULE Migrations ------------------------------
(***************************************************************************)
(* Migrations 0001-0004 run up and down over a database with receipts:     *)
(* what each step does to invoice numbers, while the application goes on   *)
(* entering and deleting receipts.                                         *)
(*                                                                         *)
(* version is the revision in alembic_version (0 is base).  The column     *)
(* invoice_number exists from version 2, is required from 3, and unique    *)
(* with the supplier from 4.  Alembic runs the steps of one command in one *)
(* transaction (migrations/env.py), so an upgrade that fails leaves no     *)
(* step behind.                                                            *)
(***************************************************************************)
EXTENDS Naturals

CONSTANTS
  Supplier,
  Written,   (* numbers users write that no migration makes up             *)
  MaxId,     (* bound: receipts entered in all                             *)
  None

ASSUME MaxIdAssumption == MaxId \in Nat
ASSUME NoneAssumption ==
  /\ None \notin [kind : {"written", "BN"}, of : Written \cup (1 .. MaxId)]
  /\ Written \cap (1 .. MaxId) = {}

Id == 1 .. MaxId
HeadRevision == 4

(* The made-up number of a receipt, which a user can write as well.        *)
MadeUp(id) == [kind |-> "BN", of |-> id]
Number ==
  [kind : {"written"}, of : Written] \cup [kind : {"BN"}, of : Id]

VARIABLES
  version,
  receipts,  (* [id, supplier, invoice, entered]; entered is the number    *)
             (* its user gave it, kept here to be compared with            *)
  issued     (* the last identifier given                                  *)

vars == <<version, receipts, issued>>

Receipt == [id : Id, supplier : Supplier, invoice : Number \cup {None},
            entered : Number \cup {None}]

Init ==
  /\ version = 0 /\ receipts = {} /\ issued = 0

With(r, number) == [r EXCEPT !.invoice = number]

-----------------------------------------------------------------------------
(* What each upgrade does to the rows.  0002 adds the column, empty.       *)
(* Faulty: 0003 that fills every row.                                      *)
FillAll(rows) == {With(r, MadeUp(r.id)) : r \in rows}

Fill(rows) ==
  {With(r, IF r.invoice = None THEN MadeUp(r.id) ELSE r.invoice) : r \in rows}

Unique(rows) ==
  \A r, s \in rows :
    r.supplier = s.supplier /\ r.invoice = s.invoice => r = s

(* Faulty: 0004 without its unique constraint. *)
AcceptsAny(rows) == TRUE

(* 0004: the rows as they stand must meet uq_receipt_invoice.              *)
Accepts(rows) == Unique(rows)

(* The rows after an upgrade from version v to the head.                    *)
Upgraded(v, rows) == IF v < 3 THEN Fill(rows) ELSE rows

(* alembic upgrade head; one that the constraint refuses changes nothing.  *)
Upgrade ==
  /\ version < HeadRevision
  /\ Accepts(Upgraded(version, receipts))
  /\ version' = HeadRevision
  /\ receipts' = Upgraded(version, receipts)
  /\ UNCHANGED issued

(* alembic upgrade +1, as the tests of the migrations go.                  *)
UpgradeOne ==
  /\ version < HeadRevision
  /\ version' = version + 1
  /\ receipts' = IF version = 2 THEN Fill(receipts) ELSE receipts
  /\ version = 3 => Accepts(receipts)
  /\ UNCHANGED issued

(* 0003 down: only the numbers it made up are emptied.                     *)
Emptied(rows) ==
  {With(r, IF r.invoice = MadeUp(r.id) THEN None ELSE r.invoice) : r \in rows}

(* alembic downgrade -1: 0002 drops the column, 0001 the tables.           *)
Downgrade ==
  /\ version > 0
  /\ version' = version - 1
  /\ receipts' =
       CASE version = 4 -> receipts
         [] version = 3 -> Emptied(receipts)
         [] version = 2 -> {[With(r, None) EXCEPT !.entered = None] :
                              r \in receipts}
         [] version = 1 -> {}
  /\ issued' = IF version = 1 THEN 0 ELSE issued

(***************************************************************************)
(* The application.  Before the column there was no number to enter        *)
(* (version 1); with it the program of today enters one: it looks for the  *)
(* pair first, and from version 4 the constraint holds as well.  At 2 and  *)
(* 3 two requests may both look before either stores.                      *)
(***************************************************************************)
Enter(number) ==
  /\ version \in 1 .. HeadRevision /\ issued < MaxId
  /\ (version = 1) = (number = None)
  /\ issued' = issued + 1
  /\ \E s \in Supplier :
       /\ number # None =>
            \A r \in receipts : ~(r.supplier = s /\ r.invoice = number)
       /\ receipts' = receipts \cup
            {[id |-> issued + 1, supplier |-> s, invoice |-> number,
              entered |-> number]}
  /\ UNCHANGED version

EnterTwice(number) ==
  /\ version \in {2, 3} /\ issued + 1 < MaxId
  /\ number # None
  /\ issued' = issued + 2
  /\ \E s \in Supplier :
       /\ \A r \in receipts : ~(r.supplier = s /\ r.invoice = number)
       /\ receipts' = receipts \cup
            {[id |-> issued + i, supplier |-> s, invoice |-> number,
              entered |-> number] : i \in {1, 2}}
  /\ UNCHANGED version

DeleteReceipt(r) ==
  receipts' = receipts \ {r} /\ UNCHANGED <<version, issued>>

Next ==
  \/ Upgrade \/ UpgradeOne \/ Downgrade
  \/ \E number \in Number \cup {None} :
       Enter(number) \/ EnterTwice(number)
  \/ \E r \in receipts : DeleteReceipt(r)

Spec == Init /\ [][Next]_vars

-----------------------------------------------------------------------------
(* Types, and what is stored is numbered by the sequence. *)
TypeOK ==
  /\ version \in 0 .. HeadRevision
  /\ receipts \in SUBSET Receipt
  /\ issued \in 0 .. MaxId
  /\ \A r \in receipts : r.id \in 1 .. issued
  /\ \A r, s \in receipts : r.id = s.id => r = s

(* BP-11 at the version the program is written for: every receipt has a    *)
(* number and no supplier has one twice, whatever the way up and down.     *)
HeadMeetsTheRule ==
  version = HeadRevision => Unique(receipts) /\ \A r \in receipts : r.invoice # None

(* docs/DATA_MODEL.md: a number a user entered is the receipt's number     *)
(* again after any steps down and up that keep the column.                 *)
EnteredNumbersComeBack ==
  version >= 3 =>
    \A r \in receipts : r.entered # None => r.invoice = r.entered

(* Why: below 3 only a number equal to the made-up one can be missing.     *)
NumbersInv ==
  /\ version >= 3 => \A r \in receipts : r.invoice # None
  /\ \A r \in receipts : r.entered # None =>
       r.invoice = r.entered \/ (r.invoice = None /\ r.entered = MadeUp(r.id))

IInv == TypeOK /\ HeadMeetsTheRule /\ NumbersInv

(* 0003, docstring: the made-up number is unique for certain and does not  *)
(* break the constraint of 0004.                                           *)
MadeUpNumberIsFree ==
  version >= 2 => \A r, s \in receipts :
    r # s /\ r.invoice = None /\ r.supplier = s.supplier =>
      s.invoice # MadeUp(r.id)

(* 0003, docstring: a downgrade keeps the numbers users entered.           *)
DowngradeKeepsEntered ==
  version >= 2 => \A r \in receipts : r.entered # None => r.invoice = r.entered

=============================================================================
