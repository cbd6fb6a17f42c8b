------------------------------- MODULE Report --------------------------------
(***************************************************************************)
(* The list of receipts and the report by suppliers: one statement each    *)
(* for the report, but three for the list (receipts, then their items,     *)
(* then their suppliers), while other requests enter and delete.  Every    *)
(* statement sees what is committed when it starts (READ COMMITTED).       *)
(***************************************************************************)
EXTENDS Integers, FiniteSets, FiniteSetsExt

CONSTANTS
  Supplier, Receipt,  (* identifiers; a deleted one never comes back       *)
  Material,           (* an item is known by its receipt and its material  *)
  Amount,             (* amounts of items                                  *)
  MinDate, Today,     (* days are numbers; a receipt is dated between them *)
  Empty, Wrong,       (* a field left empty, a text that is no date        *)
  Filters,            (* what readers ask for                              *)
  None

ReportAssumption ==
  /\ MinDate \in Int /\ Today \in Int /\ Amount \subseteq Nat
  /\ {Empty, Wrong, None} \cap (Int \cup Supplier) = {}
  /\ None \notin [id : Receipt, supplier : Supplier, date : Int]
  /\ None \notin [receipt : Receipt, material : Material, amount : Amount]

Day == (MinDate - 1)..(Today + 1)   (* days users enter *)

Filter == [from : Day \cup {Empty, Wrong}, to : Day \cup {Empty, Wrong},
           supplier : Supplier \cup {Empty}, via : {"form", "api"}]

FiltersAssumption == Filters \subseteq Filter

VARIABLES
  suppliers,   (* stored suppliers                                         *)
  receipts,    (* stored receipts: [id, supplier, date]                    *)
  items,       (* stored items: [receipt, material, amount]                *)
  issued,      (* identifiers of receipts and suppliers given so far       *)
  pc,          (* what the reader does next                                *)
  filter,      (* what the reader asked for                                *)
  found,       (* receipts the first statement of the list found           *)
  seen,        (* items the second one found                               *)
  touched,     (* receipts changed since the list was asked for            *)
  page         (* what the reader is shown: a status (201 stands for the   *)
               (* 200 of a report), the rows, and their total              *)

store == <<suppliers, receipts, items, issued>>
reader == <<pc, filter, found, seen, page>>
vars == <<store, reader, touched>>

Page(status, rows, total) == [status |-> status, rows |-> rows, total |-> total]
NoPage == Page(0, {}, 0)

Init ==
  /\ suppliers = {} /\ receipts = {} /\ items = {} /\ issued = {}
  /\ pc = "idle" /\ filter = None /\ found = {} /\ seen = {}
  /\ touched = {} /\ page = NoPage

-----------------------------------------------------------------------------
(* Writers, each a request that commits. *)

Touch(r) == touched' = IF pc = "idle" THEN {} ELSE touched \cup {r}

NewSupplier(s) ==
  /\ s \notin issued
  /\ suppliers' = suppliers \cup {s} /\ issued' = issued \cup {s}
  /\ UNCHANGED <<receipts, items, reader, touched>>

DeleteSupplier(s) ==
  /\ s \in suppliers /\ \A r \in receipts : r.supplier # s
  /\ suppliers' = suppliers \ {s}
  /\ UNCHANGED <<receipts, items, issued, reader, touched>>

(* validate_receipt_date. *)
IsReceiptDate(d) == MinDate <= d /\ d <= Today

CreateReceipt(id, s, d) ==
  /\ id \notin issued /\ s \in suppliers /\ IsReceiptDate(d)
  /\ receipts' = receipts \cup {[id |-> id, supplier |-> s, date |-> d]}
  /\ issued' = issued \cup {id}
  /\ Touch(id) /\ UNCHANGED <<suppliers, items, reader>>

DeleteReceipt(r) ==
  /\ r \in receipts
  /\ receipts' = receipts \ {r}
  /\ items' = {i \in items : i.receipt # r.id}
  /\ Touch(r.id) /\ UNCHANGED <<suppliers, issued, reader>>

AddItem(r, m, a) ==
  /\ r \in receipts /\ \A i \in items : i.receipt = r.id => i.material # m
  /\ items' = items \cup {[receipt |-> r.id, material |-> m, amount |-> a]}
  /\ Touch(r.id) /\ UNCHANGED <<suppliers, receipts, issued, reader>>

DeleteItem(i) ==
  /\ items' = items \ {i}
  /\ Touch(i.receipt) /\ UNCHANGED <<suppliers, receipts, issued, reader>>

(* Writes go on between the statements of a reader; what a reader was      *)
(* shown is left before the next.                                          *)
Write ==
  /\ pc # "shown"
  /\ \/ \E s \in Supplier : NewSupplier(s) \/ DeleteSupplier(s)
     \/ \E id \in Receipt, s \in Supplier, d \in Day : CreateReceipt(id, s, d)
     \/ \E r \in receipts : \/ DeleteReceipt(r)
                            \/ \E m \in Material, a \in Amount : AddItem(r, m, a)
     \/ \E i \in items : DeleteItem(i)

-----------------------------------------------------------------------------
(* Reading *)

Total(rows) == MapThenSumSet(LAMBDA i : i.amount, rows)
ItemsOf(id, rows) == {i \in rows : i.receipt = id}

IsWrong(f) == f.from = Wrong \/ f.to = Wrong

(* The conditions on receipt_date, the same in the list and the report. *)

(* Faulty: the last day of the period is left out. *)
InPeriodBefore(d, f) ==
  (f.from # Empty => f.from <= d) /\ (f.to # Empty => d < f.to)

InPeriod(d, f) ==
  (f.from # Empty => f.from <= d) /\ (f.to # Empty => d <= f.to)

(* list_receipts, the first statement.  A form with a text that is no date *)
(* shows the whole list with the message (422); the API refuses to read.   *)
AskList(f) ==
  /\ pc = "idle"
  /\ filter' = f /\ touched' = {} /\ seen' = {}
  /\ \/ /\ f.via = "api" /\ IsWrong(f)
        /\ pc' = "shown" /\ page' = Page(422, {}, 0) /\ found' = {}
     \/ /\ ~(f.via = "api" /\ IsWrong(f))
        /\ pc' = "items" /\ page' = NoPage
        /\ found' = {r \in receipts : IsWrong(f) \/
                       /\ InPeriod(r.date, f)
                       /\ f.supplier # Empty => r.supplier = f.supplier}
  /\ UNCHANGED store

(* selectinload(Receipt.items). *)
LoadItems ==
  /\ pc = "items" /\ pc' = "suppliers"
  /\ seen' = {i \in items : \E r \in found : r.id = i.receipt}
  /\ UNCHANGED <<store, filter, found, touched, page>>

(* selectinload(Receipt.supplier): a supplier that is gone is None.  The   *)
(* page prints nothing for its name; receipt_json fails on it.             *)
ShowList ==
  /\ pc = "suppliers" /\ pc' = "shown"
  /\ page' = IF filter.via = "api" /\ \E r \in found : r.supplier \notin suppliers
             THEN Page(500, {}, 0)
             ELSE Page(IF IsWrong(filter) THEN 422 ELSE 200,
                       {[id |-> r.id, total |-> Total(ItemsOf(r.id, seen))] : r \in found},
                       0)
  /\ UNCHANGED <<store, filter, found, seen, touched>>

(* supplier LEFT JOIN receipt ON ... LEFT JOIN receipt_item ON ..., with   *)
(* None for the columns of the row that is missing.                        *)
OrNone(rows) == IF rows = {} THEN {None} ELSE rows

OuterJoin(f) ==
  UNION {UNION {{<<s, r, i>> : i \in OrNone(IF r = None THEN {} ELSE ItemsOf(r.id, items))}
                : r \in OrNone({r \in receipts : r.supplier = s /\ InPeriod(r.date, f)})}
         : s \in {s \in suppliers : f.supplier # Empty => s = f.supplier}}

(* Faulty: the period is a condition on the rows of the result. *)
JoinedFiltered(f) ==
  {row \in OuterJoin([f EXCEPT !.from = Empty, !.to = Empty]) :
     row[2] # None /\ InPeriod(row[2].date, f)}

Joined(f) == OuterJoin(f)

(* GROUP BY supplier, with count(distinct receipt.id) and sum(amount). *)
Grouped(rows) ==
  {[supplier |-> s,
    receipts |-> Cardinality({row[2] : row \in {x \in rows : x[1] = s /\ x[2] # None}}),
    total |-> MapThenSumSet(LAMBDA x : x[3].amount,
                            {x \in rows : x[1] = s /\ x[3] # None})]
   : s \in {row[1] : row \in rows}}

(* receipts_report, report_page and get_report. *)
AskReport(f) ==
  /\ pc = "idle" /\ pc' = "shown"
  /\ filter' = f /\ touched' = {} /\ found' = {} /\ seen' = {}
  /\ LET rows == Grouped(Joined(f))
     IN page' = IF \/ IsWrong(f)
                   \/ f.from # Empty /\ f.to # Empty /\ f.from > f.to
                THEN Page(422, {}, 0)
                ELSE Page(201, rows, MapThenSumSet(LAMBDA x : x.total, rows))
  /\ UNCHANGED store

Leave ==
  /\ pc = "shown" /\ pc' = "idle"
  /\ filter' = None /\ page' = NoPage
  /\ found' = {} /\ seen' = {} /\ touched' = {}
  /\ UNCHANGED store

Next ==
  \/ Write
  \/ \E f \in Filters : AskList(f) \/ AskReport(f)
  \/ LoadItems \/ ShowList \/ Leave

Spec == Init /\ [][Next]_vars

-----------------------------------------------------------------------------
(* The report has a row for every supplier asked for, with zeros where the *)
(* period has no receipts; a receipt without items counts as a receipt,    *)
(* one with several items counts once.                                     *)
ReportIsTrue ==
  LET asked == {s \in suppliers : filter.supplier # Empty => s = filter.supplier}
      of(s) == {r \in receipts : r.supplier = s /\ InPeriod(r.date, filter)}
      sum(rs) == Total({i \in items : \E r \in rs : r.id = i.receipt})
  IN pc = "shown" /\ page.status = 201 =>
       /\ page.rows = {[supplier |-> s, receipts |-> Cardinality(of(s)),
                        total |-> sum(of(s))] : s \in asked}
       /\ page.total = sum(UNION {of(s) : s \in asked})

(* The list shows a receipt that no request changed meanwhile if and only  *)
(* if the filter wants it (the period includes both its days), and with    *)
(* the total it has in the database.                                       *)
UntouchedAreShownRight ==
  pc = "shown" /\ page.status = 200 =>
    \A r \in {x \in receipts : x.id \notin touched} :
      LET wanted == /\ filter.from # Empty => r.date >= filter.from
                    /\ filter.to # Empty => r.date < filter.to + 1
                    /\ filter.supplier \in {Empty, r.supplier}
      IN wanted <=> [id |-> r.id, total |-> Total(ItemsOf(r.id, items))] \in page.rows

(* docs/API.md: the answer to GET /api/v1/receipts is 200 (or 422, for a   *)
(* filter that is no date).                                                *)
ListIsAnswered == page.status # 500

=============================================================================
