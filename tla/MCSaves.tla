------------------------------- MODULE MCSaves -------------------------------
(* Small databases and commands for checking Saves with TLC: what two       *)
(* requests may ask of the API, or of the forms, of one database.           *)
EXTENDS Saves, TLC

CONSTANTS
  Parts,                             (* the databases and commands of a run *)
  s1, s2, i1, i2, k1, k2, n1, n2

VARIABLE part

Symmetry == Permutations(Request)

-----------------------------------------------------------------------------
Unit1 == [table |-> "unit", id |-> 1, col |-> [okei |-> k1]]
Unit2 == [table |-> "unit", id |-> 2, col |-> [okei |-> k2]]
Supplier(id, inn) ==
  [table |-> "supplier", id |-> id,
   col |-> [name |-> n1, inn |-> inn, phone |-> None]]
Material(id, sku) ==
  [table |-> "material", id |-> id,
   col |-> [sku |-> sku, name |-> n1, unit |-> 1]]

SaveSupplier(via, id, name, inn, phone) ==
  [op |-> "save", via |-> via, table |-> "supplier", id |-> id,
   col |-> [name |-> name, inn |-> inn, phone |-> phone], unit |-> None]
SaveMaterial(via, id, sku, name, unit) ==
  [op |-> "save", via |-> via, table |-> "material", id |-> id,
   col |-> [sku |-> sku, name |-> name], unit |-> unit]
DeleteOne(via, table, id) ==
  [op |-> "delete", via |-> via, table |-> table, id |-> id,
   col |-> [f \in {} |-> None], unit |-> None]

(* Two suppliers, one of them without a rival; two units; one unit.         *)
Suppliers == {{Supplier(1, i1)}, {Supplier(1, i1), Supplier(2, i2)}}
Materials == {{Unit1, Unit2, Material(1, s1)}}
OneUnit == {{Unit1, Material(1, s1)}, {Unit1}}

(* The HTTP API: edits to a new and to a taken INN, with a refused field,   *)
(* creations, deletions, edits of an absent record, of a unit not there.    *)
ApiSuppliers ==
  {SaveSupplier("api", id, n2, i, p) : id \in {1, None}, i \in {i1, i2},
                                       p \in {None, n1, Bad}}
  \cup {DeleteOne("api", "supplier", 1), SaveSupplier("api", 2, n1, i1, n1)}

ApiMaterials ==
  {SaveMaterial("api", id, s, n2, u) : id \in {1, None}, s \in {s1, s2},
                                       u \in {1, 2, 3}}
  \cup {DeleteOne("api", "material", 1), SaveMaterial("api", 1, s2, Bad, 1)}

(* Forms that ask for a unit that is not there yet. *)
FormMaterials ==
  {SaveMaterial("form", id, s, n2, k) : id \in {1, None}, s \in {s1, s2},
                                        k \in {k1, k2}}
  \cup {SaveMaterial("form", 1, s2, n2, Bad), DeleteOne("form", "material", 1)}

(* Forms with an edit some of whose fields are refused. *)
FormSuppliers ==
  {SaveSupplier("form", 1, n2, i, p) : i \in {i1, i2, Bad}, p \in {n1, Bad}}

(* An edit of the supplier with identifier 0, next to the others. *)
Zero == {SaveSupplier("api", 0, n2, i2, n1)} \cup ApiSuppliers

Nobody == {}

StartOf(p) ==
  CASE p \in {"suppliers", "edits by form", "zero"} -> Suppliers
    [] p = "materials" -> Materials
    [] p = "forms" -> OneUnit

AskedOf(p) ==
  CASE p = "suppliers" -> ApiSuppliers
    [] p = "materials" -> ApiMaterials
    [] p = "forms" -> FormMaterials
    [] p = "edits by form" -> FormSuppliers
    [] p = "zero" -> Zero

MCStart == UNION {StartOf(p) : p \in Parts}
MCAsked == UNION {AskedOf(p) : p \in Parts}

-----------------------------------------------------------------------------
MCInit == part \in Parts /\ Init /\ db \in StartOf(part)

MCNext ==
  /\ UNCHANGED part
  /\ \E q \in Request :
       (\E c \in AskedOf(part) : Begin(q, c)) \/ Statement(q) \/ Lose(q)

MCSpec == MCInit /\ [][MCNext]_<<vars, part>>

=============================================================================
