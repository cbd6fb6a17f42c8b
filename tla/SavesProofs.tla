----------------------------- MODULE SavesProofs -----------------------------
(***************************************************************************)
(* The promises of Saves hold for every set of requests, every set of      *)
(* commands and every consistent database to start on.                     *)
(*                                                                         *)
(* The argument: what a transaction sees, the committed rows with its own  *)
(* changes, has no repeated name and no repeated unique column; what two   *)
(* transactions hold is disjoint.  So the rows one replaces are stored     *)
(* until it ends, and after the commit of another it still sees a database *)
(* without repetitions.  Units are entered and never removed here, so a    *)
(* unit that was found stays.                                              *)
(***************************************************************************)
EXTENDS Saves, FiniteSetTheorems, WellFoundedInduction, TLAPS

(* Rows whose identifiers their tables have issued. *)
IsRow(x) ==
  /\ x.table \in Table /\ x.id \in 1 .. issued[x.table]
  /\ DOMAIN x.col = Columns(x.table)

Typed ==
  /\ issued \in [Table -> Nat]
  /\ pc \in [Request -> Stage]
  /\ cmd \in [Request -> Asked \cup {None}]
  /\ answer \in [Request -> {200, 404, 409, 422, 500, None}]
  /\ read = [q \in Request |-> read[q]]
  /\ sent = [q \in Request |-> sent[q]]
  /\ own = [q \in Request |-> [put |-> own[q].put, gone |-> own[q].gone]]
  /\ \A x \in db : IsRow(x)
  /\ \A q \in Request : \A x \in own[q].put : IsRow(x)

(* The identifiers still to be issued have room below the bound. *)
Pending(t) ==
  {q \in Request : /\ pc[q] \in {"looking", "entering", "saving"}
                   /\ MayInsert(cmd[q], t)
                   /\ t = "unit" => pc[q] # "saving"}

Room == \A t \in Table : issued[t] + Cardinality(Pending(t)) <= MaxId

(* The unit a material was read with is stored, and kept till the new one  *)
(* has been looked up.                                                     *)
UnitRead(q) ==
  /\ Find(db, "unit", read[q]["unit"]) # {}
  /\ pc[q] \in {"looking", "entering", "showing"} => sent[q]["unit"] = read[q]["unit"]

(* Where a request is says what it was asked, and what it has assigned.    *)
Handled(q) ==
  /\ pc[q] = "idle" => own[q] = Nothing
  /\ pc[q] # "idle" => cmd[q] \in Asked
  /\ pc[q] \in {"looking", "entering"} => cmd[q].op = "save" /\ cmd[q].table = "material"
  /\ pc[q] = "entering" => cmd[q].via = "form"
  /\ pc[q] = "saving" => cmd[q].op = "save"
  /\ pc[q] = "deleting" => cmd[q].op = "delete"
  /\ pc[q] \in {"showing", "shown"} => cmd[q].op = "save" /\ cmd[q].via = "form"
  /\ pc[q] # "idle" /\ cmd[q].op = "delete" => own[q].put = {}
  /\ pc[q] # "idle" /\ cmd[q].op = "save" => DOMAIN sent[q] = Columns(cmd[q].table)
  /\ pc[q] \in {"looking", "entering", "saving", "done"} /\ cmd[q].op = "save" =>
       \A f \in DOMAIN cmd[q].col : sent[q][f] = cmd[q].col[f]
  /\ pc[q] # "idle" /\ Edits(cmd[q]) /\ cmd[q].table = "material" => UnitRead(q)

(* A unit that a row refers to, or is about to refer to, is seen by the    *)
(* request.                                                                *)
HasUnit(q) ==
  /\ \A x \in own[q].put : x.table = "material" => Find(View(q), "unit", x.col["unit"]) # {}
  /\ pc[q] = "saving" /\ cmd[q].table = "material" => Find(View(q), "unit", sent[q]["unit"]) # {}
  /\ \A x \in own[q].gone : x.table # "unit"

(* What a transaction has done is done to rows that are stored, and what   *)
(* it sees has no repetitions.                                             *)
Owned(q) ==
  /\ own[q].gone \subseteq db
  /\ Distinct(View(q))
  /\ \A x \in own[q].put, y \in db : Name(x) = Name(y) => y \in own[q].gone
  /\ pc[q] # "idle" => \A x \in own[q].gone : Name(x) = <<cmd[q].table, cmd[q].id>>
  /\ \A x \in own[q].gone, y \in own[q].put : Name(x) = Name(y) =>
       \A f \in DOMAIN x.col : y.col[f] # x.col[f] => f \in Dirty(q) /\ y.col[f] = sent[q][f]

(* The record a request was asked to edit or delete was there: its         *)
(* identifier is not one that somebody's insertion has been given since.   *)
Known(q) ==
  pc[q] # "idle" /\ (Edits(cmd[q]) \/ cmd[q].op = "delete") =>
    /\ cmd[q].id \in 1 .. issued[cmd[q].table]
    /\ \A p \in Request : \A x \in own[p].put : Name(x) = <<cmd[q].table, cmd[q].id>> =>
         \E y \in own[p].gone : Name(y) = Name(x)

Apart == \A p, q \in Request : p # q => Held(p) \cap Held(q) = {}

(* What a success will report is in the rows of the request. *)
Achieved(q) ==
  pc[q] = "done" =>
    \/ cmd[q].op = "delete" /\ Find(View(q), cmd[q].table, cmd[q].id) = {}
    \/ cmd[q].op = "save" /\ Edits(cmd[q]) /\ Changed(q) = {}
    \/ /\ cmd[q].op = "save" /\ Edits(cmd[q])
       /\ \E x \in own[q].put : Name(x) = <<cmd[q].table, cmd[q].id>> /\
            \A f \in Changed(q) : x.col[f] = cmd[q].col[f]
    \/ /\ Creates(cmd[q])
       /\ \E x \in own[q].put : x.table = cmd[q].table /\
            \A f \in DOMAIN cmd[q].col : x.col[f] = cmd[q].col[f]
    \/ cmd[q].op = "save" /\ ~Edits(cmd[q]) /\ ~Creates(cmd[q])

IInv ==
  /\ Typed /\ Room /\ Consistent(db) /\ Apart
  /\ \A q \in Request :
       Handled(q) /\ HasUnit(q) /\ Owned(q) /\ Known(q) /\ Achieved(q)

-----------------------------------------------------------------------------
(* The fields of a table are columns, and the unit of a material is none   *)
(* of them.                                                                *)
LEMMA FieldsAreColumns ==
  ASSUME NEW c \in Asked, c.op = "save"
  PROVE  /\ DOMAIN c.col \subseteq Columns(c.table) \ {"unit"}
         /\ AssignedBefore(c) \subseteq DOMAIN c.col
         /\ ~IsRefused(c) => AssignedBefore(c) = DOMAIN c.col
<1>1. c.table \in {"supplier", "material"} /\
      DOMAIN c.col = {Fields(c.table)[i] : i \in DOMAIN Fields(c.table)}
  BY AskedAssumption
<1>2. DOMAIN Fields(c.table) \in SUBSET Nat /\
      \A i \in DOMAIN Fields(c.table) : 1 .. i \subseteq DOMAIN Fields(c.table)
  BY <1>1 DEF Fields
<1>3. DOMAIN c.col \subseteq Columns(c.table) \ {"unit"}
  BY <1>1 DEF Fields, Columns
<1>4. AssignedBefore(c) \subseteq DOMAIN c.col
  BY <1>1 DEF AssignedBefore
<1>5. ASSUME ~IsRefused(c), NEW f \in DOMAIN c.col
      PROVE  f \in AssignedBefore(c)
  <2>1. PICK i \in DOMAIN Fields(c.table) : f = Fields(c.table)[i]
    BY <1>1
  <2>2. \A j \in 1 .. i : c.col[Fields(c.table)[j]] # Bad
    BY <1>1, <1>2, <1>5 DEF IsRefused
  <2> QED
    BY <2>1, <2>2 DEF AssignedBefore
<1> QED
  BY <1>3, <1>4, <1>5

(* Commands are about suppliers and materials; their tables have columns.  *)
LEMMA Tables ==
  ASSUME NEW c \in Asked
  PROVE  /\ c.table \in Table /\ c.table # "unit"
         /\ c.op \in {"save", "delete"} /\ c.via \in {"api", "form"}
         /\ Creates(c) => ~Edits(c) /\ c.op = "save"
         /\ Edits(c) => c.op = "save" /\ c.id \in Id
  BY AskedAssumption, SlotsAssumption, MaxIdAssumption DEF Table, Creates, Edits, Id

(* The rows a flush replaces. *)
LEMMA OldRows ==
  ASSUME IInv, NEW q \in Request, pc[q] # "idle"
  PROVE  /\ Old(q) \subseteq View(q)
         /\ \A x \in Old(q) :
              /\ Name(x) = <<cmd[q].table, cmd[q].id>> /\ IsRow(x) /\ x.table # "unit"
         /\ \A x, y \in Old(q) : x = y
         /\ Old(q) # {} =>
              pc[q] \in Sending /\ (Edits(cmd[q]) \/ cmd[q].op = "delete")
         /\ Creates(cmd[q]) \/ pc[q] = "entering" => Old(q) = {}
<1>1. cmd[q] \in Asked /\ (pc[q] = "deleting" => cmd[q].op = "delete")
  BY DEF IInv, Handled
<1>2. Old(q) \subseteq View(q) /\ \A x \in Old(q) : x.table = cmd[q].table /\ x.id = cmd[q].id
  BY DEF Old, Find
<1>3. \A x \in View(q) : IsRow(x)
  BY DEF IInv, Typed, View
<1>4. Distinct(View(q))
  BY DEF IInv, Owned
<1>5. \A x, y \in Old(q) : x = y
  BY <1>2, <1>4 DEF Distinct, Name
<1>6. Old(q) # {} => Updates(q) \/ pc[q] = "deleting"
  BY DEF Old
<1>7. Old(q) # {} => pc[q] \in Sending /\ (Edits(cmd[q]) \/ cmd[q].op = "delete")
  BY <1>1, <1>6 DEF Updates, Sending
<1>8. Creates(cmd[q]) \/ pc[q] = "entering" => Old(q) = {}
  BY <1>1, <1>6, Tables DEF Updates, Creates
<1> QED
  BY <1>1, <1>2, <1>3, <1>5, <1>7, <1>8, Tables DEF Name

(* The rows a flush puts in: the changed form of a replaced one, or a row  *)
(* with the next identifier of its table.                                  *)
Revises(q, x, y) ==
  /\ Updates(q) /\ x.table = y.table /\ x.id = y.id /\ DOMAIN x.col = DOMAIN y.col
  /\ \A f \in DOMAIN y.col : x.col[f] = IF f \in Dirty(q) THEN sent[q][f] ELSE y.col[f]

IsFresh(q, x) ==
  /\ x.id = issued[x.table] + 1
  /\ \/ pc[q] = "entering" /\ x.table = "unit"
     \/ /\ pc[q] = "saving" /\ Creates(cmd[q])
        /\ x.table = cmd[q].table /\ x.col = sent[q]

LEMMA NewRows ==
  ASSUME IInv, NEW q \in Request, pc[q] # "idle"
  PROVE  /\ \A x \in New(q) : /\ x.table \in Table /\ x.id \in Nat \ {0}
                              /\ DOMAIN x.col = Columns(x.table)
                              /\ IsFresh(q, x) \/ \E y \in Old(q) : Revises(q, x, y)
         /\ \A x, y \in New(q) : x = y
         /\ Updates(q) => \A y \in Old(q) : \E x \in New(q) : Revises(q, x, y)
         /\ pc[q] = "saving" /\ Creates(cmd[q]) => \E x \in New(q) : IsFresh(q, x)
         /\ pc[q] = "entering" =>
              \E x \in New(q) : x.table = "unit" /\ x.id = issued["unit"] + 1
         /\ pc[q] = "deleting" => New(q) = {}
<1>1. cmd[q] \in Asked /\ issued \in [Table -> Nat]
  BY DEF IInv, Handled, Typed
<1>2. CASE Updates(q)
  <2>1. New(q) = {[table |-> y.table, id |-> y.id, col |-> [f \in DOMAIN y.col |->
             IF f \in Dirty(q) THEN sent[q][f] ELSE y.col[f]]] : y \in Old(q)}
    <3>1. ~(pc[q] = "saving" /\ Creates(cmd[q])) /\ pc[q] # "entering"
      BY <1>1, <1>2, Tables DEF Updates
    <3> QED
      BY <1>2, <3>1 DEF New
  <2>2. \A x \in New(q) : \E y \in Old(q) : Revises(q, x, y)
    BY <1>2, <2>1 DEF Revises
  <2>3. ASSUME NEW y \in Old(q)
        PROVE  \E x \in New(q) : Revises(q, x, y)
    <3> DEFINE x == [table |-> y.table, id |-> y.id, col |-> [f \in DOMAIN y.col |->
                       IF f \in Dirty(q) THEN sent[q][f] ELSE y.col[f]]]
    <3>1. x \in New(q)
      BY <2>1
    <3>2. Revises(q, x, y)
      BY <1>2 DEF Revises
    <3> QED
      BY <3>1, <3>2
  <2>4. \A x, y \in New(q) : x = y
    <3>1. CASE Old(q) = {}
      BY <2>1, <3>1
    <3>2. ASSUME NEW u \in Old(q)
          PROVE  \A x, y \in New(q) : x = y
      <4>1. Old(q) = {u}
        BY OldRows
      <4> QED
        BY <2>1, <4>1
    <3> QED
      BY <3>1, <3>2
  <2>5. \A x \in New(q) : /\ x.table \in Table /\ x.id \in Nat \ {0}
                          /\ DOMAIN x.col = Columns(x.table)
    BY <1>1, <2>2, OldRows DEF Revises, IsRow
  <2>6. pc[q] # "entering" /\ pc[q] # "deleting" /\ ~Creates(cmd[q])
    BY <1>1, <1>2, Tables DEF Updates
  <2> QED
    BY <2>2, <2>3, <2>4, <2>5, <2>6
<1>3. CASE ~Updates(q) /\ pc[q] = "saving" /\ Creates(cmd[q])
  <2>1. New(q) = {[table |-> cmd[q].table, id |-> issued[cmd[q].table] + 1, col |-> sent[q]]}
    BY <1>3 DEF New, Inserted
  <2>2. DOMAIN sent[q] = Columns(cmd[q].table) /\ cmd[q].table \in Table
    BY <1>1, <1>3, Tables DEF IInv, Handled
  <2> QED
    BY <1>1, <1>3, <2>1, <2>2 DEF IsFresh
<1>4. CASE ~Updates(q) /\ pc[q] = "entering"
  <2>1. New(q) = {[table |-> "unit", id |-> issued["unit"] + 1,
                   col |-> [f \in {"okei"} |-> cmd[q].unit]]}
    BY <1>4 DEF New, Inserted
  <2>2. "unit" \in Table /\ Columns("unit") = {"okei"}
    BY DEF Table, Columns
  <2> QED
    BY <1>1, <1>4, <2>1, <2>2 DEF IsFresh
<1>5. CASE ~Updates(q) /\ ~(pc[q] = "saving" /\ Creates(cmd[q])) /\ pc[q] # "entering"
  <2>1. New(q) = {}
    BY <1>5 DEF New
  <2> QED
    BY <1>5, <2>1
<1>6. pc[q] = "deleting" => ~Updates(q)
  BY DEF Updates
<1> QED
  BY <1>2, <1>3, <1>4, <1>5, <1>6

(* What a request sees after a flush. *)
LEMMA ViewAfterFlush ==
  ASSUME IInv, NEW q \in Request, NEW stage, pc[q] # "idle", Flush(q, stage)
  PROVE  /\ own'[q].put = (own[q].put \ Old(q)) \cup New(q)
         /\ own'[q].gone = own[q].gone \cup (Old(q) \ own[q].put)
         /\ View(q)' = (View(q) \ Old(q)) \cup New(q)
         /\ own' = [p \in Request |-> [put |-> own'[p].put, gone |-> own'[p].gone]]
         /\ \A p \in Request \ {q} : own'[p] = own[p] /\ View(p)' = View(p) /\ pc'[p] = pc[p]
<1>1. own = [p \in Request |-> [put |-> own[p].put, gone |-> own[p].gone]]
  BY DEF IInv, Typed
<1>2. own'[q] = [put  |-> (own[q].put \ Old(q)) \cup New(q),
                 gone |-> own[q].gone \cup (Old(q) \ own[q].put)]
  BY <1>1 DEF Flush
<1>3. \A p \in Request \ {q} : own'[p] = own[p] /\ pc'[p] = pc[p]
  BY <1>1 DEF Flush, IInv, Typed
<1>4. db' = db
  BY DEF Flush
<1>5. \A p \in Request \ {q} : View(p)' = View(p)
  BY <1>3, <1>4 DEF View
<1>6. \A x \in own[q].put : x \in db => x \in own[q].gone
  BY DEF IInv, Owned
<1>7. View(q)' = (View(q) \ Old(q)) \cup New(q)
  BY <1>2, <1>4, <1>6, OldRows DEF View
<1>8. own' = [p \in Request |-> [put |-> own'[p].put, gone |-> own'[p].gone]]
  BY <1>1, <1>2, <1>3 DEF Flush
<1> QED
  BY <1>2, <1>3, <1>5, <1>7, <1>8

(* No unique column has the name of a table. *)
LEMMA NamesAreNoKeys ==
  ASSUME NEW x, NEW y, x.table \in Table, y.table \in Table
  PROVE  Name(x) # Key(y)
  BY DEF Table, Name, Key

(* A flush takes up what no other request holds. *)
LEMMA FlushKeepsApart ==
  ASSUME IInv, NEW q \in Request, NEW stage, pc[q] # "idle", Flush(q, stage), Blockers(q) = {}
  PROVE  Apart'
<1>1. SUFFICES ASSUME NEW p \in Request, p # q, NEW e \in Held(p), e \in Held(q)'
               PROVE  FALSE
  <2>1. \A p \in Request \ {q} : Held(p)' = Held(p)
    BY ViewAfterFlush DEF Held
  <2> QED
    BY <2>1 DEF Apart, IInv
<1>2. Held(p) \cap Wanted(q) = {} /\ Held(p) \cap Held(q) = {}
  BY <1>1 DEF Blockers, IInv, Apart
<1>3. PICK x \in own'[q].put \cup own'[q].gone : e = Name(x) \/ e = Key(x)
  BY <1>1 DEF Held
<1>4. CASE x \in own[q].put \cup own[q].gone
  BY <1>1, <1>2, <1>3, <1>4 DEF Held
<1>5. CASE x \in New(q)
  BY <1>1, <1>2, <1>3, <1>5 DEF Wanted
<1>6. CASE x \in Old(q) /\ x \notin own[q].put \cup own[q].gone
  <2>1. x \in db /\ Name(x) \notin Held(p) /\ e = Key(x) /\ x.table \in Table
    BY <1>1, <1>2, <1>3, <1>6, OldRows DEF Wanted, View, IsRow
  <2>2. PICK z \in own[p].put \cup own[p].gone : e = Name(z) \/ e = Key(z)
    BY <1>1 DEF Held
  <2>3. Name(z) \in Held(p) /\ (z \in own[p].gone => z \in db) /\ z.table \in Table
    <3>1. z \in own[p].gone => z \in db
      BY <1>1 DEF IInv, Owned
    <3>2. z.table \in Table
      BY <2>2, <3>1 DEF IInv, Typed, IsRow
    <3> QED
      BY <3>1, <3>2 DEF Held
  <2>4. Key(z) = Key(x)
    BY <2>1, <2>2, <2>3, NamesAreNoKeys
  <2>5. x \in View(p)
    BY <1>1, <2>1 DEF View, Held
  <2>6. CASE z \in own[p].gone
    BY <2>1, <2>3, <2>4, <2>6 DEF IInv, Consistent, Distinct
  <2>7. CASE z \in own[p].put
    <3>1. z \in View(p)
      BY <2>7 DEF View
    <3> QED
      BY <1>1, <2>1, <2>3, <2>4, <2>5, <3>1 DEF IInv, Owned, Distinct
  <2> QED
    BY <2>2, <2>6, <2>7
<1> QED
  BY <1>3, <1>4, <1>5, <1>6, ViewAfterFlush

(* What a step of one request that commits nothing leaves alone. *)
Carries(q) ==
  /\ db' = db
  /\ issued' \in [Table -> Nat] /\ \A t \in Table : issued[t] <= issued'[t]
  /\ \A p \in Request \ {q} :
       /\ pc'[p] = pc[p] /\ cmd'[p] = cmd[p] /\ read'[p] = read[p]
       /\ sent'[p] = sent[p] /\ own'[p] = own[p]

LEMMA OthersStand ==
  ASSUME IInv, NEW q \in Request, Carries(q), NEW r \in Request \ {q}
  PROVE  Handled(r)' /\ HasUnit(r)' /\ Owned(r)' /\ Achieved(r)'
<1>1. View(r)' = View(r) /\ Dirty(r)' = Dirty(r) /\ Changed(r)' = Changed(r)
  BY DEF Carries, View, Dirty, Changed
<1>2. Handled(r)'
  BY DEF IInv, Carries, Handled, UnitRead
<1>3. HasUnit(r)'
  BY <1>1 DEF IInv, Carries, HasUnit
<1>4. Owned(r)'
  BY <1>1 DEF IInv, Carries, Owned
<1>5. Achieved(r)'
  BY <1>1 DEF IInv, Carries, Achieved
<1> QED
  BY <1>2, <1>3, <1>4, <1>5

(* Rows of the tables keep their identifiers issued. *)
LEMMA RowsStay ==
  ASSUME IInv, NEW x, IsRow(x),
         issued' \in [Table -> Nat], \A t \in Table : issued[t] <= issued'[t]
  PROVE  IsRow(x)'
  BY DEF IInv, Typed, IsRow

(* A creation replaces no row, and a deletion puts in none.                *)
LEMMA ReplacedOnlyByEdits ==
  ASSUME IInv, NEW q \in Request, pc[q] # "idle", ~Edits(cmd[q])
  PROVE  \/ own[q].gone = {} /\ Old(q) = {}
         \/ own[q].put = {} /\ New(q) = {}
<1>1. cmd[q] \in Asked
  BY DEF IInv, Handled
<1>2. CASE cmd[q].op = "delete"
  <2>1. pc[q] \notin {"saving", "entering"} /\ own[q].put = {}
    BY <1>2 DEF IInv, Handled
  <2>2. \A x \in New(q) : ~IsFresh(q, x) /\ ~\E y \in Old(q) : Revises(q, x, y)
    BY <2>1 DEF IsFresh, Revises, Updates
  <2> QED
    BY <2>1, <2>2, NewRows
<1>3. CASE cmd[q].op = "save"
  <2>1. Old(q) = {}
    BY <1>3, OldRows
  <2>2. ASSUME NEW x \in own[q].gone
        PROVE  FALSE
    <3>1. x.id = cmd[q].id /\ IsRow(x)
      BY DEF IInv, Owned, Typed, Name
    <3>2. issued[x.table] <= MaxId /\ issued[x.table] \in Nat
      <4>1. IsFiniteSet(Pending(x.table))
        BY SlotsAssumption, FS_Subset DEF Pending
      <4>2. Cardinality(Pending(x.table)) \in Nat
        BY <4>1, FS_CardinalityType
      <4> QED
        BY <3>1, <4>2, MaxIdAssumption DEF IInv, Room, Typed, IsRow
    <3> QED
      BY <1>3, <3>1, <3>2, MaxIdAssumption DEF IsRow, Edits, Id
  <2> QED
    BY <2>1, <2>2
<1> QED
  BY <1>1, <1>2, <1>3, Tables

(* After a flush the request still sees no repetitions, and has done what  *)
(* it did to rows that are stored.                                         *)
LEMMA FlushKeepsOwned ==
  ASSUME IInv, NEW q \in Request, NEW stage, pc[q] # "idle", Flush(q, stage), Carries(q),
         Flushable(q) \/ pc[q] = "deleting",
         Edits(cmd[q]) =>
           \A f \in Dirty(q) : f \in DOMAIN sent'[q] /\ sent'[q][f] = sent[q][f]
  PROVE  Owned(q)'
<1> DEFINE put == own[q].put
           gone == own[q].gone
<1>1. /\ own'[q].put = (put \ Old(q)) \cup New(q)
      /\ own'[q].gone = gone \cup (Old(q) \ put)
      /\ View(q)' = (View(q) \ Old(q)) \cup New(q)
      /\ db' = db /\ cmd' = cmd /\ read' = read
  BY ViewAfterFlush DEF Flush
<1>2. /\ gone \subseteq db /\ Distinct(View(q)) /\ Distinct(db)
      /\ \A x \in put, y \in db : Name(x) = Name(y) => y \in gone
      /\ \A x \in gone : Name(x) = <<cmd[q].table, cmd[q].id>>
      /\ \A x \in gone, y \in put : Name(x) = Name(y) =>
           \A f \in DOMAIN x.col : y.col[f] # x.col[f] => f \in Dirty(q) /\ y.col[f] = sent[q][f]
  BY DEF IInv, Owned, Consistent
<1>3. /\ Old(q) \subseteq View(q) /\ \A x, y \in Old(q) : x = y
      /\ \A x \in Old(q) : Name(x) = <<cmd[q].table, cmd[q].id>>
  BY OldRows
<1>4. \A x \in New(q) : IsFresh(q, x) \/ \E y \in Old(q) : Revises(q, x, y)
  BY NewRows
<1>5. \A x, y \in New(q) : x = y
  BY NewRows
<1>6. \A x \in db \cup put : x.table \in Table /\ x.id \in 1 .. issued[x.table]
  BY DEF IInv, Typed, IsRow
<1>7. ASSUME NEW x \in New(q), NEW y \in db \cup put, Name(x) = Name(y)
      PROVE  \E z \in Old(q) : Revises(q, x, z) /\ Name(z) = Name(y)
  <2>1. ~IsFresh(q, x)
    BY <1>6, <1>7 DEF IsFresh, Name, IInv, Typed
  <2> QED
    BY <1>4, <1>7, <2>1 DEF Revises, Name
<1>8. own'[q].gone \subseteq db'
  BY <1>1, <1>2, <1>3 DEF View
<1>9. Distinct(View(q)')
  <2>1. ASSUME NEW x \in View(q) \ Old(q), NEW y \in New(q)
        PROVE  Name(x) # Name(y) /\ Key(x) # Key(y)
    <3>1. pc[q] # "deleting" /\ Key(x) # Key(y)
      BY <2>1, NewRows DEF Flushable, Repeats
    <3>2. ASSUME Name(x) = Name(y) PROVE FALSE
      <4>1. PICK z \in Old(q) : Name(z) = Name(x)
        BY <1>7, <2>1, <3>2 DEF View
      <4> QED
        BY <1>2, <1>3, <2>1, <4>1 DEF Distinct
    <3> QED
      BY <3>1, <3>2
  <2> QED
    BY <1>1, <1>2, <1>5, <2>1 DEF Distinct
<1>10. ASSUME NEW x \in own'[q].put, NEW y \in db', Name(x) = Name(y)
       PROVE  y \in own'[q].gone
  <2>1. CASE x \in put
    BY <1>1, <1>2, <1>10, <2>1
  <2>2. CASE x \in New(q)
    <3>1. PICK z \in Old(q) : Name(z) = Name(y)
      BY <1>1, <1>7, <1>10, <2>2
    <3>2. CASE z \in put
      BY <1>1, <1>2, <1>10, <3>1, <3>2
    <3>3. CASE z \notin put
      BY <1>1, <1>2, <1>3, <1>10, <3>1, <3>3 DEF View, Distinct
    <3> QED
      BY <3>2, <3>3
  <2> QED
    BY <1>1, <1>10, <2>1, <2>2
<1>11. pc'[q] # "idle" => \A x \in own'[q].gone : Name(x) = <<cmd'[q].table, cmd'[q].id>>
  BY <1>1, <1>2, <1>3
<1>12. Edits(cmd[q]) => \A f \in Dirty(q) : f \in Dirty(q)' /\ sent'[q][f] = sent[q][f]
  BY <1>1 DEF Dirty
<1>13. ASSUME NEW x \in own'[q].gone, NEW y \in own'[q].put, Name(x) = Name(y),
              NEW f \in DOMAIN x.col, y.col[f] # x.col[f]
       PROVE  f \in Dirty(q) /\ y.col[f] = sent[q][f]
  <2>1. CASE y \in put /\ x \in gone
    BY <1>2, <1>13, <2>1
  <2>2. CASE y \in put \ Old(q) /\ x \in Old(q) \ put
    BY <1>2, <1>3, <1>13, <2>2 DEF View, Distinct
  <2>3. CASE y \in New(q)
    <3>1. PICK z \in Old(q) : Revises(q, y, z) /\ Name(z) = Name(x)
      BY <1>1, <1>7, <1>8, <1>13, <2>3
    <3>2. CASE x \in Old(q)
      BY <1>3, <1>13, <3>1, <3>2 DEF Revises
    <3>3. CASE x \in gone /\ z \in put
      <4>1. f \in DOMAIN z.col
        <5>1. IsRow(x) /\ IsRow(z)
          BY <1>1, <1>2, <3>3 DEF IInv, Typed
        <5> QED
          BY <1>13, <3>1, <5>1 DEF IsRow, Name
      <4>2. z.col[f] # x.col[f] => f \in Dirty(q) /\ z.col[f] = sent[q][f]
        BY <1>2, <1>13, <3>1, <3>3
      <4>3. y.col[f] = IF f \in Dirty(q) THEN sent[q][f] ELSE z.col[f]
        BY <3>1, <4>1 DEF Revises
      <4> QED
        BY <1>13, <4>2, <4>3
    <3>4. CASE x \in gone /\ z \notin put
      BY <1>2, <1>3, <1>13, <3>1, <3>4 DEF View, Distinct
    <3> QED
      BY <1>1, <1>13, <3>2, <3>3, <3>4
  <2> QED
    BY <1>1, <1>13, <2>1, <2>2, <2>3
<1>14. ~Edits(cmd[q]) => own'[q].gone = {} \/ own'[q].put = {}
  BY <1>1, ReplacedOnlyByEdits
<1> QED
  BY <1>8, <1>9, <1>10, <1>11, <1>12, <1>13, <1>14 DEF Owned

(* No insertion is given the identifier of a record that was there.        *)
LEMMA FlushKeepsKnown ==
  ASSUME IInv, NEW q \in Request, NEW stage, pc[q] # "idle", Flush(q, stage), Carries(q),
         NEW r \in Request
  PROVE  Known(r)'
<1>1. SUFFICES ASSUME pc'[r] # "idle", Edits(cmd[r]) \/ cmd[r].op = "delete"
               PROVE  /\ cmd[r].id \in 1 .. issued'[cmd[r].table]
                      /\ \A p \in Request : \A x \in own'[p].put :
                           Name(x) = <<cmd[r].table, cmd[r].id>> =>
                             \E y \in own'[p].gone : Name(y) = Name(x)
  BY DEF Known, Flush
<1>2. /\ pc[r] # "idle" /\ cmd[r].table \in Table
      /\ cmd[r].id \in 1 .. issued[cmd[r].table]
      /\ \A p \in Request : \A x \in own[p].put :
           Name(x) = <<cmd[r].table, cmd[r].id>> => \E y \in own[p].gone : Name(y) = Name(x)
  BY <1>1, Tables DEF Carries, IInv, Known, Handled
<1>3. cmd[r].id \in 1 .. issued'[cmd[r].table]
  BY <1>2 DEF Carries, IInv, Typed
<1>4. ASSUME NEW x \in own'[q].put, Name(x) = <<cmd[r].table, cmd[r].id>>
      PROVE  \E y \in own'[q].gone : Name(y) = Name(x)
  <2>1. CASE x \in own[q].put
    BY <1>2, <1>4, <2>1, ViewAfterFlush
  <2>2. CASE x \in New(q)
    <3>1. ~IsFresh(q, x)
      BY <1>2, <1>4 DEF IsFresh, Name, IInv, Typed
    <3>2. PICK y \in Old(q) : Name(y) = Name(x)
      BY <2>2, <3>1, NewRows DEF Revises, Name
    <3> QED
      BY <1>2, <1>4, <3>2, ViewAfterFlush
  <2> QED
    BY <1>4, <2>1, <2>2, ViewAfterFlush
<1> QED
  BY <1>2, <1>3, <1>4, ViewAfterFlush

(* The units a request sees it goes on seeing, and the rows it puts in     *)
(* refer to such.                                                          *)
LEMMA SeenUnits ==
  ASSUME IInv, NEW q \in Request, NEW x \in View(q), x.table = "material"
  PROVE  Find(View(q), "unit", x.col["unit"]) # {}
<1>1. CASE x \in own[q].put
  BY <1>1 DEF IInv, HasUnit
<1>2. CASE x \in db
  <2>1. PICK u \in db : u.table = "unit" /\ u.id = x.col["unit"]
    BY <1>2 DEF IInv, Consistent, Find
  <2>2. u \in View(q)
    BY <2>1 DEF IInv, HasUnit, View
  <2> QED
    BY <2>1, <2>2 DEF Find
<1> QED
  BY <1>1, <1>2 DEF View

LEMMA FlushKeepsUnits ==
  ASSUME IInv, NEW q \in Request, NEW stage, pc[q] # "idle", Flush(q, stage)
  PROVE  /\ \A u \in View(q) : u.table = "unit" => u \in View(q)'
         /\ \A x \in own'[q].put :
              x.table = "material" => Find(View(q)', "unit", x.col["unit"]) # {}
         /\ \A x \in own'[q].gone : x.table # "unit"
<1>1. \A u \in View(q) : u.table = "unit" => u \in View(q)'
  BY OldRows, ViewAfterFlush
<1>2. ASSUME NEW n, Find(View(q), "unit", n) # {}
      PROVE  Find(View(q)', "unit", n) # {}
  BY <1>1, <1>2 DEF Find
<1>3. ASSUME NEW x \in New(q), x.table = "material"
      PROVE  Find(View(q), "unit", x.col["unit"]) # {}
  <2>1. CASE IsFresh(q, x)
    BY <1>3, <2>1 DEF IsFresh, IInv, HasUnit
  <2>2. ASSUME NEW y \in Old(q), Revises(q, x, y)
        PROVE  Find(View(q), "unit", x.col["unit"]) # {}
    <3>1. /\ cmd[q] \in Asked /\ y.table = cmd[q].table /\ "unit" \in DOMAIN y.col
          /\ y \in View(q) /\ y.table = "material"
      <4>1. IsRow(y) /\ y \in View(q) /\ Name(y) = <<cmd[q].table, cmd[q].id>>
        BY <2>2, OldRows
      <4>2. y.table = "material" /\ cmd[q] \in Asked
        BY <1>3, <2>2 DEF Revises, IInv, Handled
      <4> QED
        BY <4>1, <4>2 DEF IsRow, Name, Columns
    <3>2. CASE "unit" \notin Dirty(q)
      BY <2>2, <3>1, <3>2, SeenUnits DEF Revises
    <3>3. CASE "unit" \in Dirty(q)
      <4>1. pc[q] = "saving"
        BY <2>2, <3>1, <3>3 DEF Revises, Updates, Dirty, IInv, Handled, UnitRead
      <4>2. Find(View(q), "unit", sent[q]["unit"]) # {}
        BY <3>1, <4>1 DEF IInv, HasUnit
      <4> QED
        BY <2>2, <3>1, <3>3, <4>2 DEF Revises
    <3> QED
      BY <3>2, <3>3
  <2> QED
    BY <2>1, <2>2, NewRows
<1>4. ASSUME NEW x \in own'[q].put, x.table = "material"
      PROVE  Find(View(q)', "unit", x.col["unit"]) # {}
  <2>1. Find(View(q), "unit", x.col["unit"]) # {}
    BY <1>3, <1>4, SeenUnits, ViewAfterFlush DEF View
  <2> QED
    BY <1>2, <2>1
<1>5. \A x \in own'[q].gone : x.table # "unit"
  BY OldRows, ViewAfterFlush DEF IInv, HasUnit
<1> QED
  BY <1>1, <1>4, <1>5

LEMMA FlushKeepsRows ==
  ASSUME IInv, NEW q \in Request, NEW stage, pc[q] # "idle", Flush(q, stage), Carries(q),
         \A x \in New(q) : x.id <= issued'[x.table]
  PROVE  /\ \A x \in db' : IsRow(x)'
         /\ \A p \in Request : \A x \in own'[p].put : IsRow(x)'
<1>1. issued' \in [Table -> Nat] /\ \A t \in Table : issued[t] <= issued'[t]
  BY DEF Carries
<1>2. \A x \in db' : IsRow(x)'
  <2>1. SUFFICES ASSUME NEW x \in db PROVE IsRow(x)'
    BY DEF Carries
  <2> QED
    BY <1>1, RowsStay DEF IInv, Typed
<1>3. ASSUME NEW p \in Request \ {q}, NEW x \in own'[p].put
      PROVE  IsRow(x)'
  BY <1>1, <1>3, RowsStay DEF Carries, IInv, Typed
<1>4. ASSUME NEW x \in own'[q].put
      PROVE  IsRow(x)'
  <2>1. CASE x \in own[q].put
    BY <1>1, <2>1, RowsStay DEF IInv, Typed
  <2>2. CASE x \in New(q)
    BY <1>1, <2>2, NewRows DEF IsRow
  <2> QED
    BY <1>4, <2>1, <2>2, ViewAfterFlush
<1> QED
  BY <1>2, <1>3, <1>4

(* The bound on identifiers. *)
LEMMA RoomKept ==
  ASSUME IInv, issued' = issued, \A t \in Table : Pending(t)' \subseteq Pending(t)
  PROVE  Room'
<1>1. SUFFICES ASSUME NEW t \in Table
               PROVE  issued[t] + Cardinality(Pending(t)') <= MaxId
  BY DEF Room
<1>2. IsFiniteSet(Pending(t)) /\ Pending(t)' \subseteq Pending(t)
  BY SlotsAssumption, FS_Subset DEF Pending
<1>3. /\ Cardinality(Pending(t)) \in Nat /\ Cardinality(Pending(t)') \in Nat
      /\ Cardinality(Pending(t)') <= Cardinality(Pending(t))
  BY <1>2, FS_Subset, FS_CardinalityType
<1> QED
  BY <1>3, MaxIdAssumption DEF IInv, Typed, Room

LEMMA RoomSpent ==
  ASSUME IInv, NEW q \in Request, NEW u \in Table, Spend(u), q \in Pending(u), q \notin Pending(u)',
         \A t \in Table : Pending(t)' \subseteq Pending(t)
  PROVE  Room' /\ issued' \in [Table -> Nat] /\ issued'[u] = issued[u] + 1
               /\ \A t \in Table : issued[t] <= issued'[t]
<1>1. /\ issued' \in [Table -> Nat] /\ issued'[u] = issued[u] + 1
      /\ \A t \in Table \ {u} : issued'[t] = issued[t]
      /\ \A t \in Table : issued[t] <= issued'[t]
  BY DEF Spend, IInv, Typed
<1>2. ASSUME NEW t \in Table
      PROVE  issued'[t] + Cardinality(Pending(t)') <= MaxId
  <2>1. IsFiniteSet(Pending(t)) /\ IsFiniteSet(Pending(t) \ {q})
    BY SlotsAssumption, FS_Subset DEF Pending
  <2>2. /\ Cardinality(Pending(t)) \in Nat /\ Cardinality(Pending(t)') \in Nat
        /\ Cardinality(Pending(t)') <= Cardinality(Pending(t))
    BY <2>1, FS_Subset, FS_CardinalityType
  <2>3. issued[t] \in Nat /\ issued[t] + Cardinality(Pending(t)) <= MaxId
    BY DEF IInv, Typed, Room
  <2>4. CASE t = u
    <3>1. Pending(u)' \subseteq Pending(u) \ {q}
      OBVIOUS
    <3>2. Cardinality(Pending(u)') <= Cardinality(Pending(u) \ {q})
      BY <2>1, <2>4, <3>1, FS_Subset
    <3>3. Cardinality(Pending(u) \ {q}) = Cardinality(Pending(u)) - 1
      BY <2>1, <2>4, FS_RemoveElement
    <3> QED
      BY <1>1, <2>2, <2>3, <2>4, <3>2, <3>3, MaxIdAssumption
  <2>5. CASE t # u
    BY <1>1, <2>2, <2>3, <2>5, MaxIdAssumption
  <2> QED
    BY <2>4, <2>5
<1> QED
  BY <1>1, <1>2 DEF Room

-----------------------------------------------------------------------------
(* A request that has ended has nothing, and holds nothing. *)
LEMMA Ended ==
  ASSUME IInv, NEW q \in Request, NEW status, NEW d, End(q, status, d),
         status \in {200, 404, 409, 422, 500, None}
  PROVE  /\ own'[q] = Nothing /\ pc'[q] = "idle" /\ db' = d /\ answer'[q] = status
         /\ \A p \in Request \ {q} :
              /\ pc'[p] = pc[p] /\ cmd'[p] = cmd[p] /\ read'[p] = read[p]
              /\ sent'[p] = sent[p] /\ own'[p] = own[p]
         /\ pc' \in [Request -> Stage] /\ cmd' \in [Request -> Asked \cup {None}]
         /\ answer' \in [Request -> {200, 404, 409, 422, 500, None}]
         /\ read' = [p \in Request |-> read'[p]] /\ sent' = [p \in Request |-> sent'[p]]
         /\ own' = [p \in Request |-> [put |-> own'[p].put, gone |-> own'[p].gone]]
         /\ View(q)' = d
         /\ Apart'
         /\ Handled(q)' /\ HasUnit(q)' /\ Achieved(q)' /\ (Distinct(d) => Owned(q)')
<1>1. /\ own = [p \in Request |-> [put |-> own[p].put, gone |-> own[p].gone]]
      /\ read = [p \in Request |-> read[p]] /\ sent = [p \in Request |-> sent[p]]
      /\ pc \in [Request -> Stage] /\ cmd \in [Request -> Asked \cup {None}]
      /\ answer \in [Request -> {200, 404, 409, 422, 500, None}]
  BY DEF IInv, Typed
<1>2. /\ own'[q] = Nothing /\ pc'[q] = "idle" /\ db' = d /\ answer'[q] = status
      /\ \A p \in Request \ {q} :
           /\ pc'[p] = pc[p] /\ cmd'[p] = cmd[p] /\ read'[p] = read[p]
           /\ sent'[p] = sent[p] /\ own'[p] = own[p]
  BY <1>1 DEF End
<1>3. /\ pc' \in [Request -> Stage] /\ cmd' \in [Request -> Asked \cup {None}]
      /\ answer' \in [Request -> {200, 404, 409, 422, 500, None}]
  BY <1>1 DEF End, Stage
<1>4. read' = [p \in Request |-> read'[p]] /\ sent' = [p \in Request |-> sent'[p]]
  BY <1>1 DEF End
<1>5. own' = [p \in Request |-> [put |-> own'[p].put, gone |-> own'[p].gone]]
  BY <1>1 DEF End, Nothing
<1>6. own'[q].put = {} /\ own'[q].gone = {}
  BY <1>2 DEF Nothing
<1>7. View(q)' = d
  BY <1>2, <1>6 DEF View
<1>8. Apart'
  <2>1. Held(q)' = {} /\ \A p \in Request \ {q} : Held(p)' = Held(p)
    BY <1>2, <1>6 DEF Held
  <2> QED
    BY <2>1 DEF Apart, IInv
<1>9. Handled(q)' /\ HasUnit(q)' /\ Achieved(q)'
  BY <1>2, <1>6 DEF Handled, HasUnit, Achieved
<1>10. Distinct(d) => Owned(q)'
  BY <1>2, <1>6, <1>7 DEF Owned
<1> QED
  BY <1>2, <1>3, <1>4, <1>5, <1>7, <1>8, <1>9, <1>10

(* The end of one request leaves the records of others known. *)
LEMMA EndKeepsKnown ==
  ASSUME IInv, NEW q \in Request, NEW status, NEW d, End(q, status, d),
         status \in {200, 404, 409, 422, 500, None},
         issued' \in [Table -> Nat], \A t \in Table : issued[t] <= issued'[t],
         NEW r \in Request
  PROVE  Known(r)'
<1>1. /\ own'[q] = Nothing /\ pc'[q] = "idle"
      /\ \A p \in Request \ {q} : pc'[p] = pc[p] /\ cmd'[p] = cmd[p] /\ own'[p] = own[p]
  BY Ended
<1>2. CASE r = q
  BY <1>1, <1>2 DEF Known
<1>3. CASE r # q /\ pc[r] # "idle" /\ (Edits(cmd[r]) \/ cmd[r].op = "delete")
  <2>1. cmd[r].table \in Table /\ cmd[r].id \in 1 .. issued'[cmd[r].table]
    <3>1. cmd[r].table \in Table
      BY <1>3, Tables DEF IInv, Handled
    <3>2. cmd[r].id \in 1 .. issued[cmd[r].table]
      BY <1>3 DEF IInv, Known
    <3> QED
      BY <3>1, <3>2 DEF IInv, Typed
  <2>2. \A p \in Request : \A x \in own'[p].put : Name(x) = <<cmd[r].table, cmd[r].id>> =>
          \E y \in own'[p].gone : Name(y) = Name(x)
    BY <1>1, <1>3 DEF IInv, Known, Nothing
  <2> QED
    BY <1>1, <1>3, <2>1, <2>2 DEF Known
<1>4. CASE r # q /\ ~(pc[r] # "idle" /\ (Edits(cmd[r]) \/ cmd[r].op = "delete"))
  BY <1>1, <1>4 DEF Known
<1> QED
  BY <1>2, <1>3, <1>4

(* A request that fails, or is lost, leaves everything as it was but for   *)
(* an identifier it may have used up.                                      *)
LEMMA FailKeeps ==
  ASSUME IInv, NEW q \in Request, NEW status, End(q, status, db),
         status \in {200, 404, 409, 422, 500, None},
         issued' \in [Table -> Nat], \A t \in Table : issued[t] <= issued'[t], Room'
  PROVE  IInv'
<1>1. Carries(q)
  BY Ended DEF Carries
<1>2. Typed'
  <2>1. \A x \in db' : IsRow(x)'
    BY <1>1, RowsStay DEF IInv, Typed, Carries
  <2>2. \A p \in Request : \A x \in own'[p].put : IsRow(x)'
    <3>1. ASSUME NEW p \in Request, NEW x \in own'[p].put PROVE IsRow(x)
      BY <3>1, Ended DEF IInv, Typed, Nothing
    <3> QED
      BY <3>1, RowsStay
  <2> QED
    BY <2>1, <2>2, Ended DEF Typed
<1>3. Consistent(db') /\ Distinct(db)
  BY <1>1 DEF IInv, Consistent, Carries
<1>4. ASSUME NEW r \in Request
      PROVE  Handled(r)' /\ HasUnit(r)' /\ Owned(r)' /\ Known(r)' /\ Achieved(r)'
  BY <1>1, <1>3, <1>4, OthersStand, Ended, EndKeepsKnown
<1> QED
  BY <1>2, <1>3, <1>4, Ended DEF IInv

(* The commit of one request: what the others see has no repetitions then, *)
(* for what they hold is not what it held.                                 *)
LEMMA CommitStands ==
  ASSUME IInv, NEW q \in Request, NEW status, End(q, status, View(q)),
         status \in {200, 404, 409, 422, 500, None}, issued' = issued,
         NEW r \in Request \ {q}
  PROVE  Handled(r)' /\ HasUnit(r)' /\ Owned(r)' /\ Achieved(r)'
<1>1. /\ db' = (db \ own[q].gone) \cup own[q].put
      /\ pc'[r] = pc[r] /\ cmd'[r] = cmd[r] /\ read'[r] = read[r]
      /\ sent'[r] = sent[r] /\ own'[r] = own[r]
  BY Ended DEF View
<1>2. /\ own[q].gone \subseteq db /\ own[r].gone \subseteq db
      /\ Distinct(View(q)) /\ Distinct(View(r))
      /\ \A x \in own[r].put, y \in db : Name(x) = Name(y) => y \in own[r].gone
      /\ \A x \in own[q].gone : x.table # "unit"
  BY DEF IInv, Owned, HasUnit
<1>3. \A x \in own[q].put \cup own[q].gone, y \in own[r].put \cup own[r].gone :
        Name(x) # Name(y) /\ Key(x) # Key(y)
  BY DEF IInv, Apart, Held
<1>4. View(r)' = (((db \ own[q].gone) \cup own[q].put) \ own[r].gone) \cup own[r].put
  BY <1>1 DEF View
<1>5. View(r)' \subseteq View(r) \cup own[q].put
  BY <1>4 DEF View
<1>6. \A x \in View(r)' : x \in own[r].put \/ x \in View(q)
  BY <1>4 DEF View
<1>7. Distinct(View(r)')
  <2>1. SUFFICES ASSUME NEW x \in View(r)', NEW y \in View(r)',
                        Name(x) = Name(y) \/ Key(x) = Key(y)
                 PROVE  x = y
    BY DEF Distinct
  <2>2. CASE x \in View(r) /\ y \in View(r)
    BY <1>2, <2>1, <2>2 DEF Distinct
  <2>3. CASE x \in View(q) /\ y \in View(q)
    BY <1>2, <2>1, <2>3 DEF Distinct
  <2>4. CASE (x \in own[r].put /\ y \in own[q].put) \/ (x \in own[q].put /\ y \in own[r].put)
    BY <1>3, <2>1, <2>4
  <2>5. (x \in View(r) \/ x \in own[q].put) /\ (y \in View(r) \/ y \in own[q].put)
    BY <1>5, <2>1
  <2>6. (x \in own[r].put \/ x \in View(q)) /\ (y \in own[r].put \/ y \in View(q))
    BY <1>6, <2>1
  <2> QED
    BY <2>2, <2>3, <2>4, <2>5, <2>6 DEF View
<1>8. own[r].gone \subseteq db'
  BY <1>1, <1>2, <1>3
<1>9. \A x \in own[r].put, y \in db' : Name(x) = Name(y) => y \in own[r].gone
  BY <1>1, <1>2, <1>3
<1>10. Dirty(r)' = Dirty(r) /\ Changed(r)' = Changed(r)
  BY <1>1 DEF Dirty, Changed
<1>11. Owned(r)'
  BY <1>1, <1>7, <1>8, <1>9, <1>10 DEF IInv, Owned
<1>12. \A u \in db \cup View(r) : u.table = "unit" => (u \in db => u \in db') /\
                                    (u \in View(r) => u \in View(r)')
  BY <1>1, <1>2, <1>4 DEF View
<1>13. ASSUME NEW n
       PROVE  /\ Find(db, "unit", n) # {} => Find(db', "unit", n) # {}
              /\ Find(View(r), "unit", n) # {} => Find(View(r)', "unit", n) # {}
  BY <1>12 DEF Find
<1>14. HasUnit(r)'
  <2>1. \A x \in own[r].put : x.table = "material" => Find(View(r)', "unit", x.col["unit"]) # {}
    BY <1>13 DEF IInv, HasUnit
  <2>2. pc[r] = "saving" /\ cmd[r].table = "material" =>
          Find(View(r)', "unit", sent[r]["unit"]) # {}
    BY <1>13 DEF IInv, HasUnit
  <2>3. \A x \in own[r].gone : x.table # "unit"
    BY DEF IInv, HasUnit
  <2> QED
    BY <1>1, <2>1, <2>2, <2>3 DEF HasUnit
<1>15. Handled(r)'
  <2>1. Handled(r)
    BY DEF IInv
  <2>2. UnitRead(r) => UnitRead(r)'
    BY <1>1, <1>13 DEF UnitRead
  <2> QED
    BY <1>1, <2>1, <2>2 DEF Handled
<1>16. ASSUME pc[r] = "done", cmd[r].op = "delete", NEW x \in View(r)',
              Find(View(r), cmd[r].table, cmd[r].id) = {},
              x.table = cmd[r].table, x.id = cmd[r].id
       PROVE  FALSE
  <2>1. x \in own[q].put
    BY <1>5, <1>16 DEF Find
  <2>2. PICK y \in own[q].gone : Name(y) = Name(x)
    BY <1>16, <2>1 DEF IInv, Known, Name
  <2>3. y \notin View(r)
    BY <1>16, <2>2 DEF Find, Name
  <2> QED
    BY <1>2, <1>3, <2>2, <2>3 DEF View
<1>17. Achieved(r)'
  <2>1. cmd[r].op = "delete" /\ pc[r] = "done" /\ Find(View(r), cmd[r].table, cmd[r].id) = {}
          => Find(View(r)', cmd[r].table, cmd[r].id) = {}
    BY <1>16 DEF Find
  <2>2. Achieved(r)
    BY DEF IInv
  <2> QED
    BY <1>1, <1>10, <2>1, <2>2 DEF Achieved
<1> QED
  BY <1>11, <1>14, <1>15, <1>17

LEMMA CommitKeeps ==
  ASSUME IInv, NEW q \in Request, NEW status, End(q, status, View(q)),
         status \in {200, 404, 409, 422, 500, None}, issued' = issued, Room'
  PROVE  IInv'
<1>1. db' = View(q) /\ issued' \in [Table -> Nat] /\ \A t \in Table : issued[t] <= issued'[t]
  BY Ended DEF IInv, Typed
<1>2. Typed'
  <2>1. \A x \in db' : IsRow(x)
    BY <1>1 DEF IInv, Typed, View
  <2>2. \A p \in Request : \A x \in own'[p].put : IsRow(x)
    BY Ended DEF IInv, Typed, Nothing
  <2>3. /\ \A x \in db' : IsRow(x)'
        /\ \A p \in Request : \A x \in own'[p].put : IsRow(x)'
    BY <1>1, <2>1, <2>2, RowsStay
  <2> QED
    BY <1>1, <2>3, Ended DEF Typed
<1>3. Consistent(db')
  BY <1>1, SeenUnits DEF IInv, Owned, Consistent
<1>4. ASSUME NEW r \in Request
      PROVE  Handled(r)' /\ HasUnit(r)' /\ Owned(r)' /\ Known(r)' /\ Achieved(r)'
  <2>1. Distinct(View(q))
    BY DEF IInv, Owned
  <2> QED
    BY <1>1, <1>4, <2>1, CommitStands, Ended, EndKeepsKnown
<1> QED
  BY <1>2, <1>3, <1>4, Ended DEF IInv

(* A command is refused at once, or taken up at a stage that suits it.     *)
Takes(q, c, stage, col) ==
  /\ pc' = [pc EXCEPT ![q] = stage] /\ cmd' = [cmd EXCEPT ![q] = c]
  /\ read' = [read EXCEPT ![q] = col] /\ answer' = [answer EXCEPT ![q] = None]
  /\ UNCHANGED <<db, issued, own>>
  /\ Edits(c) \/ c.op = "delete" =>
       \E x \in Find(db, c.table, c.id) : x.col = col
  /\ \/ stage = "deleting" /\ c.op = "delete" /\ UNCHANGED sent
     \/ /\ c.op = "save" /\ sent' = [sent EXCEPT ![q] = Assigned(c, col)]
        /\ \/ stage = "showing" /\ c.via = "form"
           \/ /\ ~IsRefused(c)
              /\ stage = IF c.table = "material" THEN "looking" ELSE "saving"

LEMMA BeginCases ==
  ASSUME NEW q \in Request, NEW c, Begin(q, c)
  PROVE  /\ pc[q] = "idle" /\ HasRoom(c)
         /\ \/ \E status \in {404, 422} :
                 /\ answer' = [answer EXCEPT ![q] = status]
                 /\ UNCHANGED <<db, issued, pc, cmd, read, sent, own>>
            \/ \E stage, col : Takes(q, c, stage, col)
<1> DEFINE found == IF Edits(c) \/ c.op = "delete" THEN Find(db, c.table, c.id) ELSE {}
           col == IF found = {} THEN None ELSE (CHOOSE x \in found : TRUE).col
           absent == found = {} /\ (Edits(c) \/ c.op = "delete")
           Go(stage) == /\ pc' = [pc EXCEPT ![q] = stage]
                        /\ cmd' = [cmd EXCEPT ![q] = c]
                        /\ read' = [read EXCEPT ![q] = col]
                        /\ answer' = [answer EXCEPT ![q] = None]
                        /\ UNCHANGED <<db, issued, own>>
           Answered(status) == /\ answer' = [answer EXCEPT ![q] = status]
                               /\ UNCHANGED <<db, issued, pc, cmd, read, sent, own>>
           Taken == sent' = [sent EXCEPT ![q] = Assigned(c, col)]
<1>1. pc[q] = "idle" /\ HasRoom(c)
  BY DEF Begin
<1>2. ~(found = {} /\ (Edits(c) \/ c.op = "delete")) =>
        (Edits(c) \/ c.op = "delete" => \E x \in Find(db, c.table, c.id) : x.col = col)
  <2>1. SUFFICES ASSUME found # {}, Edits(c) \/ c.op = "delete"
                 PROVE  \E x \in Find(db, c.table, c.id) : x.col = col
    OBVIOUS
  <2>2. (CHOOSE x \in found : TRUE) \in found
    BY <2>1
  <2> QED
    BY <2>1, <2>2
<1>3. CASE Answered(404) \/ Answered(422)
  BY <1>1, <1>3
<1>4. CASE ~absent /\ c.op = "delete" /\ Go("deleting") /\ UNCHANGED sent
  <2>1. Takes(q, c, "deleting", col)
    BY <1>2, <1>4 DEF Takes
  <2> QED
    BY <1>1, <2>1
<1>5. CASE ~absent /\ c.op = "save" /\ c.via = "form" /\ Go("showing") /\ Taken
  <2>1. Takes(q, c, "showing", col)
    BY <1>2, <1>5 DEF Takes
  <2> QED
    BY <1>1, <2>1
<1>6. CASE /\ ~absent /\ c.op = "save" /\ ~IsRefused(c) /\ Taken
           /\ Go(IF c.table = "material" THEN "looking" ELSE "saving")
  <2>1. Takes(q, c, IF c.table = "material" THEN "looking" ELSE "saving", col)
    BY <1>2, <1>6 DEF Takes
  <2> QED
    BY <1>1, <2>1
<1>7. \/ Answered(404) \/ Answered(422)
      \/ ~absent /\ c.op = "delete" /\ Go("deleting") /\ UNCHANGED sent
      \/ ~absent /\ c.op = "save" /\ c.via = "form" /\ Go("showing") /\ Taken
      \/ /\ ~absent /\ c.op = "save" /\ ~IsRefused(c) /\ Taken
         /\ Go(IF c.table = "material" THEN "looking" ELSE "saving")
  BY ZenonT(60) DEF Begin, KeepsSession
<1> HIDE DEF absent, Go, Answered, Taken
<1> QED
  BY <1>3, <1>4, <1>5, <1>6, <1>7

LEMMA TakesKeepsRoom ==
  ASSUME IInv, NEW q \in Request, pc[q] = "idle", NEW c \in Asked, HasRoom(c),
         NEW stage, NEW col, Takes(q, c, stage, col)
  PROVE  Room'
<1>1. SUFFICES ASSUME NEW t \in Table
               PROVE  issued[t] + Cardinality(Pending(t)') <= MaxId
  BY DEF Room, Takes
<1>2. /\ cmd'[q] = c
      /\ \A p \in Request \ {q} : pc'[p] = pc[p] /\ cmd'[p] = cmd[p]
  BY DEF Takes, IInv, Typed
<1>3. CASE ~MayInsert(c, t)
  <2>1. Pending(t)' \subseteq Pending(t)
    BY <1>2, <1>3 DEF Pending
  <2>2. IsFiniteSet(Pending(t))
    BY SlotsAssumption, FS_Subset DEF Pending
  <2>3. /\ Cardinality(Pending(t)) \in Nat /\ Cardinality(Pending(t)') \in Nat
        /\ Cardinality(Pending(t)') <= Cardinality(Pending(t))
    BY <2>1, <2>2, FS_Subset, FS_CardinalityType
  <2>4. issued[t] \in Nat /\ issued[t] + Cardinality(Pending(t)) <= MaxId
    BY DEF IInv, Typed, Room
  <2> QED
    BY <2>3, <2>4, MaxIdAssumption
<1>4. CASE MayInsert(c, t)
  <2> DEFINE busy == {p \in Request : pc[p] # "idle" /\ MayInsert(cmd[p], t)}
  <2>1. Pending(t)' \subseteq busy \cup {q}
    BY <1>2 DEF Pending
  <2>2. IsFiniteSet(busy) /\ IsFiniteSet(busy \cup {q}) /\ q \notin busy
    BY SlotsAssumption, FS_Subset
  <2>3. /\ Cardinality(busy) \in Nat /\ Cardinality(Pending(t)') \in Nat
        /\ Cardinality(Pending(t)') <= Cardinality(busy \cup {q})
    BY <2>1, <2>2, FS_Subset, FS_CardinalityType
  <2>4. Cardinality(busy \cup {q}) = Cardinality(busy) + 1
    BY <2>2, FS_AddElement
  <2>5. issued[t] \in Nat /\ issued[t] + Cardinality(busy) < MaxId
    BY <1>4 DEF IInv, Typed, HasRoom
  <2> HIDE DEF busy
  <2> QED
    BY <2>3, <2>4, <2>5, MaxIdAssumption
<1> QED
  BY <1>3, <1>4

LEMMA BeginKeeps ==
  ASSUME IInv, NEW q \in Request, NEW c \in Asked, Begin(q, c)
  PROVE  IInv'
<1>1. pc[q] = "idle" /\ HasRoom(c) /\ own[q] = Nothing
  BY BeginCases DEF IInv, Handled
<1>2. ASSUME NEW status \in {404, 422}, answer' = [answer EXCEPT ![q] = status],
             UNCHANGED <<db, issued, pc, cmd, read, sent, own>>
      PROVE  IInv'
  <2>1. Typed'
    BY <1>2 DEF IInv, Typed, IsRow
  <2>2. Room' /\ Consistent(db') /\ Apart'
    <3>1. \A t \in Table : Pending(t)' = Pending(t)
      BY <1>2 DEF Pending
    <3>2. \A p \in Request : Held(p)' = Held(p)
      BY <1>2 DEF Held
    <3>. QED  BY <1>2, <3>1, <3>2 DEF IInv, Room, Apart
  <2>3. ASSUME NEW r \in Request
        PROVE  Handled(r)' /\ HasUnit(r)' /\ Owned(r)' /\ Known(r)' /\ Achieved(r)'
    <3>1. View(r)' = View(r) /\ Dirty(r)' = Dirty(r) /\ Changed(r)' = Changed(r)
      BY <1>2 DEF View, Dirty, Changed
    <3>2. Handled(r)'
      BY <1>2 DEF IInv, Handled, UnitRead
    <3>3. HasUnit(r)'
      BY <1>2, <3>1 DEF IInv, HasUnit
    <3>4. Owned(r)'
      BY <1>2, <3>1 DEF IInv, Owned
    <3>5. Known(r)'
      BY <1>2 DEF IInv, Known
    <3>6. Achieved(r)'
      BY <1>2, <3>1 DEF IInv, Achieved
    <3> QED
      BY <3>2, <3>3, <3>4, <3>5, <3>6
  <2> QED
    BY <2>1, <2>2, <2>3 DEF IInv
<1>3. ASSUME NEW stage, NEW col, Takes(q, c, stage, col)
      PROVE  IInv'
  <2>1. /\ pc'[q] = stage /\ cmd'[q] = c /\ read'[q] = col /\ own'[q] = Nothing
        /\ db' = db /\ issued' = issued /\ own' = own
        /\ c.op = "save" => sent'[q] = Assigned(c, col)
        /\ \A p \in Request \ {q} :
             pc'[p] = pc[p] /\ cmd'[p] = cmd[p] /\ read'[p] = read[p] /\ sent'[p] = sent[p]
    BY <1>1, <1>3 DEF Takes, IInv, Typed
  <2>2. stage \in {"deleting", "showing", "looking", "saving"} /\ c.op \in {"save", "delete"}
        /\ c.table \in {"supplier", "material"}
    BY <1>3, AskedAssumption DEF Takes
  <2>3. Carries(q)
    BY <2>1 DEF Carries, IInv, Typed
  <2>4. Typed'
    <3>1. \A x : IsRow(x)' <=> IsRow(x)
      BY <2>1 DEF IsRow
    <3>2. pc' \in [Request -> Stage] /\ cmd' \in [Request -> Asked \cup {None}]
          /\ answer' \in [Request -> {200, 404, 409, 422, 500, None}]
      BY <1>3, <2>2 DEF Takes, IInv, Typed, Stage
    <3>3. /\ read' = [p \in Request |-> read'[p]] /\ sent' = [p \in Request |-> sent'[p]]
          /\ own' = [p \in Request |-> [put |-> own'[p].put, gone |-> own'[p].gone]]
      BY <1>3 DEF Takes, IInv, Typed
    <3>4. issued' \in [Table -> Nat] /\ (\A x \in db' : IsRow(x))
          /\ \A p \in Request : \A x \in own'[p].put : IsRow(x)
      BY <2>1 DEF IInv, Typed
    <3> QED
      BY <3>1, <3>2, <3>3, <3>4 DEF Typed
  <2>5. Consistent(db') /\ Apart' /\ Distinct(db)
    BY <2>1 DEF IInv, Apart, Held, Consistent
  <2>6. own'[q].put = {} /\ own'[q].gone = {} /\ View(q)' = db
    BY <2>1 DEF Nothing, View
  <2>7. Owned(q)' /\ Achieved(q)'
    BY <2>1, <2>2, <2>5, <2>6 DEF Owned, Achieved
  <2>8. HasUnit(q)'
    BY <1>3, <2>1, <2>2, <2>6 DEF HasUnit, Takes
  <2>9. Handled(q)'
    <3>1. /\ c.op = "save" => DOMAIN sent'[q] = Columns(c.table)
          /\ c.op = "save" /\ stage # "showing" =>
               \A f \in DOMAIN c.col : sent'[q][f] = c.col[f]
      BY <1>3, <2>1, <2>2, FieldsAreColumns DEF Assigned, Takes
    <3>2. Edits(c) /\ c.table = "material" => UnitRead(q)'
      <4>1. SUFFICES ASSUME Edits(c), c.table = "material" PROVE UnitRead(q)'
        OBVIOUS
      <4>2. PICK x \in db : x.table = "material" /\ x.col = col
        BY <1>3, <4>1 DEF Takes, Find
      <4>3. Find(db, "unit", col["unit"]) # {}
        BY <4>2 DEF IInv, Consistent
      <4>4. sent'[q]["unit"] = col["unit"]
        BY <2>1, <4>1, FieldsAreColumns DEF Assigned, Columns, Edits
      <4> QED
        BY <2>1, <4>3, <4>4 DEF UnitRead
    <3> QED
      BY <1>3, <2>1, <2>2, <2>6, <3>1, <3>2 DEF Handled, Takes
  <2>10. ASSUME NEW r \in Request
         PROVE  Known(r)'
    <3>1. CASE r # q
      BY <2>1, <3>1 DEF IInv, Known
    <3>2. CASE r = q
      <4>1. SUFFICES ASSUME Edits(c) \/ c.op = "delete"
                     PROVE  /\ c.id \in 1 .. issued[c.table]
                            /\ \A p \in Request : \A x \in own[p].put :
                                 Name(x) = <<c.table, c.id>> =>
                                   \E y \in own[p].gone : Name(y) = Name(x)
        BY <2>1, <3>2 DEF Known
      <4>2. PICK x \in db : x.table = c.table /\ x.id = c.id
        BY <1>3, <4>1 DEF Takes, Find
      <4>3. c.id \in 1 .. issued[c.table]
        BY <4>2 DEF IInv, Typed, IsRow
      <4> QED
        BY <4>2, <4>3 DEF IInv, Owned, Name
    <3> QED
      BY <3>1, <3>2
  <2>11. ASSUME NEW r \in Request
         PROVE  Handled(r)' /\ HasUnit(r)' /\ Owned(r)' /\ Known(r)' /\ Achieved(r)'
    BY <2>3, <2>7, <2>8, <2>9, <2>10, <2>11, OthersStand
  <2> QED
    BY <1>1, <1>3, <2>4, <2>5, <2>11, TakesKeepsRoom DEF IInv
<1> QED
  BY <1>2, <1>3, BeginCases

-----------------------------------------------------------------------------
(* A flush keeps the invariant, if the request is then where its command   *)
(* and its object allow, and the next identifier was to be had.            *)
LEMMA FlushKeeps ==
  ASSUME IInv, NEW q \in Request, NEW stage \in Stage \ {"idle"}, pc[q] # "idle",
         Flush(q, stage), Blockers(q) = {}, Carries(q), Room', answer' = answer,
         sent' = [p \in Request |-> sent'[p]],
         Flushable(q) \/ pc[q] = "deleting",
         Edits(cmd[q]) =>
           \A f \in Dirty(q) : f \in DOMAIN sent'[q] /\ sent'[q][f] = sent[q][f],
         \A x \in New(q) : x.id <= issued'[x.table],
         Handled(q)', Achieved(q)',
         stage = "saving" /\ cmd[q].table = "material" =>
           Find(View(q)', "unit", sent'[q]["unit"]) # {}
  PROVE  IInv'
<1>1. db' = db /\ cmd' = cmd /\ read' = read /\ pc' = [pc EXCEPT ![q] = stage]
  BY DEF Flush
<1>2. pc' \in [Request -> Stage] /\ pc'[q] = stage
  BY <1>1 DEF IInv, Typed
<1>3. Typed'
  BY <1>1, <1>2, FlushKeepsRows, ViewAfterFlush DEF IInv, Typed, Carries
<1>4. Consistent(db') /\ Apart'
  BY <1>1, FlushKeepsApart DEF IInv
<1>5. HasUnit(q)'
  BY <1>1, <1>2, FlushKeepsUnits DEF HasUnit
<1>6. ASSUME NEW r \in Request
      PROVE  Handled(r)' /\ HasUnit(r)' /\ Owned(r)' /\ Known(r)' /\ Achieved(r)'
  <2>1. CASE r = q
    BY <1>5, <2>1, FlushKeepsOwned, FlushKeepsKnown
  <2>2. CASE r # q
    BY <2>2, OthersStand, FlushKeepsKnown
  <2> QED
    BY <2>1, <2>2
<1> QED
  BY <1>3, <1>4, <1>6 DEF IInv

(* A step that issues no identifier, on to a stage that asks for none.     *)
LEMMA SmallSteps ==
  ASSUME IInv, NEW q \in Request, issued' = issued, cmd' = cmd \/ pc'[q] = "idle",
         \A p \in Request \ {q} : pc'[p] = pc[p] /\ cmd'[p] = cmd[p],
         \/ pc'[q] \in {"idle", "done", "shown"}
         \/ pc[q] = "looking" /\ pc'[q] \in {"entering", "saving"}
  PROVE  Room'
<1>1. ASSUME NEW t \in Table
      PROVE  Pending(t)' \subseteq Pending(t)
  BY DEF Pending, MayInsert, Creates
<1> QED
  BY <1>1, RoomKept

LEMMA FlushCarries ==
  ASSUME IInv, NEW q \in Request, NEW stage, Flush(q, stage),
         issued' \in [Table -> Nat], \A t \in Table : issued[t] <= issued'[t],
         \A p \in Request \ {q} : sent'[p] = sent[p]
  PROVE  Carries(q)
<1>1. \A p \in Request \ {q} : pc'[p] = pc[p] /\ own'[p] = own[p]
  BY DEF Flush, IInv, Typed
<1> QED
  BY <1>1 DEF Flush, Carries

(* The rows a flush puts in have issued identifiers, unless it inserts.    *)
LEMMA NewIssued ==
  ASSUME IInv, NEW q \in Request, pc[q] # "idle", issued' = issued,
         pc[q] # "entering", ~(pc[q] = "saving" /\ Creates(cmd[q]))
  PROVE  \A x \in New(q) : x.id <= issued'[x.table]
<1>1. \A x \in New(q) : \E y \in Old(q) : x.table = y.table /\ x.id = y.id /\ IsRow(y)
  BY NewRows, OldRows DEF IsFresh, Revises
<1> QED
  BY <1>1 DEF IsRow, IInv, Typed

LEMMA FailSmall ==
  ASSUME IInv, NEW q \in Request, NEW status, Fail(q, status),
         status \in {200, 404, 409, 422, 500, None}
  PROVE  IInv'
<1>1. /\ issued' \in [Table -> Nat] /\ issued' = issued
      /\ \A t \in Table : issued[t] <= issued'[t]
  BY DEF Fail, IInv, Typed
<1>2. Room'
  BY <1>1, Ended, SmallSteps DEF Fail
<1> QED
  BY <1>1, <1>2, FailKeeps DEF Fail

(* services.py:178-193, the lookup of the unit. *)
LEMMA LookKeeps ==
  ASSUME IInv, NEW q \in Request, Look(q)
  PROVE  IInv'
<1> DEFINE c == cmd[q]
           units == {x \in View(q) : x.table = "unit" /\
                      IF c.via = "form" THEN x.col["okei"] = c.unit ELSE x.id = c.unit}
           loaded == c.via = "api" /\ Edits(c) /\ read[q]["unit"] = c.unit
<1>1. /\ pc[q] = "looking" /\ c \in Asked /\ c.op = "save" /\ c.table = "material"
      /\ DOMAIN sent[q] = Columns("material") /\ c.via \in {"api", "form"}
      /\ (Edits(c) => UnitRead(q))
      /\ \A f \in DOMAIN c.col : sent[q][f] = c.col[f]
  BY AskedAssumption DEF Look, IInv, Handled
<1>2. CASE \E status \in {422, 500} : Fail(q, status)
  BY <1>2, FailSmall
<1>3. CASE /\ Blockers(q) = {} /\ Flushable(q) /\ c.via = "form"
           /\ Flush(q, "entering") /\ UNCHANGED <<issued, sent, answer>>
  <2>1. Carries(q)
    BY <1>3, FlushCarries DEF IInv, Typed
  <2>2. pc'[q] = "entering" /\ cmd' = cmd /\ read' = read /\ db' = db
    BY <1>3 DEF Flush, IInv, Typed
  <2>3. Room'
    BY <1>1, <1>3, <2>1, <2>2, SmallSteps DEF Carries
  <2>4. Handled(q)' /\ Achieved(q)'
    BY <1>1, <1>3, <2>2 DEF Handled, Achieved, UnitRead
  <2>5. \A x \in New(q) : x.id <= issued'[x.table]
    BY <1>1, <1>3, NewIssued
  <2>6. \A f \in Dirty(q) : f \in DOMAIN sent'[q] /\ sent'[q][f] = sent[q][f]
    BY <1>3 DEF Dirty
  <2> QED
    BY <1>1, <1>3, <2>1, <2>3, <2>4, <2>5, <2>6, FlushKeeps DEF Stage, IInv, Typed
<1>4. ASSUME Blockers(q) = {}, Flushable(q), NEW u \in units,
             sent' = [sent EXCEPT ![q]["unit"] = u.id],
             Flush(q, "saving"), UNCHANGED <<issued, answer>>
      PROVE  IInv'
  <2>1. /\ sent' = [p \in Request |-> sent'[p]] /\ \A p \in Request \ {q} : sent'[p] = sent[p]
        /\ sent'[q] = [sent[q] EXCEPT !["unit"] = u.id]
    BY <1>4 DEF IInv, Typed
  <2>2. /\ DOMAIN sent'[q] = Columns("material") /\ sent'[q]["unit"] = u.id
        /\ \A f \in Columns("material") \ {"unit"} : sent'[q][f] = sent[q][f]
    BY <1>1, <2>1 DEF Columns
  <2>3. Carries(q)
    BY <1>4, <2>1, FlushCarries DEF IInv, Typed
  <2>4. pc'[q] = "saving" /\ cmd' = cmd /\ read' = read /\ db' = db
    BY <1>4 DEF Flush, IInv, Typed
  <2>5. Room'
    BY <1>1, <1>4, <2>3, <2>4, SmallSteps DEF Carries
  <2>6. Handled(q)' /\ Achieved(q)'
    BY <1>1, <2>2, <2>4, FieldsAreColumns DEF Handled, Achieved, UnitRead
  <2>7. \A x \in New(q) : x.id <= issued'[x.table]
    BY <1>1, <1>4, NewIssued
  <2>8. Edits(c) => \A f \in Dirty(q) : f \in DOMAIN sent'[q] /\ sent'[q][f] = sent[q][f]
    BY <1>1, <2>2 DEF Dirty, UnitRead
  <2>9. Find(View(q)', "unit", sent'[q]["unit"]) # {}
    BY <1>1, <1>4, <2>2, FlushKeepsUnits DEF Find
  <2> QED
    BY <1>1, <1>4, <2>1, <2>3, <2>5, <2>6, <2>7, <2>8, <2>9, FlushKeeps DEF Stage
<1>5. CASE loaded /\ pc' = [pc EXCEPT ![q] = "saving"]
           /\ UNCHANGED <<db, issued, cmd, read, sent, own, answer>>
  <2>1. /\ pc'[q] = "saving" /\ \A p \in Request \ {q} : pc'[p] = pc[p]
        /\ pc' \in [Request -> Stage]
    BY <1>5 DEF IInv, Typed, Stage
  <2>2. Carries(q)
    BY <1>5, <2>1 DEF Carries, IInv, Typed
  <2>3. Room'
    BY <1>1, <1>5, <2>1, SmallSteps
  <2>4. Typed' /\ Consistent(db') /\ Apart'
    <3>1. Typed'
      BY <1>5, <2>1 DEF IInv, Typed, IsRow
    <3>2. Consistent(db') /\ Apart'
      BY <1>5 DEF IInv, Apart, Held
    <3> QED
      BY <3>1, <3>2
  <2>5. View(q)' = View(q) /\ Dirty(q)' = Dirty(q)
    BY <1>5 DEF View, Dirty
  <2>6. Handled(q)' /\ Achieved(q)' /\ Owned(q)'
    <3>1. Handled(q)'
      BY <1>1, <1>5, <2>1 DEF Handled, UnitRead
    <3>2. Achieved(q)'
      BY <2>1 DEF Achieved
    <3>3. Owned(q)'
      BY <1>1, <1>5, <2>1, <2>5 DEF IInv, Owned
    <3> QED
      BY <3>1, <3>2, <3>3
  <2>7. HasUnit(q)'
    <3>1. Find(View(q), "unit", sent[q]["unit"]) # {}
      <4>1. PICK u \in db : u.table = "unit" /\ u.id = sent[q]["unit"]
        BY <1>1, <1>5 DEF UnitRead, Find
      <4> QED
        BY <4>1 DEF IInv, HasUnit, Find, View
    <3> QED
      BY <1>5, <2>1, <2>5, <3>1 DEF IInv, HasUnit
  <2>8. ASSUME NEW r \in Request
        PROVE  Known(r)'
    BY <1>1, <1>5, <2>1 DEF IInv, Known
  <2>9. ASSUME NEW r \in Request
        PROVE  Handled(r)' /\ HasUnit(r)' /\ Owned(r)' /\ Achieved(r)'
    BY <2>2, <2>6, <2>7, <2>9, OthersStand
  <2> QED
    BY <2>3, <2>4, <2>8, <2>9 DEF IInv
<1>6. \/ \E status \in {422, 500} : Fail(q, status)
      \/ /\ Blockers(q) = {} /\ Flushable(q) /\ c.via = "form"
         /\ Flush(q, "entering") /\ UNCHANGED <<issued, sent, answer>>
      \/ /\ Blockers(q) = {} /\ Flushable(q)
         /\ \E u \in units : sent' = [sent EXCEPT ![q]["unit"] = u.id]
         /\ Flush(q, "saving") /\ UNCHANGED <<issued, answer>>
      \/ /\ loaded /\ pc' = [pc EXCEPT ![q] = "saving"]
         /\ UNCHANGED <<db, issued, cmd, read, sent, own, answer>>
  BY DEF Look, FlushFails
<1> HIDE DEF units, loaded, c
<1> QED
  BY <1>2, <1>3, <1>4, <1>5, <1>6

(* An identifier is issued to the request that had room for it. *)
LEMMA SpendKeepsRoom ==
  ASSUME IInv, NEW q \in Request, NEW u \in Table, Spend(u),
         cmd' = cmd \/ pc'[q] = "idle",
         \A p \in Request \ {q} : pc'[p] = pc[p] /\ cmd'[p] = cmd[p],
         \/ /\ pc[q] = "entering" /\ u = "unit"
            /\ pc'[q] \in {"idle", "saving"}
         \/ /\ pc[q] = "saving" /\ Creates(cmd[q]) /\ u = cmd[q].table
            /\ pc'[q] \in {"idle", "done"}
  PROVE  Room' /\ issued' \in [Table -> Nat] /\ issued'[u] = issued[u] + 1
               /\ \A t \in Table : issued[t] <= issued'[t]
<1>1. cmd[q] \in Asked /\ (pc[q] = "entering" =>
        cmd[q].op = "save" /\ cmd[q].table = "material" /\ cmd[q].via = "form")
  BY DEF IInv, Handled
<1>2. q \in Pending(u)
  BY <1>1, Tables DEF Pending, MayInsert
<1>3. q \notin Pending(u)'
  BY <1>1 DEF Pending
<1>4. ASSUME NEW t \in Table
      PROVE  Pending(t)' \subseteq Pending(t)
  BY DEF Pending, MayInsert, Creates
<1> QED
  BY <1>2, <1>3, <1>4, RoomSpent

(* services.py:181-184, the unit the form enters. *)
LEMMA EnterKeeps ==
  ASSUME IInv, NEW q \in Request, Enter(q)
  PROVE  IInv'
<1>1. /\ pc[q] = "entering" /\ Blockers(q) = {} /\ Spend("unit") /\ "unit" \in Table
      /\ cmd[q] \in Asked /\ cmd[q].op = "save" /\ cmd[q].table = "material"
      /\ DOMAIN sent[q] = Columns("material")
      /\ (Edits(cmd[q]) => UnitRead(q))
      /\ \A f \in DOMAIN cmd[q].col : sent[q][f] = cmd[q].col[f]
  BY DEF Enter, Ready, IInv, Handled, Table
<1>2. CASE End(q, 500, db)
  BY <1>1, <1>2, Ended, SpendKeepsRoom, FailKeeps
<1>3. CASE /\ Flushable(q) /\ sent' = [sent EXCEPT ![q]["unit"] = issued["unit"] + 1]
           /\ Flush(q, "saving") /\ UNCHANGED answer
  <2>1. /\ sent' = [p \in Request |-> sent'[p]] /\ \A p \in Request \ {q} : sent'[p] = sent[p]
        /\ sent'[q] = [sent[q] EXCEPT !["unit"] = issued["unit"] + 1]
    BY <1>3 DEF IInv, Typed
  <2>2. /\ DOMAIN sent'[q] = Columns("material") /\ sent'[q]["unit"] = issued["unit"] + 1
        /\ \A f \in Columns("material") \ {"unit"} : sent'[q][f] = sent[q][f]
    BY <1>1, <2>1 DEF Columns
  <2>3. /\ pc'[q] = "saving" /\ cmd' = cmd /\ read' = read /\ db' = db
        /\ \A p \in Request \ {q} : pc'[p] = pc[p]
    BY <1>3 DEF Flush, IInv, Typed
  <2>4. Room' /\ issued' \in [Table -> Nat] /\ issued'["unit"] = issued["unit"] + 1
              /\ \A t \in Table : issued[t] <= issued'[t]
    BY <1>1, <2>3, SpendKeepsRoom
  <2>5. Carries(q)
    BY <1>3, <2>1, <2>4, FlushCarries
  <2>6. Handled(q)' /\ Achieved(q)'
    BY <1>1, <2>2, <2>3, FieldsAreColumns DEF Handled, Achieved, UnitRead
  <2>7. \A x \in New(q) : x.id <= issued'[x.table]
    <3>1. \A x \in New(q) : x.id = issued["unit"] + 1 /\ x.table = "unit"
      BY <1>1, NewRows DEF IsFresh, Revises, Updates
    <3> QED
      BY <1>1, <2>4, <3>1 DEF IInv, Typed
  <2>8. Edits(cmd[q]) => \A f \in Dirty(q) : f \in DOMAIN sent'[q] /\ sent'[q][f] = sent[q][f]
    BY <1>1, <2>2 DEF Dirty, UnitRead
  <2>9. Find(View(q)', "unit", sent'[q]["unit"]) # {}
    BY <1>1, <1>3, <2>2, NewRows, ViewAfterFlush DEF Find
  <2> QED
    BY <1>1, <1>3, <2>1, <2>4, <2>5, <2>6, <2>7, <2>8, <2>9, FlushKeeps DEF Stage
<1> QED
  BY <1>2, <1>3 DEF Enter

(* services.py:25-33, _save. *)
LEMMA SaveAchieves ==
  ASSUME IInv, NEW q \in Request, pc[q] = "saving", Flushable(q),
         Flush(q, "done"), sent' = sent
  PROVE  Achieved(q)'
<1>1. /\ cmd[q] \in Asked /\ cmd[q].op = "save"
      /\ DOMAIN sent[q] = Columns(cmd[q].table)
      /\ \A f \in DOMAIN cmd[q].col : sent[q][f] = cmd[q].col[f]
      /\ DOMAIN cmd[q].col \subseteq Columns(cmd[q].table)
  BY FieldsAreColumns DEF IInv, Handled
<1>2. cmd' = cmd /\ read' = read /\ Changed(q)' = Changed(q) /\ New(q) \subseteq own'[q].put
  BY ViewAfterFlush DEF Flush, Changed
<1>3. CASE Creates(cmd[q])
  <2>1. PICK x \in New(q) : x.table = cmd[q].table /\ x.col = sent[q]
    BY <1>1, <1>3, NewRows, Tables DEF IsFresh, Revises, Updates
  <2>2. \A f \in DOMAIN cmd[q].col : x.col[f] = cmd[q].col[f]
    BY <1>1, <2>1
  <2> QED
    BY <1>1, <1>2, <1>3, <2>1, <2>2 DEF Achieved
<1>4. CASE Edits(cmd[q]) /\ Changed(q) # {}
  <2>1. Changed(q) \subseteq Dirty(q)
    BY <1>1 DEF Changed, Dirty
  <2>2. Updates(q) /\ Old(q) # {}
    BY <1>4, <2>1 DEF Updates, Flushable, Stale
  <2>3. PICK y \in Old(q), x \in New(q) : Revises(q, x, y)
    BY <2>2, NewRows
  <2>4. Name(x) = <<cmd[q].table, cmd[q].id>> /\ DOMAIN y.col = Columns(cmd[q].table)
    BY <2>3, OldRows DEF Revises, IsRow, Name
  <2>5. \A f \in Changed(q) : x.col[f] = cmd[q].col[f]
    BY <1>1, <2>1, <2>3, <2>4 DEF Revises, Dirty, Changed
  <2> QED
    BY <1>1, <1>2, <1>4, <2>3, <2>4, <2>5 DEF Achieved
<1>5. CASE ~Creates(cmd[q]) /\ ~(Edits(cmd[q]) /\ Changed(q) # {})
  BY <1>1, <1>2, <1>5 DEF Achieved
<1> QED
  BY <1>3, <1>4, <1>5

LEMMA SaveKeeps ==
  ASSUME IInv, NEW q \in Request, Save(q)
  PROVE  IInv'
<1>1. /\ pc[q] = "saving" /\ Blockers(q) = {} /\ cmd[q] \in Asked /\ cmd[q].op = "save"
      /\ cmd[q].table \in Table
      /\ IF Creates(cmd[q]) THEN Spend(cmd[q].table) ELSE issued' = issued
  BY Tables DEF Save, Ready, IInv, Handled
<1>2. ASSUME pc'[q] \in {"idle", "done"}, cmd' = cmd \/ pc'[q] = "idle",
             \A p \in Request \ {q} : pc'[p] = pc[p] /\ cmd'[p] = cmd[p]
      PROVE  /\ Room' /\ issued' \in [Table -> Nat] /\ \A t \in Table : issued[t] <= issued'[t]
             /\ Creates(cmd[q]) => issued'[cmd[q].table] = issued[cmd[q].table] + 1
  <2>1. CASE Creates(cmd[q])
    BY <1>1, <1>2, <2>1, SpendKeepsRoom
  <2>2. CASE ~Creates(cmd[q])
    BY <1>1, <1>2, <2>2, SmallSteps DEF IInv, Typed
  <2> QED
    BY <2>1, <2>2
<1>3. ASSUME NEW status \in {409, 500}, End(q, status, db)
      PROVE  IInv'
  BY <1>2, <1>3, Ended, FailKeeps
<1>4. CASE Flushable(q) /\ Flush(q, "done") /\ UNCHANGED <<sent, answer>>
  <2>1. /\ pc'[q] = "done" /\ cmd' = cmd /\ read' = read /\ db' = db
        /\ \A p \in Request \ {q} : pc'[p] = pc[p]
    BY <1>4 DEF Flush, IInv, Typed
  <2>2. /\ Room' /\ issued' \in [Table -> Nat] /\ \A t \in Table : issued[t] <= issued'[t]
        /\ Creates(cmd[q]) => issued'[cmd[q].table] = issued[cmd[q].table] + 1
    BY <1>2, <2>1
  <2>3. Carries(q)
    BY <1>4, <2>2, FlushCarries
  <2>4. Handled(q)'
    BY <1>1, <1>4, <2>1 DEF IInv, Handled, UnitRead
  <2>5. Achieved(q)'
    BY <1>1, <1>4, SaveAchieves
  <2>6. \A x \in New(q) : x.id <= issued'[x.table]
    <3>1. CASE Creates(cmd[q])
      <4>1. \A x \in New(q) : IsFresh(q, x) /\ x.table = cmd[q].table
        BY <1>1, <3>1, NewRows, OldRows DEF IsFresh
      <4> QED
        BY <2>2, <3>1, <4>1, <1>1 DEF IsFresh, IInv, Typed
    <3>2. CASE ~Creates(cmd[q])
      BY <1>1, <3>2, NewIssued
    <3> QED
      BY <3>1, <3>2
  <2>7. \A f \in Dirty(q) : f \in DOMAIN sent'[q] /\ sent'[q][f] = sent[q][f]
    BY <1>4 DEF Dirty
  <2> QED
    BY <1>1, <1>4, <2>2, <2>3, <2>4, <2>5, <2>6, <2>7, FlushKeeps DEF Stage, IInv, Typed
<1> QED
  BY <1>3, <1>4 DEF Save

(* The page of a refused form, and a deletion: a flush and nothing else.   *)
LEMMA ShowKeeps ==
  ASSUME IInv, NEW q \in Request, Show(q)
  PROVE  IInv'
<1>1. /\ pc[q] = "showing" /\ Blockers(q) = {} /\ cmd[q] \in Asked
      /\ cmd[q].op = "save" /\ cmd[q].via = "form"
  BY DEF Show, Ready, IInv, Handled
<1>2. CASE Fail(q, 500)
  BY <1>2, FailSmall
<1>3. CASE Flushable(q) /\ Flush(q, "shown") /\ UNCHANGED <<issued, sent, answer>>
  <2>1. /\ pc'[q] = "shown" /\ cmd' = cmd /\ read' = read /\ db' = db
        /\ \A p \in Request \ {q} : pc'[p] = pc[p]
    BY <1>3 DEF Flush, IInv, Typed
  <2>2. Carries(q)
    BY <1>3, FlushCarries DEF IInv, Typed
  <2>3. Room'
    BY <1>3, <2>1, SmallSteps
  <2>4. Handled(q)' /\ Achieved(q)'
    BY <1>1, <1>3, <2>1 DEF IInv, Handled, UnitRead, Achieved
  <2>5. \A x \in New(q) : x.id <= issued'[x.table]
    BY <1>1, <1>3, NewIssued
  <2>6. \A f \in Dirty(q) : f \in DOMAIN sent'[q] /\ sent'[q][f] = sent[q][f]
    BY <1>3 DEF Dirty
  <2> QED
    BY <1>1, <1>3, <2>2, <2>3, <2>4, <2>5, <2>6, FlushKeeps DEF Stage, IInv, Typed
<1> QED
  BY <1>2, <1>3 DEF Show, FlushFails

LEMMA DeleteKeeps ==
  ASSUME IInv, NEW q \in Request, Delete(q)
  PROVE  IInv'
<1>1. /\ pc[q] = "deleting" /\ Blockers(q) = {} /\ cmd[q] \in Asked /\ cmd[q].op = "delete"
      /\ Flush(q, "done") /\ UNCHANGED <<issued, sent, answer>>
  BY DEF Delete, Ready, IInv, Handled
<1>2. /\ pc'[q] = "done" /\ cmd' = cmd /\ read' = read /\ db' = db
      /\ \A p \in Request \ {q} : pc'[p] = pc[p]
  BY <1>1 DEF Flush, IInv, Typed
<1>3. Carries(q)
  BY <1>1, FlushCarries DEF IInv, Typed
<1>4. Room'
  BY <1>1, <1>2, SmallSteps
<1>5. New(q) = {} /\ own'[q].put = {}
  BY <1>1, NewRows, ViewAfterFlush DEF IInv, Handled
<1>6. Handled(q)'
  BY <1>1, <1>2, <1>5, Tables DEF Handled
<1>7. Achieved(q)'
  <2>1. View(q)' = View(q) \ Find(View(q), cmd[q].table, cmd[q].id)
    BY <1>1, <1>5, ViewAfterFlush DEF Old
  <2>2. Find(View(q)', cmd[q].table, cmd[q].id) = {}
    BY <2>1 DEF Find
  <2> QED
    BY <1>1, <1>2, <2>2 DEF Achieved
<1>8. \A f \in Dirty(q) : f \in DOMAIN sent'[q] /\ sent'[q][f] = sent[q][f]
  BY <1>1 DEF Dirty
<1> QED
  BY <1>1, <1>3, <1>4, <1>5, <1>6, <1>7, <1>8, FlushKeeps DEF Stage, IInv, Typed

LEMMA CommitStepKeeps ==
  ASSUME IInv, NEW q \in Request, Commit(q)
  PROVE  IInv'
<1>1. PICK status \in {200, 422} : End(q, status, View(q))
  BY DEF Commit
<1>2. issued' = issued
  BY DEF Commit
<1>3. Room'
  BY <1>1, <1>2, Ended, SmallSteps
<1> QED
  BY <1>1, <1>2, <1>3, CommitKeeps


(* Every table starts with the identifiers its rows have.                  *)
LEMMA Issuable ==
  ASSUME NEW d \in Start, NEW t \in Table
  PROVE  \E n \in 0 .. MaxId : /\ \A x \in d : x.table = t => x.id <= n
                               /\ n = 0 \/ Find(d, t, n) # {}
<1> DEFINE bounds == {n \in 0 .. MaxId : \A x \in d : x.table = t => x.id <= n}
<1>1. \A x \in d : x.id \in 1 .. MaxId
  BY StartAssumption DEF Id
<1>2. MaxId \in bounds /\ bounds \subseteq Nat
  BY <1>1, MaxIdAssumption
<1>3. PICK n \in bounds : \A m \in Nat : m < n => m \notin bounds
  <2>1. \E n \in bounds : \A m \in bounds : ~(<<m, n>> \in OpToRel(<, Nat))
    BY <1>2, WFMin, NatLessThanWellFounded
  <2> QED
    BY <1>2, <2>1 DEF OpToRel
<1>4. ASSUME n # 0, Find(d, t, n) = {}
      PROVE  FALSE
  <2>1. n - 1 \in bounds
    BY <1>1, <1>3, <1>4, MaxIdAssumption DEF Find
  <2> QED
    BY <1>2, <1>3, <1>4, <2>1
<1> QED
  BY <1>3, <1>4

LEMMA InitIInv == Init => IInv
<1> SUFFICES ASSUME Init PROVE IInv
  OBVIOUS
<1>1. /\ \A q \in Request : pc[q] = "idle" /\ cmd[q] = None /\ own[q] = Nothing
      /\ \A q \in Request : own[q].put = {} /\ own[q].gone = {}
  BY DEF Init, Nothing
<1>2. /\ issued \in [Table -> 0 .. MaxId]
      /\ \A x \in db : x.table \in Table => x.id <= issued[x.table]
  <2> DEFINE IsLast(t, n) == /\ \A x \in db : x.table = t => x.id <= n
                             /\ n = 0 \/ Find(db, t, n) # {}
             last(t) == CHOOSE n \in 0 .. MaxId : IsLast(t, n)
  <2>1. ASSUME NEW t \in Table
        PROVE  last(t) \in 0 .. MaxId /\ \A x \in db : x.table = t => x.id <= last(t)
    <3>1. \E n \in 0 .. MaxId : IsLast(t, n)
      BY <2>1, Issuable DEF Init
    <3> HIDE DEF IsLast
    <3>2. last(t) \in 0 .. MaxId /\ IsLast(t, last(t))
      BY <3>1
    <3> QED
      BY <3>2 DEF IsLast
  <2>2. issued = [t \in Table |-> last(t)]
    BY DEF Init
  <2> HIDE DEF last
  <2>3. issued \in [Table -> 0 .. MaxId]
    BY <2>1, <2>2
  <2>4. ASSUME NEW x \in db, x.table \in Table
        PROVE  x.id <= issued[x.table]
    BY <2>1, <2>2, <2>4
  <2> QED
    BY <2>3, <2>4
<1>3. ASSUME NEW x \in db
      PROVE  IsRow(x)
  <2>1. x.table \in Table /\ x.id \in Id /\ DOMAIN x.col = Columns(x.table)
    BY StartAssumption DEF Init
  <2>2. x.id <= issued[x.table] /\ issued[x.table] \in Nat
    BY <1>2, <2>1, MaxIdAssumption
  <2> QED
    BY <2>1, <2>2, MaxIdAssumption DEF IsRow, Id
<1>4. Typed
  <2>1. issued \in [Table -> Nat]
    BY <1>2, MaxIdAssumption
  <2>2. /\ pc \in [Request -> Stage] /\ cmd \in [Request -> Asked \cup {None}]
        /\ answer \in [Request -> {200, 404, 409, 422, 500, None}]
    BY DEF Init, Stage
  <2>3. /\ read = [q \in Request |-> read[q]] /\ sent = [q \in Request |-> sent[q]]
        /\ own = [q \in Request |-> [put |-> own[q].put, gone |-> own[q].gone]]
    BY DEF Init, Nothing
  <2> QED
    BY <1>1, <1>3, <2>1, <2>2, <2>3 DEF Typed
<1>5. Room
  <2>1. \A t \in Table : Pending(t) = {}
    BY <1>1 DEF Pending
  <2> QED
    BY <1>2, <2>1, FS_EmptySet, MaxIdAssumption DEF Room
<1>6. Consistent(db) /\ Distinct(db)
  BY StartAssumption DEF Init, Consistent
<1>7. Apart
  BY <1>1 DEF Apart, Held
<1>8. ASSUME NEW q \in Request
      PROVE  Handled(q) /\ HasUnit(q) /\ Owned(q) /\ Known(q) /\ Achieved(q)
  <2>1. View(q) = db
    BY <1>1 DEF View
  <2>2. Owned(q)
    BY <1>1, <1>6, <2>1 DEF Owned
  <2> QED
    BY <1>1, <2>2 DEF Handled, HasUnit, Known, Achieved
<1> QED
  BY <1>4, <1>5, <1>6, <1>7, <1>8 DEF IInv

LEMMA NextIInv == IInv /\ [Next]_vars => IInv'
<1> SUFFICES ASSUME IInv, [Next]_vars PROVE IInv'
  OBVIOUS
<1>1. ASSUME NEW q \in Request, NEW c \in Asked, Begin(q, c) PROVE IInv'
  BY <1>1, BeginKeeps
<1>2. ASSUME NEW q \in Request, Look(q) PROVE IInv'
  BY <1>2, LookKeeps
<1>3. ASSUME NEW q \in Request, Enter(q) PROVE IInv'
  BY <1>3, EnterKeeps
<1>4. ASSUME NEW q \in Request, Save(q) PROVE IInv'
  BY <1>4, SaveKeeps
<1>5. ASSUME NEW q \in Request, Show(q) PROVE IInv'
  BY <1>5, ShowKeeps
<1>6. ASSUME NEW q \in Request, Delete(q) PROVE IInv'
  BY <1>6, DeleteKeeps
<1>7. ASSUME NEW q \in Request, Commit(q) PROVE IInv'
  BY <1>7, CommitStepKeeps
<1>8. ASSUME NEW q \in Request, Victim(q) PROVE IInv'
  BY <1>8, FailSmall DEF Victim
<1>9. ASSUME NEW q \in Request, Lose(q) PROVE IInv'
  BY <1>9, FailSmall DEF Lose
<1>10. CASE UNCHANGED vars
  <2>1. Typed' /\ Room' /\ Consistent(db') /\ Apart'
    <3>1. Typed'
      BY <1>10 DEF vars, IInv, Typed, IsRow
    <3>2. Room'
      BY <1>10 DEF vars, IInv, Room, Pending
    <3>3. Consistent(db') /\ Apart'
      BY <1>10 DEF vars, IInv, Apart, Held
    <3> QED
      BY <3>1, <3>2, <3>3
  <2>2. ASSUME NEW q \in Request
        PROVE  Handled(q)' /\ HasUnit(q)' /\ Owned(q)' /\ Known(q)' /\ Achieved(q)'
    <3>1. Carries(q) /\ \A p \in Request : Known(p)'
      BY <1>10 DEF vars, IInv, Typed, Known, Carries
    <3>2. View(q)' = View(q) /\ Dirty(q)' = Dirty(q) /\ Changed(q)' = Changed(q)
      BY <1>10 DEF vars, View, Dirty, Changed
    <3>3. Handled(q)' /\ HasUnit(q)'
      BY <1>10, <3>2 DEF vars, IInv, Handled, UnitRead, HasUnit
    <3>4. Owned(q)' /\ Achieved(q)'
      BY <1>10, <3>2 DEF vars, IInv, Owned, Achieved
    <3> QED
      BY <3>1, <3>3, <3>4
  <2> QED
    BY <2>1, <2>2 DEF IInv
<1> QED
  BY <1>1, <1>2, <1>3, <1>4, <1>5, <1>6, <1>7, <1>8, <1>9, <1>10 DEF Next, Statement

(* Whatever the requests do and in whatever order: identifiers are fresh,  *)
(* what two transactions hold is disjoint, each sees a database without    *)
(* repetitions, and a unit that was found stays.                           *)
THEOREM IInvHolds == Spec => []IInv
  BY InitIInv, NextIInv, PTL DEF Spec

-----------------------------------------------------------------------------
(* How a request ends: it fails, or it commits. *)
LEMMA Endings ==
  ASSUME IInv, Next, NEW q \in Request, Ends(q)
  PROVE  \/ \E status \in {409, 422, 500, None} : End(q, status, db)
         \/ /\ cmd[q].op = "save" /\ cmd[q].via = "form"
            /\ End(q, 422, View(q))
         \/ pc[q] = "done" /\ End(q, 200, View(q))
<1>1. ASSUME NEW r \in Request, r # q,
             (\E c \in Asked : Begin(r, c)) \/ Statement(r) \/ Lose(r)
      PROVE  FALSE
  <2>1. pc'[q] = pc[q]
    <3>1. ASSUME NEW c \in Asked, Begin(r, c) PROVE pc'[q] = pc[q]
      BY <1>1, <3>1, BeginCases DEF Takes, IInv, Typed
    <3>2. ASSUME NEW status, NEW d, End(r, status, d) PROVE pc'[q] = pc[q]
      BY <1>1, <3>2 DEF End, IInv, Typed
    <3>3. ASSUME NEW stage, Flush(r, stage) PROVE pc'[q] = pc[q]
      BY <1>1, <3>3 DEF Flush, IInv, Typed
    <3>4. CASE Look(r)
      BY <1>1, <3>2, <3>3, <3>4 DEF Look, FlushFails, Fail, IInv, Typed
    <3>5. CASE Enter(r) \/ Save(r) \/ Show(r) \/ Delete(r)
      BY <3>2, <3>3, <3>5 DEF Enter, Save, Show, Delete, FlushFails, Fail
    <3>6. CASE Commit(r) \/ Victim(r) \/ Lose(r)
      BY <3>2, <3>6 DEF Commit, Victim, Lose, Fail
    <3> QED
      BY <1>1, <3>1, <3>4, <3>5, <3>6 DEF Statement
  <2> QED
    BY <2>1 DEF Ends
<1>2. pc[q] # "idle" /\ pc'[q] = "idle"
  BY DEF Ends
<1>3. ASSUME NEW c \in Asked, Begin(q, c) PROVE FALSE
  BY <1>2, <1>3 DEF Begin
<1>4. ASSUME NEW stage \in Stage \ {"idle"}, Flush(q, stage) PROVE FALSE
  BY <1>2, <1>4 DEF Flush, IInv, Typed
<1>5. CASE Look(q)
  <2>1. \/ \E status \in {422, 500} : Fail(q, status)
        \/ Flush(q, "entering") \/ Flush(q, "saving")
        \/ pc' = [pc EXCEPT ![q] = "saving"]
    BY <1>5 DEF Look, FlushFails
  <2>2. pc' # [pc EXCEPT ![q] = "saving"]
    BY <1>2 DEF IInv, Typed
  <2> QED
    BY <1>4, <2>1, <2>2 DEF Fail, Stage
<1>6. CASE Enter(q) \/ Save(q) \/ Show(q) \/ Delete(q)
  BY <1>4, <1>6 DEF Enter, Save, Show, Delete, FlushFails, Fail, Stage
<1>7. CASE Commit(q)
  BY <1>7 DEF Commit, IInv, Handled
<1>8. CASE Victim(q) \/ Lose(q)
  BY <1>8 DEF Victim, Lose, Fail
<1> QED
  BY <1>1, <1>3, <1>5, <1>6, <1>7, <1>8 DEF Next, Statement

(* Whatever the forms, the API and the deletions do, in whatever order and *)
(* however they fail, identifiers, stages and rows keep their form, and a  *)
(* material refers to a unit whose identifier was issued.                  *)
THEOREM TypeCorrect == Spec => []TypeOK
<1>1. IInv => TypeOK
  <2> SUFFICES ASSUME IInv PROVE TypeOK
    OBVIOUS
  <2>1. issued \in [Table -> 0 .. MaxId]
    <3>1. ASSUME NEW t \in Table
          PROVE  issued[t] \in 0 .. MaxId
      <4>1. IsFiniteSet(Pending(t))
        BY SlotsAssumption, FS_Subset DEF Pending
      <4>2. Cardinality(Pending(t)) \in Nat /\ issued[t] \in Nat
        BY <4>1, FS_CardinalityType DEF IInv, Typed
      <4> QED
        BY <4>2, MaxIdAssumption DEF IInv, Room
    <3> QED
      BY <3>1 DEF IInv, Typed
  <2>2. ASSUME NEW x, x \in db \/ \E q \in Request : x \in own[q].put, x.table = "material"
        PROVE  x.col["unit"] \in 1 .. issued["unit"]
    <3>1. \E u : u.table = "unit" /\ u.id = x.col["unit"] /\ IsRow(u)
      <4>1. CASE x \in db
        BY <2>2, <4>1 DEF IInv, Consistent, Find, Typed
      <4>2. ASSUME NEW q \in Request, x \in own[q].put
            PROVE  \E u : u.table = "unit" /\ u.id = x.col["unit"] /\ IsRow(u)
        <5>1. PICK u \in View(q) : u.table = "unit" /\ u.id = x.col["unit"]
          BY <2>2, <4>2 DEF IInv, HasUnit, Find
        <5> QED
          BY <5>1 DEF View, IInv, Typed
      <4> QED
        BY <2>2, <4>1, <4>2
    <3> QED
      BY <3>1 DEF IsRow
  <2> QED
    BY <2>1, <2>2 DEF TypeOK, IInv, Typed, IsRow
<1> QED
  BY <1>1, IInvHolds, PTL

(* BP-01, BP-05, BP-06: however edits, creations and deletions interleave, *)
(* each of them several statements long, no INN, article or OKEI code is   *)
(* stored twice, and no material is stored without its unit.               *)
THEOREM IntegrityHolds == Spec => []Integrity
<1>1. IInv => Integrity
  BY DEF IInv, Integrity
<1> QED
  BY <1>1, IInvHolds, PTL

(* db.py:50: what a request of the HTTP API had flushed before it was      *)
(* refused, failed, lost its connection or was chosen as the victim of a   *)
(* deadlock is not stored.                                                 *)
THEOREM ApiRefusalsHold == Spec => ApiRefusalStoresNothing
<1>1. ASSUME IInv, [Next]_vars, NEW q \in Request, cmd[q] # None, cmd[q].via = "api"
      PROVE  RefusedStep(q)
  <2>1. SUFFICES ASSUME Ends(q), answer'[q] # 200
                 PROVE  db' = db
    BY DEF RefusedStep
  <2>2. Next
    BY <1>1, <2>1 DEF vars, Ends
  <2>3. ASSUME End(q, 200, View(q)) PROVE FALSE
    BY <1>1, <2>1, <2>3, Ended
  <2> QED
    BY <1>1, <2>1, <2>2, <2>3, Endings DEF End
<1>2. IInv /\ [Next]_vars =>
        [\A q \in Request : cmd[q] # None /\ cmd[q].via = "api" => RefusedStep(q)]_vars
  BY <1>1
<1> QED
  BY <1>2, IInvHolds, PTL DEF Spec, ApiRefusalStoresNothing

(* The lost update: a request that edits a record another has changed      *)
(* since it was read, and commits after it, changes of the stored row only *)
(* the columns its own user changed, and changes no other row.             *)
THEOREM EditsKeepTheRestHolds == Spec => EditsKeepTheRest
<1>1. ASSUME IInv, [Next]_vars, NEW q \in Request, Ends(q)
      PROVE  RestKept(q)
  <2>1. SUFFICES ASSUME NEW x \in db, NEW y \in db', Name(x) = Name(y), x # y
                 PROVE  /\ Name(x) = <<cmd[q].table, cmd[q].id>>
                        /\ \A f \in DOMAIN x.col : y.col[f] # x.col[f] =>
                             sent[q][f] # read[q][f] /\ y.col[f] = sent[q][f]
    BY DEF RestKept
  <2>2. Next
    BY <1>1 DEF vars, Ends
  <2>3. Distinct(db)
    BY <1>1 DEF IInv, Consistent
  <2>4. db' = db \/ db' = View(q)
    BY <1>1, <2>2, Endings DEF End
  <2>5. db' # db
    BY <2>1, <2>3 DEF Distinct
  <2>6. y \in own[q].put
    BY <2>1, <2>3, <2>4, <2>5 DEF View, Distinct
  <2>7. x \in own[q].gone
    BY <1>1, <2>1, <2>6 DEF IInv, Owned
  <2> QED
    BY <1>1, <2>1, <2>6, <2>7 DEF IInv, Owned, Ends, Dirty
<1>2. IInv /\ [Next]_vars => [\A q \in Request : Ends(q) => RestKept(q)]_vars
  BY <1>1
<1> QED
  BY <1>2, IInvHolds, PTL DEF Spec, EditsKeepTheRest

(* A request that reports success has stored what it was asked to: nothing *)
(* that other requests do between its read and its commit takes it back.   *)
(* The record a save names is a new one or one that can have an            *)
(* identifier: of identifier 0, for which services.py:118 does neither,    *)
(* the statement is false.                                                 *)
THEOREM SuccessHolds ==
  ASSUME \A c \in Asked : c.op = "save" => Creates(c) \/ Edits(c)
  PROVE  Spec => SuccessIsStored
<1>1. ASSUME IInv, [Next]_vars, NEW q \in Request, Ends(q), answer'[q] = 200
      PROVE  Stored(q, db')
  <2>1. Next
    BY <1>1 DEF vars, Ends
  <2>2. ASSUME NEW status \in {409, 422, 500, None}, NEW d, End(q, status, d) PROVE FALSE
    BY <1>1, <2>2, Ended, SlotsAssumption
  <2>3. pc[q] = "done" /\ End(q, 200, View(q)) /\ db' = View(q)
    BY <1>1, <2>1, <2>2, Endings DEF End
  <2>4. Achieved(q) /\ cmd[q] \in Asked
    BY <1>1, <2>3 DEF IInv, Handled
  <2>5. CASE cmd[q].op = "delete" /\ Find(View(q), cmd[q].table, cmd[q].id) = {}
    BY <2>3, <2>5 DEF Stored
  <2>6. CASE Edits(cmd[q]) /\ Changed(q) = {}
    BY <2>6 DEF Stored
  <2>7. ASSUME cmd[q].op = "save", Edits(cmd[q]), NEW x \in own[q].put,
               Name(x) = <<cmd[q].table, cmd[q].id>>,
               \A f \in Changed(q) : x.col[f] = cmd[q].col[f]
        PROVE  Stored(q, db')
    BY <2>3, <2>7 DEF Stored, View, Find, Name
  <2>8. ASSUME Creates(cmd[q]), NEW x \in own[q].put, x.table = cmd[q].table,
               \A f \in DOMAIN cmd[q].col : x.col[f] = cmd[q].col[f]
        PROVE  Stored(q, db')
    <3>1. x \in db' /\ ~Edits(cmd[q]) /\ cmd[q].op = "save"
      BY <2>3, <2>4, <2>8, Tables DEF View
    <3> QED
      BY <2>8, <3>1 DEF Stored
  <2> QED
    BY <2>3, <2>4, <2>5, <2>6, <2>7, <2>8 DEF Achieved
<1>2. IInv /\ [Next]_vars => [SuccessStep]_vars
  BY <1>1 DEF SuccessStep
<1> QED
  BY <1>2, IInvHolds, PTL DEF Spec, SuccessIsStored
=============================================================================
