------------------------------ MODULE Requests ------------------------------
(***************************************************************************)
(* The handlers of app/services.py that insert and delete rows, run by     *)
(* concurrent requests, each in a transaction of its own at PostgreSQL's   *)
(* READ COMMITTED level (app/db.py session_scope, one session a request).  *)
(*                                                                         *)
(* A request goes through                                                  *)
(*   idle -> reading : the user of the session is loaded (auth.find_user)  *)
(*   reading -> writing : the handler's SELECTs and its own checks         *)
(*   writing -> flushed : _save sends the INSERT or DELETE; PostgreSQL     *)
(*        waits for transactions it collides with, then enforces the       *)
(*        constraints against what is committed                            *)
(*   flushed -> told : the handler returns and the response is sent        *)
(*   told -> idle : session_scope commits                                  *)
(* and may be refused while reading or writing, or be lost (the process    *)
(* is killed, the connection breaks) while its transaction is open.        *)
(*                                                                         *)
(* save_supplier and save_material appear with their insert branch; their  *)
(* edit branch sends UPDATEs and is the subject of another module.         *)
(***************************************************************************)
EXTENDS Schema, FiniteSets

CONSTANTS
  Request,     (* request slots: how many requests run at once      *)
  Start,       (* the rows and sequences the service starts on      *)
  Operation,   (* the operations the clients of a run ask for       *)
  None         (* "no value"                                        *)

ASSUME StartAssumption ==
  \A s \in Start :
    /\ s.rows \in SUBSET Row /\ Consistent(s.rows)
    /\ s.issued \in [Table -> AnyId]
    /\ \A x \in s.rows : x.id \in 1 .. s.issued[x.table]

ASSUME OperationAssumption ==
  Operation \subseteq {"create_unit", "delete_unit", "save_supplier",
    "delete_supplier", "save_material", "delete_material", "create_receipt",
    "delete_receipt", "add_item", "delete_item", "create_user", "delete_user"}

(***************************************************************************)
(* What clients ask for.                                                   *)
(***************************************************************************)
AllCommand == UNION {
  [op : {"create_unit"}, okei : Okei],
  [op : {"save_supplier"}, inn : Inn],
  [op : {"save_material"}, sku : Sku, unit : Id],
  [op : {"create_user"}, login : Login, role : Role],
  [op : {"create_receipt"}, supplier : Id, invoice : Invoice],
  [op : {"add_item"}, receipt : Id, material : Id],
  [op : {"delete_item"}, receipt : Id, id : Id],
  [op : {"delete_unit", "delete_supplier", "delete_material", "delete_user",
         "delete_receipt"}, id : Id] }

Command == {c \in AllCommand : c.op \in Operation}

(* The table a command inserts into; None for the deletions. *)
Target(c) ==
  CASE c.op = "create_unit"    -> "unit"
    [] c.op = "save_supplier"  -> "supplier"
    [] c.op = "save_material"  -> "material"
    [] c.op = "create_user"    -> "app_user"
    [] c.op = "create_receipt" -> "receipt"
    [] c.op = "add_item"       -> "receipt_item"
    [] OTHER                   -> None

(***************************************************************************)
(* The statement a request flushes.                                        *)
(***************************************************************************)
Insert(x) == [kind |-> "insert", row |-> x]
Delete(x) == [kind |-> "delete", row |-> x]
Write == [kind : {"insert", "delete"}, row : Row]

Adds(w) == IF w.kind = "insert" THEN {w.row} ELSE {}

(* A DELETE that finds no row any more removes nothing: SQLAlchemy only    *)
(* warns.  The items of a receipt go with it, those the session loaded by  *)
(* the ORM cascade and the others by ON DELETE CASCADE.                    *)
Removes(d, w) ==
  IF w.kind = "delete" /\ w.row \in d
  THEN {w.row} \cup {x \in d : GoesWith(x, w.row)}
  ELSE {}

Effect(d, w) == (d \ Removes(d, w)) \cup Adds(w)

(* The constraints, as the statement checks them: unique columns, foreign  *)
(* keys of the rows added, and foreign keys that refer to the rows removed.*)
NoRepeat(d, w) == \A x \in Adds(w) : \A y \in d : Key(y) # Key(x)
RefersToStored(d, w) ==
  \A x \in Adds(w) : \A ref \in Refs(x) : \E y \in d : Name(y) = ref
LeavesNoReferrer(d, w) ==
  \A x \in Removes(d, w) : Referrers(d, x) \subseteq Removes(d, w)

(* Faulty: tables without unique columns; without foreign keys; with       *)
(* foreign keys not checked when what they refer to goes.                  *)
AcceptsWithoutUnique(d, w) == RefersToStored(d, w) /\ LeavesNoReferrer(d, w)
AcceptsWithoutForeignKeys(d, w) == NoRepeat(d, w)
AcceptsWithoutRestrict(d, w) == NoRepeat(d, w) /\ RefersToStored(d, w)

Accepts(d, w) ==
  NoRepeat(d, w) /\ RefersToStored(d, w) /\ LeavesNoReferrer(d, w)

(* Statements that cannot be in flight together: the later one waits for a *)
(* row lock or for the unique index entry the earlier one holds.           *)
Touches(d, w) == Adds(w) \cup Removes(d, w)

Collide(d, v, w) ==
  \E x \in Touches(d, v), y \in Touches(d, w) :
    \/ Name(x) = Name(y)
    \/ Key(x) = Key(y)
    \/ x \in Removes(d, v) /\ PointsTo(y, x)
    \/ y \in Removes(d, w) /\ PointsTo(x, y)

(***************************************************************************)
(* Answers.  about names the records the message speaks of.                *)
(***************************************************************************)
Answer(status, says, about) ==
  [status |-> status, says |-> says, about |-> about]

Outcome == [status : {200, 403, 404, 409, 422},
            says : {"done", "not found", "admins only", "invalid value",
                    "own account", "in use", "known already"},
            about : SUBSET (Table \X Nat)]

Success == Answer(200, "done", {})
NotFound == Answer(404, "not found", {})
Forbidden == Answer(403, "admins only", {})
Invalid == Answer(422, "invalid value", {})
OwnAccount == Answer(409, "own account", {})
InUse(name) == Answer(409, "in use", {name})
Known(names) == Answer(409, "known already", names)

(* rules.database_error: the constraint a statement violates, translated.  *)
(* Unique columns are checked as the row is stored, foreign keys at the    *)
(* end of the statement.  The table behind a violated foreign key is       *)
(* reported as "in use" whichever side of the reference was being written; *)
(* only a receipt_item without its receipt is told apart.                  *)
DbErrors(d, w) ==
  (IF ~NoRepeat(d, w)
   THEN {Known({})}
   ELSE {IF ref[1] = "receipt" THEN Answer(409, "not found", {})
                               ELSE InUse(ref) :
           ref \in {ref \in UNION {Refs(x) : x \in Adds(w)} :
                      \A y \in d : Name(y) # ref}})
  \cup
  {InUse(Name(x)) : x \in {x \in Removes(d, w) :
     ~(Referrers(d, x) \subseteq Removes(d, w))}}

-----------------------------------------------------------------------------
VARIABLES
  db,       (* what is committed                                          *)
  seq,      (* the last identifier each table issued                      *)
  pc,       (* where each request is                                      *)
  cmd,      (* what it was asked to do                                    *)
  actor,    (* its user, as loaded at its start (auth.find_user expunges) *)
  write,    (* the statement it is to flush or has flushed                *)
  answer    (* the response it ended with                                 *)

vars == <<db, seq, pc, cmd, actor, write, answer>>
local == <<pc, cmd, actor, write, answer>>

Stage == {"idle", "reading", "writing", "flushed", "told"}

(* Requests with an open transaction that holds locks. *)
InFlight == {q \in Request : pc[q] \in {"flushed", "told"}}

(* Insertions under way: each takes an identifier when it flushes. *)
Inserting(t) == {q \in Request : /\ pc[q] \in {"reading", "writing"}
                                /\ Target(cmd[q]) = t}

HasRoom(t) == seq[t] + Cardinality(Inserting(t)) < MaxId

Init ==
  /\ \E s \in Start : db = s.rows /\ seq = s.issued
  /\ pc = [q \in Request |-> "idle"]
  /\ cmd = [q \in Request |-> None]
  /\ actor = [q \in Request |-> None]
  /\ write = [q \in Request |-> None]
  /\ answer = [q \in Request |-> None]

(***************************************************************************)
(* The course of a request.                                                *)
(***************************************************************************)

(* Faulty: a route that does not ask for the user of the session. *)
BeginAnonymous(q, c, u) ==
  /\ pc[q] = "idle"
  /\ Target(c) # None => HasRoom(Target(c))
  /\ pc' = [pc EXCEPT ![q] = "reading"]
  /\ cmd' = [cmd EXCEPT ![q] = c]
  /\ answer' = [answer EXCEPT ![q] = None]
  /\ UNCHANGED <<db, seq, write, actor>>

(* auth.find_user, auth.current_user: the user named by the cookie is      *)
(* loaded and detached; a request of nobody is answered 401 and does not   *)
(* get here.  HasRoom is the bound on identifiers.                         *)
Begin(q, c, u) ==
  /\ pc[q] = "idle"
  /\ Target(c) # None => HasRoom(Target(c))
  /\ pc' = [pc EXCEPT ![q] = "reading"]
  /\ cmd' = [cmd EXCEPT ![q] = c]
  /\ actor' = [actor EXCEPT ![q] = u]
  /\ answer' = [answer EXCEPT ![q] = None]
  /\ UNCHANGED <<db, seq, write>>

End(q, a) ==
  /\ pc' = [pc EXCEPT ![q] = "idle"]
  /\ cmd' = [cmd EXCEPT ![q] = None]
  /\ actor' = [actor EXCEPT ![q] = None]
  /\ write' = [write EXCEPT ![q] = None]
  /\ answer' = [answer EXCEPT ![q] = a]

(* The handler raises an AppError before it has changed anything: nothing  *)
(* is written, whether the session is rolled back (HTTP API) or the page   *)
(* is shown again and an unchanged session committed (forms).              *)
Refuse(q, a) == End(q, a) /\ UNCHANGED <<db, seq>>

(* Faulty: a handler that forgets _save and leaves the INSERT or DELETE to *)
(* the commit.                                                             *)
PrepareWithoutSave(q, w) ==
  /\ pc' = [pc EXCEPT ![q] = "flushed"]
  /\ write' = [write EXCEPT ![q] = w]
  /\ UNCHANGED <<db, seq, cmd, actor, answer>>

(* The handler has made its object and calls _save. *)
Prepare(q, w) ==
  /\ pc' = [pc EXCEPT ![q] = "writing"]
  /\ write' = [write EXCEPT ![q] = w]
  /\ UNCHANGED <<db, seq, cmd, actor, answer>>

Reading(q, op) == pc[q] = "reading" /\ cmd[q].op = op

IsAdmin(u) == u.role = "admin"

(* A value of the form or of the JSON body breaks a rule of app/rules.py;  *)
(* which values do is not modelled here.                                   *)
MayBeInvalid(q) == Refuse(q, Invalid)

(***************************************************************************)
(* Insertions.                                                             *)
(***************************************************************************)
CreateUnit(q) ==
  /\ Reading(q, "create_unit")
  /\ \/ ~IsAdmin(actor[q]) /\ Refuse(q, Forbidden)
     \/ IsAdmin(actor[q]) /\ MayBeInvalid(q)
     \/ /\ IsAdmin(actor[q])
        /\ Prepare(q, Insert([table |-> "unit", id |-> NoId,
                              okei |-> cmd[q].okei]))

CreateSupplier(q) ==
  /\ Reading(q, "save_supplier")
  /\ \/ MayBeInvalid(q)
     \/ Prepare(q, Insert([table |-> "supplier", id |-> NoId,
                           inn |-> cmd[q].inn]))

(* A unit that does not exist is answered as an invalid value (422). *)
CreateMaterial(q) ==
  /\ Reading(q, "save_material")
  /\ \/ MayBeInvalid(q)
     \/ /\ Find(db, "unit", cmd[q].unit) # {}
        /\ Prepare(q, Insert([table |-> "material", id |-> NoId,
                              sku |-> cmd[q].sku, unit |-> cmd[q].unit]))

CreateUser(q) ==
  /\ Reading(q, "create_user")
  /\ \/ ~IsAdmin(actor[q]) /\ Refuse(q, Forbidden)
     \/ IsAdmin(actor[q]) /\ MayBeInvalid(q)
     \/ /\ IsAdmin(actor[q])
        /\ Prepare(q, Insert([table |-> "app_user", id |-> NoId,
                              login |-> cmd[q].login, role |-> cmd[q].role]))

(* BP-11: the same invoice of the same supplier is looked for first; the   *)
(* refusal names the receipt it was entered with.                          *)
CreateReceipt(q) ==
  LET same == {x \in db : /\ x.table = "receipt"
                          /\ x.supplier = cmd[q].supplier
                          /\ x.invoice = cmd[q].invoice}
  IN /\ Reading(q, "create_receipt")
     /\ \/ /\ Find(db, "supplier", cmd[q].supplier) = {}
           /\ Refuse(q, NotFound)
        \/ /\ Find(db, "supplier", cmd[q].supplier) # {}
           /\ MayBeInvalid(q)
        \/ /\ Find(db, "supplier", cmd[q].supplier) # {}
           /\ same # {}
           /\ Refuse(q, Known({Name(x) : x \in same}))
        \/ /\ Find(db, "supplier", cmd[q].supplier) # {}
           /\ same = {}
           /\ Prepare(q, Insert([table |-> "receipt", id |-> NoId,
                                 supplier |-> cmd[q].supplier,
                                 invoice |-> cmd[q].invoice,
                                 author |-> actor[q].id]))

(* BP-07: the items the session loaded with the receipt are looked at. *)
AddItem(q) ==
  LET found == /\ Find(db, "receipt", cmd[q].receipt) # {}
               /\ Find(db, "material", cmd[q].material) # {}
      repeated == \E x \in db : /\ x.table = "receipt_item"
                                /\ x.receipt = cmd[q].receipt
                                /\ x.material = cmd[q].material
  IN /\ Reading(q, "add_item")
     /\ \/ ~found /\ Refuse(q, NotFound)
        \/ found /\ repeated /\ Refuse(q, Known({}))
        \/ found /\ ~repeated /\ MayBeInvalid(q)
        \/ /\ found /\ ~repeated
           /\ Prepare(q, Insert([table |-> "receipt_item", id |-> NoId,
                                 receipt |-> cmd[q].receipt,
                                 material |-> cmd[q].material]))

(***************************************************************************)
(* Deletions.                                                              *)
(***************************************************************************)

(* Load the record, count the rows that refer to it, delete it (BP-08). *)
DeleteUnused(q, table) ==
  LET found == Find(db, table, cmd[q].id)
  IN \/ found = {} /\ Refuse(q, NotFound)
     \/ \E x \in found :
          \/ Referrers(db, x) # {} /\ Refuse(q, InUse(Name(x)))
          \/ Referrers(db, x) = {} /\ Prepare(q, Delete(x))

DeleteUnit(q) ==
  /\ Reading(q, "delete_unit")
  /\ \/ ~IsAdmin(actor[q]) /\ Refuse(q, Forbidden)
     \/ IsAdmin(actor[q]) /\ DeleteUnused(q, "unit")

DeleteSupplier(q) ==
  Reading(q, "delete_supplier") /\ DeleteUnused(q, "supplier")

DeleteMaterial(q) ==
  Reading(q, "delete_material") /\ DeleteUnused(q, "material")

(* Faulty: one's own account is not told apart. *)
DeleteAnyUser(q) ==
  /\ Reading(q, "delete_user")
  /\ \/ ~IsAdmin(actor[q]) /\ Refuse(q, Forbidden)
     \/ IsAdmin(actor[q]) /\ DeleteUnused(q, "app_user")

DeleteUser(q) ==
  /\ Reading(q, "delete_user")
  /\ \/ ~IsAdmin(actor[q]) /\ Refuse(q, Forbidden)
     \/ /\ IsAdmin(actor[q])
        /\ actor[q].id = cmd[q].id
        /\ Refuse(q, OwnAccount)
     \/ /\ IsAdmin(actor[q])
        /\ actor[q].id # cmd[q].id
        /\ DeleteUnused(q, "app_user")

DeleteReceipt(q) ==
  /\ Reading(q, "delete_receipt")
  /\ \/ Find(db, "receipt", cmd[q].id) = {} /\ Refuse(q, NotFound)
     \/ \E x \in Find(db, "receipt", cmd[q].id) : Prepare(q, Delete(x))

DeleteItem(q) ==
  LET found == {x \in Find(db, "receipt_item", cmd[q].id) :
                  x.receipt = cmd[q].receipt}
  IN /\ Reading(q, "delete_item")
     /\ \/ found = {} /\ Refuse(q, NotFound)
        \/ \E x \in found : Prepare(q, Delete(x))

(***************************************************************************)
(* The end of the transaction.                                             *)
(***************************************************************************)

(* The statement with the identifier the sequence gives it. *)
Sent(q) ==
  LET x == write[q].row
  IN IF write[q].kind = "insert"
     THEN Insert([x EXCEPT !.id = seq[x.table] + 1])
     ELSE write[q]

(* Faulty: locks taken before the statement is sent, in any order. *)
WaitsForReaders(q) ==
  \E p \in Request \ {q} :
    /\ pc[p] \in {"writing", "flushed", "told"}
    /\ Collide(db, write[p], Sent(q))

Waits(q) == \E p \in InFlight \ {q} : Collide(db, write[p], Sent(q))

(* _save: the statement is sent and, once nothing it collides with is in   *)
(* flight, the constraints decide.  An identifier is spent either way.     *)
Flush(q) ==
  /\ pc[q] = "writing"
  /\ ~Waits(q)
  /\ IF write[q].kind = "insert"
     THEN /\ seq[write[q].row.table] + 1 \in Id
          /\ seq' = [seq EXCEPT ![write[q].row.table] = @ + 1]
     ELSE UNCHANGED seq
  /\ UNCHANGED db
  /\ \/ /\ Accepts(db, Sent(q))
        /\ pc' = [pc EXCEPT ![q] = "flushed"]
        /\ write' = [write EXCEPT ![q] = Sent(q)]
        /\ UNCHANGED <<cmd, actor, answer>>
     \/ \E a \in DbErrors(db, Sent(q)) : End(q, a)

(* The handler returns: FastAPI sends the response and only then leaves    *)
(* the dependency get_session, which commits.                              *)
Respond(q) ==
  /\ pc[q] = "flushed"
  /\ pc' = [pc EXCEPT ![q] = "told"]
  /\ answer' = [answer EXCEPT ![q] = Success]
  /\ UNCHANGED <<db, seq, cmd, actor, write>>

Commit(q) ==
  /\ pc[q] = "told"
  /\ db' = Effect(db, write[q])
  /\ End(q, Success)
  /\ UNCHANGED seq

(* The process or its connection is lost while the transaction is open:    *)
(* PostgreSQL rolls it back, whatever the client was told.                 *)
Lose(q) ==
  /\ pc[q] # "idle"
  /\ End(q, None)
  /\ UNCHANGED <<db, seq>>

Read(q) ==
  \/ CreateUnit(q)     \/ DeleteUnit(q)
  \/ CreateSupplier(q) \/ DeleteSupplier(q)
  \/ CreateMaterial(q) \/ DeleteMaterial(q)
  \/ CreateUser(q)     \/ DeleteUser(q)
  \/ CreateReceipt(q)  \/ DeleteReceipt(q)
  \/ AddItem(q)        \/ DeleteItem(q)

Next == \E q \in Request :
  \/ \E c \in Command : \E u \in {x \in db : x.table = "app_user"} :
       Begin(q, c, u)
  \/ Read(q)
  \/ Flush(q)
  \/ Respond(q)
  \/ Commit(q)
  \/ Lose(q)

Spec == Init /\ [][Next]_vars

(***************************************************************************)
(* Scheduling: every request that was started is carried on with (a thread *)
(* of the pool runs it), and PostgreSQL grants locks in the order they     *)
(* were asked for, so a statement is not overtaken for ever.               *)
(***************************************************************************)
Fairness == \A q \in Request :
  /\ WF_vars(Read(q))
  /\ SF_vars(Flush(q))
  /\ WF_vars(Respond(q))
  /\ WF_vars(Commit(q))

FairSpec == Spec /\ Fairness

-----------------------------------------------------------------------------
(* Every variable has its type; a statement is there exactly while one is  *)
(* being sent or is in flight.                                             *)
TypeOK ==
  /\ db \in SUBSET Row
  /\ seq \in [Table -> AnyId]
  /\ pc \in [Request -> Stage]
  /\ cmd \in [Request -> Command \cup {None}]
  /\ actor \in [Request -> UserRow \cup {None}]
  /\ write \in [Request -> Write \cup {None}]
  /\ answer \in [Request -> Outcome \cup {None}]
  /\ \A q \in Request :
       /\ pc[q] # "idle" => /\ cmd[q] \in Command
                            /\ actor[q] \in UserRow /\ actor[q].id # NoId
       /\ pc[q] \in {"writing", "flushed", "told"} => write[q] \in Write

(* BP-05, 06, 07, 08, 11 under concurrency: whatever requests read, and    *)
(* however stale it was when they wrote, nothing is stored twice and       *)
(* nothing refers to a record that is gone.                                *)
Integrity == Consistent(db)

(* A client is told of success before the commit (the response leaves      *)
(* first).  Whatever commits in between, the change it was told of is      *)
(* still one the constraints accept, so the commit itself has no reason to *)
(* fail.                                                                   *)
SuccessCanCommit ==
  \A q \in Request : pc[q] = "told" => Accepts(db, write[q])

(***************************************************************************)
(* Why it is so: the inductive invariant.                                  *)
(***************************************************************************)

(* Requests whose session has called delete on a row it loaded. *)
Deleting == {q \in Request : /\ pc[q] \in {"writing", "flushed", "told"}
                             /\ write[q].kind = "delete"}

(* The identifiers in use were issued by the sequences, and a row in       *)
(* flight has one that no stored row has.                                  *)
Numbered ==
  /\ \A x \in db : x.id \in 1 .. seq[x.table]
  /\ \A q \in InFlight : \A x \in Adds(write[q]) :
       /\ x.id \in 1 .. seq[x.table]
       /\ \A y \in db : Name(y) # Name(x)

(* No row in flight has the identifier of a row somebody is deleting, even *)
(* when that row is gone already.                                          *)
NeverReused ==
  \A q \in Deleting :
    /\ write[q].row.id \in 1 .. seq[write[q].row.table]
    /\ \A p \in InFlight : \A x \in Adds(write[p]) :
         Name(x) # Name(write[q].row)

(* What is in flight stays acceptable, because statements in flight do not *)
(* collide.                                                                *)
Isolation ==
  /\ \A q \in InFlight : Accepts(db, write[q])
  /\ \A p, q \in InFlight : p # q => ~Collide(db, write[p], write[q])

(* Rows, locks and identifiers together: the database is consistent, what  *)
(* is in flight is acceptable and apart, and identifiers are fresh.        *)
IInv == TypeOK /\ Integrity /\ Numbered /\ NeverReused /\ Isolation

(* A user is deleted only by an administrator who is somebody else. *)
OthersDelete ==
  \A q \in Deleting : write[q].row.table = "app_user" =>
    IsAdmin(actor[q]) /\ actor[q].id # write[q].row.id

(* The requests, with their stale reads, locks and roll-backs, do nothing  *)
(* but the whole operations of Warehouse, one at a time.                   *)
Atomic == INSTANCE Warehouse WITH Start <- {s.rows : s \in Start}
Implements == Atomic!Spec

Admins(d) == {x \in d : x.table = "app_user" /\ IsAdmin(x)}

(* services.delete_user refuses one's own account, which keeps one         *)
(* administrator in place; the last one can go only by the request of an   *)
(* administrator whose own account was deleted after that request started. *)
LastAdminGoesOnlyByADeletedOne ==
  [][(Admins(db) # {} /\ Admins(db') = {}) =>
       \E q \in Request : pc[q] = "told" /\ actor[q] \notin db]_vars

(* No request waits for ever: statements wait for one another only, and    *)
(* what is in flight ends.                                                 *)
EveryRequestEnds ==
  \A q \in Request : pc[q] # "idle" ~> pc[q] = "idle"

(* docs/API.md: a repeated invoice number is refused with a message that   *)
(* says which receipt the invoice was entered with.                        *)
KnownInvoiceIsNamed ==
  [][\A q \in Request :
       (/\ cmd[q] # None /\ cmd[q].op = "create_receipt"
        /\ answer'[q] # None /\ answer'[q].says = "known already")
       => answer'[q].about # {}]_vars

(* README.md, BP-08: a request is refused because a record is in use only  *)
(* when some stored or uncommitted record refers to it.                    *)
InUseIsTrue ==
  [][\A q \in Request :
       (cmd[q] # None /\ answer'[q] # None /\ answer'[q].says = "in use") =>
         \A name \in answer'[q].about :
           \/ \E x \in db : name \in Refs(x)
           \/ \E p \in InFlight : name \in Refs(write[p].row)]_vars

=============================================================================
