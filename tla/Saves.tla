-------------------------------- MODULE Saves --------------------------------
(***************************************************************************)
(* save_supplier, save_material and the deletions of app/services.py, one  *)
(* SQL statement a step, as the forms (app/web.py) and the HTTP API        *)
(* (app/api.py) call them.  Requests sends one statement a request; here a *)
(* request may send several, because SQLAlchemy flushes the changed object *)
(* of its session before each query and not only where the code says so:   *)
(*                                                                         *)
(*   idle -> looking  : the record loaded, its fields assigned (material)  *)
(*   looking -> saving or entering : the unit is looked up; before that    *)
(*        query the changed material is flushed                            *)
(*   entering -> saving : a form adds the OKEI unit that is not there yet  *)
(*   saving -> done   : _save flushes the rest                             *)
(*   idle -> showing -> shown : a form refused after some fields were      *)
(*        assigned; the query of its page flushes them                     *)
(*   deleting -> done : the DELETE of a deletion                           *)
(*   done or shown -> idle : session_scope commits                         *)
(*                                                                         *)
(* Receipts and the deletion of units are in Requests and are left out.    *)
(***************************************************************************)
EXTENDS Naturals, FiniteSets

CONSTANTS
  Request,   (* request slots                                             *)
  Asked,     (* the commands the clients of a run send                    *)
  Start,     (* the databases the service starts on                       *)
  Admin,     (* commands sent by administrators                           *)
  Bad,       (* a value that a rule of app/rules.py refuses               *)
  None,      (* "no value"                                                *)
  MaxId      (* bound: the identifiers a table issues                     *)

ASSUME MaxIdAssumption == MaxId \in Nat

Id == 1 .. MaxId

ASSUME SlotsAssumption == IsFiniteSet(Request) /\ None \notin Nat

Table == {"supplier", "material", "unit"}

(* The fields in the order they are validated and assigned.  The unit of a *)
(* material is assigned later, when it has been looked up.                 *)
Fields(t) ==
  IF t = "supplier" THEN <<"name", "inn", "phone">> ELSE <<"sku", "name">>

Columns(t) ==
  CASE t = "supplier" -> {"name", "inn", "phone"}
    [] t = "material" -> {"sku", "name", "unit"}
    [] t = "unit"     -> {"okei"}

Name(x) == <<x.table, x.id>>

(* The unique column of each table. *)
Key(x) ==
  CASE x.table = "supplier" -> <<"inn", x.col["inn"]>>
    [] x.table = "material" -> <<"sku", x.col["sku"]>>
    [] x.table = "unit"     -> <<"okei", x.col["okei"]>>

Find(d, t, id) == {x \in d : x.table = t /\ x.id = id}

(* No INN, article or OKEI code is stored twice, and no material without   *)
(* its unit.                                                               *)
Distinct(d) == \A x, y \in d : Name(x) = Name(y) \/ Key(x) = Key(y) => x = y

Consistent(d) ==
  /\ Distinct(d)
  /\ \A x \in d : x.table = "material" => Find(d, "unit", x.col["unit"]) # {}

ASSUME StartAssumption ==
  \A d \in Start : /\ Consistent(d)
                   /\ \A x \in d : /\ x.table \in Table /\ x.id \in Id
                                    /\ DOMAIN x.col = Columns(x.table)

(* A command names a supplier or a material, and fills its fields.         *)
ASSUME AskedAssumption ==
  \A c \in Asked :
    /\ c.op \in {"save", "delete"} /\ c.via \in {"api", "form"}
    /\ c.table \in {"supplier", "material"}
    /\ c.op = "save" => DOMAIN c.col = {Fields(c.table)[i] : i \in DOMAIN Fields(c.table)}

Creates(c) == c.op = "save" /\ c.id = None
Edits(c) == c.op = "save" /\ c.id \in Id

-----------------------------------------------------------------------------
VARIABLES
  db,      (* the committed rows                                          *)
  issued,  (* the last identifier each table issued                       *)
  pc,      (* where each request is                                       *)
  cmd,     (* what it was asked to do                                     *)
  read,    (* the columns of the record as its session loaded them        *)
  sent,    (* the columns of the object as the handler assigned them      *)
  own,     (* rows its transaction has put and rows it has replaced       *)
  answer   (* the status of its last response; None if there was none       *)

vars == <<db, issued, pc, cmd, read, sent, own, answer>>

Nothing == [put |-> {}, gone |-> {}]

Stage == {"idle", "looking", "entering", "saving", "deleting", "showing",
          "done", "shown"}

View(q) == (db \ own[q].gone) \cup own[q].put

(* Requests that may still insert into t. *)
MayInsert(c, t) ==
  \/ Creates(c) /\ c.table = t
  \/ t = "unit" /\ c.op = "save" /\ c.table = "material" /\ c.via = "form"

HasRoom(c) ==
  \A t \in Table : MayInsert(c, t) =>
    issued[t] + Cardinality({q \in Request :
      pc[q] # "idle" /\ MayInsert(cmd[q], t)}) < MaxId

Init ==
  /\ db \in Start
  /\ issued = [t \in Table |-> CHOOSE n \in 0 .. MaxId :
       /\ \A x \in db : x.table = t => x.id <= n
       /\ n = 0 \/ Find(db, t, n) # {}]
  /\ pc = [q \in Request |-> "idle"]
  /\ cmd = [q \in Request |-> None]
  /\ read = [q \in Request |-> None]
  /\ sent = [q \in Request |-> None]
  /\ own = [q \in Request |-> Nothing]
  /\ answer = [q \in Request |-> None]

-----------------------------------------------------------------------------
(* SQLAlchemy sends the columns whose value differs from the one loaded.   *)

(* Faulty: the unique column left out. *)
DirtyButKey(q) ==
  {f \in DOMAIN sent[q] \ {"inn", "sku"} : sent[q][f] # read[q][f]}

(* Faulty: every column is sent. *)
EveryColumn(q) == DOMAIN sent[q]

Dirty(q) == {f \in DOMAIN sent[q] : sent[q][f] # read[q][f]}

Updates(q) ==
  /\ pc[q] \in {"looking", "saving", "showing"}
  /\ Edits(cmd[q]) /\ Dirty(q) # {}

(* The rows a flush of the present stage replaces and the rows it puts in  *)
(* their place; an UPDATE leaves the columns it does not name as they are. *)
Old(q) ==
  IF Updates(q) \/ pc[q] = "deleting"
  THEN Find(View(q), cmd[q].table, cmd[q].id) ELSE {}

Inserted(t, col) == {[table |-> t, id |-> issued[t] + 1, col |-> col]}

New(q) ==
  CASE Updates(q) ->
         {[table |-> x.table, id |-> x.id, col |-> [f \in DOMAIN x.col |->
             IF f \in Dirty(q) THEN sent[q][f] ELSE x.col[f]]] : x \in Old(q)}
    [] pc[q] = "saving" /\ Creates(cmd[q]) -> Inserted(cmd[q].table, sent[q])
    [] pc[q] = "entering" ->
         Inserted("unit", [f \in {"okei"} |-> cmd[q].unit])
    [] OTHER -> {}

(* StaleDataError: the UPDATE of a row that is there no more. *)
Stale(q) == Updates(q) /\ Old(q) = {}

(* Faulty: the unique index looked at as the request's own rows only. *)
RepeatsOwn(q) ==
  \E x \in New(q) : \E y \in own[q].put \ Old(q) : Key(x) = Key(y)

(* The unique columns. *)
Repeats(q) == \E x \in New(q) : \E y \in View(q) \ Old(q) : Key(x) = Key(y)

Flushable(q) == ~Stale(q) /\ ~Repeats(q)

(* Row locks and the index entries of rows written and replaced; kept till *)
(* the transaction ends.                                                   *)
Held(p) == UNION {{Name(x), Key(x)} : x \in own[p].put \cup own[p].gone}

Wanted(q) ==
  {Name(x) : x \in Old(q) \cup New(q)} \cup {Key(x) : x \in New(q)}

Blockers(q) == {p \in Request \ {q} : Held(p) \cap Wanted(q) # {}}

Sending == {"looking", "entering", "saving", "showing", "deleting"}

(* A set of requests each of which waits for, and is waited for by, some   *)
(* of the set.                                                             *)
NeverDeadlocked(q) == FALSE   (* Faulty: no deadlock detection. *)

Deadlocked(q) ==
  \E S \in SUBSET Request : q \in S /\ \A p \in S :
    /\ pc[p] \in Sending /\ Blockers(p) \cap S # {}
    /\ \E r \in S : p \in Blockers(r)

-----------------------------------------------------------------------------
(* The end of a request, with the rows the database is left with. *)
End(q, status, d) ==
  /\ db' = d
  /\ pc' = [pc EXCEPT ![q] = "idle"]
  /\ cmd' = [cmd EXCEPT ![q] = None]
  /\ read' = [read EXCEPT ![q] = None]
  /\ sent' = [sent EXCEPT ![q] = None]
  /\ own' = [own EXCEPT ![q] = Nothing]
  /\ answer' = [answer EXCEPT ![q] = status]

(* _save and session_scope roll back: nothing of the request is left. *)
Fail(q, status) == End(q, status, db) /\ UNCHANGED issued

(* The fields before the first one a rule refuses. *)
AssignedBefore(c) ==
  LET f == Fields(c.table)
  IN {f[i] : i \in {i \in DOMAIN f : \A j \in 1 .. i : c.col[f[j]] # Bad}}

IsRefused(c) ==
  \/ \E f \in DOMAIN c.col : c.col[f] = Bad
  \/ c.table = "material" /\ c.via = "form" /\ c.unit = Bad

(* The object after the assignments, col before them; a new one has no     *)
(* unit yet.                                                               *)
Assigned(c, col) ==
  [f \in Columns(c.table) |->
     IF f \in AssignedBefore(c) THEN c.col[f]
     ELSE IF Edits(c) THEN col[f] ELSE None]

(* Faulty: an API route that catches the error as the forms do. *)
KeepsAlways(c) == TRUE

(* A form catches the AppError, so its session is not rolled back. *)
KeepsSession(c) == c.via = "form"

(* A command as the handler takes it up.  Identifier 0 of an edit is a     *)
(* false value: the object is new, yet it is not added to the session.     *)
Begin(q, c) ==
  LET found == IF Edits(c) \/ c.op = "delete"
               THEN Find(db, c.table, c.id) ELSE {}
      absent == found = {} /\ (Edits(c) \/ c.op = "delete")
      col == IF found = {} THEN None ELSE (CHOOSE x \in found : TRUE).col
      dirty == Edits(c) /\ Assigned(c, col) # col
      Go(stage) == /\ pc' = [pc EXCEPT ![q] = stage]
                   /\ cmd' = [cmd EXCEPT ![q] = c]
                   /\ read' = [read EXCEPT ![q] = col]
                   /\ answer' = [answer EXCEPT ![q] = None]
                   /\ UNCHANGED <<db, issued, own>>
      Answered(status) == /\ answer' = [answer EXCEPT ![q] = status]
                          /\ UNCHANGED <<db, issued, pc, cmd, read, sent, own>>
  IN /\ pc[q] = "idle"
     /\ HasRoom(c)
     /\ \/ absent /\ Answered(404)
        \/ ~absent /\ c.op = "delete" /\ Go("deleting")
           /\ UNCHANGED sent
        \/ /\ ~absent /\ c.op = "save" /\ IsRefused(c)
           /\ IF KeepsSession(c) /\ dirty
              THEN /\ Go("showing")
                   /\ sent' = [sent EXCEPT ![q] = Assigned(c, col)]
              ELSE Answered(422)
        \/ /\ ~absent /\ c.op = "save" /\ ~IsRefused(c)
           /\ Go(IF c.table = "material" THEN "looking" ELSE "saving")
           /\ sent' = [sent EXCEPT ![q] = Assigned(c, col)]

(* The flush of the present stage, on to the next one. *)
Flush(q, stage) ==
  /\ own' = [own EXCEPT ![q] = [put  |-> (@.put \ Old(q)) \cup New(q),
                                gone |-> @.gone \cup (Old(q) \ @.put)]]
  /\ pc' = [pc EXCEPT ![q] = stage]
  /\ UNCHANGED <<db, cmd, read>>

Ready(q, stage) == pc[q] = stage /\ Blockers(q) = {}

(* A flush outside _save: its errors are nobody's, and end as status 500.  *)
FlushFails(q) == ~Flushable(q) /\ Fail(q, 500)

(* services.py:178-193.  The form names the unit by its OKEI code, the API *)
(* by its identifier; db.get finds the unit loaded with the material       *)
(* without a query, so without a flush.                                    *)
Look(q) ==
  LET c == cmd[q]
      units == {x \in View(q) : x.table = "unit" /\
                 IF c.via = "form" THEN x.col["okei"] = c.unit
                                   ELSE x.id = c.unit}
      loaded == c.via = "api" /\ Edits(c) /\ read[q]["unit"] = c.unit
  IN /\ pc[q] = "looking"
     /\ \/ ~loaded /\ Blockers(q) = {} /\ FlushFails(q)
        \/ /\ ~loaded /\ Blockers(q) = {} /\ Flushable(q)
           /\ units = {} /\ c.via = "api" /\ Fail(q, 422)
        \/ /\ ~loaded /\ Blockers(q) = {} /\ Flushable(q)
           /\ units = {} /\ c.via = "form"
           /\ Flush(q, "entering")
           /\ UNCHANGED <<issued, sent, answer>>
        \/ /\ ~loaded /\ Blockers(q) = {} /\ Flushable(q)
           /\ \E u \in units : sent' = [sent EXCEPT ![q]["unit"] = u.id]
           /\ Flush(q, "saving")
           /\ UNCHANGED <<issued, answer>>
        \/ /\ loaded
           /\ pc' = [pc EXCEPT ![q] = "saving"]
           /\ UNCHANGED <<db, issued, cmd, read, sent, own, answer>>

Spend(t) == issued' = [issued EXCEPT ![t] = @ + 1]

(* Faulty: the material refers to its unit by the code. *)
EnterCode(q) ==
  /\ Ready(q, "entering")
  /\ Spend("unit")
  /\ Flushable(q)
  /\ sent' = [sent EXCEPT ![q]["unit"] = cmd[q].unit]
  /\ Flush(q, "saving")
  /\ UNCHANGED answer

(* services.py:181-184, the unit the form needs, flushed as it is added.   *)
Enter(q) ==
  /\ Ready(q, "entering")
  /\ Spend("unit")
  /\ \/ ~Flushable(q) /\ End(q, 500, db)
     \/ /\ Flushable(q)
        /\ sent' = [sent EXCEPT ![q]["unit"] = issued["unit"] + 1]
        /\ Flush(q, "saving")
        /\ UNCHANGED answer

(* _save: a repeated unique column is a conflict, a record deleted         *)
(* meanwhile an unexpected error.                                          *)
Save(q) ==
  /\ Ready(q, "saving")
  /\ IF Creates(cmd[q]) THEN Spend(cmd[q].table) ELSE UNCHANGED issued
  /\ \/ Stale(q) /\ End(q, 500, db)
     \/ ~Stale(q) /\ Repeats(q) /\ End(q, 409, db)
     \/ /\ Flushable(q)
        /\ Flush(q, "done")
        /\ UNCHANGED <<sent, answer>>

(* _suppliers_page, _materials_page: the list is read after the refusal.   *)
Show(q) ==
  /\ Ready(q, "showing")
  /\ \/ FlushFails(q)
     \/ Flushable(q) /\ Flush(q, "shown") /\ UNCHANGED <<issued, sent, answer>>

(* A DELETE that finds no row is only warned about. *)
Delete(q) ==
  /\ Ready(q, "deleting")
  /\ Flush(q, "done")
  /\ UNCHANGED <<issued, sent, answer>>

Commit(q) ==
  /\ pc[q] \in {"done", "shown"}
  /\ End(q, IF pc[q] = "done" THEN 200 ELSE 422, View(q))
  /\ UNCHANGED issued

(* PostgreSQL ends one request of a deadlock: an error nobody expects.     *)
Victim(q) == Deadlocked(q) /\ Fail(q, 500)

(* The process or its connection is lost. *)
Lose(q) == pc[q] # "idle" /\ Fail(q, None)

(* What the server and the database do for a request that has begun. *)
Statement(q) ==
  Look(q) \/ Enter(q) \/ Save(q) \/ Show(q) \/ Delete(q) \/ Commit(q) \/ Victim(q)

Next == \E q \in Request :
  (\E c \in Asked : Begin(q, c)) \/ Statement(q) \/ Lose(q)

Spec == Init /\ [][Next]_vars

(* A thread of the server carries every request on; PostgreSQL grants locks *)
(* in the order they were asked for and breaks deadlocks.                   *)
Fairness == \A q \in Request : SF_vars(Statement(q))

FairSpec == Spec /\ Fairness

-----------------------------------------------------------------------------
(* A material refers to its unit by an identifier the unit table issued.   *)
TypeOK ==
  /\ issued \in [Table -> 0 .. MaxId]
  /\ pc \in [Request -> Stage]
  /\ cmd \in [Request -> Asked \cup {None}]
  /\ answer \in [Request -> {200, 404, 409, 422, 500, None}]
  /\ \A x \in db \cup UNION {own[q].put : q \in Request} :
       /\ x.table \in Table /\ x.id \in 1 .. issued[x.table]
       /\ DOMAIN x.col = Columns(x.table)
       /\ x.table = "material" => x.col["unit"] \in 1 .. issued["unit"]

(* BP-01, BP-05, BP-06: however edits, creations and deletions interleave, *)
(* no INN, article or OKEI code is stored twice, and no material is stored *)
(* without its unit.                                                       *)
Integrity == Consistent(db)

Ends(q) == pc[q] # "idle" /\ pc'[q] = "idle"

(* db.py:50: a request that is refused or fails leaves nothing behind,     *)
(* whatever it had flushed by then.                                        *)
RefusedStep(q) == Ends(q) /\ answer'[q] # 200 => db' = db

RefusalStoresNothing == [][\A q \in Request : RefusedStep(q)]_vars

(* The same of the HTTP API, where no route catches the error.             *)
ApiRefusalStoresNothing ==
  [][\A q \in Request : cmd[q] # None /\ cmd[q].via = "api" => RefusedStep(q)]_vars

(* Of two edits of one record the later takes nothing of the earlier back  *)
(* but what it sends itself: from the row that is stored when it commits,  *)
(* not the one it had read, a request changes only the columns in which    *)
(* its user differs from what was read, and no row but its own.            *)
RestKept(q) ==
  \A x \in db, y \in db' : Name(x) = Name(y) /\ x # y =>
    /\ Name(x) = <<cmd[q].table, cmd[q].id>>
    /\ \A f \in DOMAIN x.col :
         y.col[f] # x.col[f] => sent[q][f] # read[q][f] /\ y.col[f] = sent[q][f]

EditsKeepTheRest == [][\A q \in Request : Ends(q) => RestKept(q)]_vars

(* A request that reports success has stored it: the columns an edit sent  *)
(* have the values it was asked for, the record it deleted is gone, the    *)
(* record it created is there.  What other requests do between its read    *)
(* and its commit takes none of it back.  (An edit that changes nothing    *)
(* sends nothing.)                                                         *)
Changed(q) == {f \in DOMAIN cmd[q].col : cmd[q].col[f] # read[q][f]}

Stored(q, d) ==
  LET c == cmd[q]
      kept == IF Edits(c) THEN Find(d, c.table, c.id)
                          ELSE {x \in d : x.table = c.table}
      fields == IF Edits(c) THEN Changed(q) ELSE DOMAIN c.col
  IN \/ c.op = "delete" /\ Find(d, c.table, c.id) = {}
     \/ Edits(c) /\ Changed(q) = {}
     \/ /\ c.op = "save"
        /\ \E x \in kept : \A f \in fields : x.col[f] = c.col[f]

SuccessStep ==
  \A q \in Request : Ends(q) /\ answer'[q] = 200 => Stored(q, db')

SuccessIsStored == [][SuccessStep]_vars

(* No request waits for ever, though two of them can wait for each other.  *)
EveryRequestEnds == \A q \in Request : pc[q] # "idle" ~> pc[q] = "idle"

(* services.py:25: a refusal by the database is explained to the user,     *)
(* never an internal error.                                                *)
EveryFailureIsExplained == \A q \in Request : answer[q] # 500

(* README.md, roles: the directory of units is kept by administrators.     *)
OnlyAdminsEnterUnits ==
  \A q \in Request : \A x \in own[q].put :
    x.table = "unit" => cmd[q] \in Admin

=============================================================================
