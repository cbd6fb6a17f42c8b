------------------------------- MODULE Seeding -------------------------------
(***************************************************************************)
(* app/seed.py and app/demo_seed.py: programs that fill the database, run  *)
(* by hand and by every start of the containers, next to each other and to *)
(* the users of the application, and stopped at any moment.                *)
(*                                                                         *)
(* A row is the set of the values its unique constraints are about, with   *)
(* who wrote it: a unit has a code of OKEI and a designation, a partner (a *)
(* supplier or a material) a key, a receipt the number of its invoice.     *)
(* The transactions are READ COMMITTED.                                    *)
(***************************************************************************)
EXTENDS Naturals, Sequences, SequencesExt, FiniteSets

CONSTANTS
  Seeder, Demo,   (* runs of seed and of demo_seed                         *)
  Units,          (* rules.OKEI in the order of its codes                  *)
  Partners,       (* the partners of demo_seed, in its order               *)
  UnitOf,         (* UnitOf[k]: the unit of the material k, "" if supplier *)
  Receipts,       (* RECEIPT_COUNT                                         *)
  Uses,           (* Uses[n]: the partners of the receipt n                *)
  Starts,         (* the rows there may be at the beginning                *)
  Steps, Again    (* bounds: steps of the users, runs begun again          *)

Run == Seeder \cup Demo

SeedingAssumption ==
  /\ Seeder \cap Demo = {} /\ "user" \notin Run
  /\ Receipts \in Nat \ {0} /\ Steps \in Nat /\ Again \in Nat
  /\ \A set \in Starts : \A row \in set : row.by \notin Run
  /\ Units \in Seq(ToSet(Units)) /\ Partners \in Seq(ToSet(Partners))
  /\ \A k \in ToSet(Partners) : UnitOf[k] \in ToSet(Units) \cup {""}
  /\ \A n \in 1 .. Receipts : Uses[n] \subseteq ToSet(Partners)

(* The values of the rows. *)
Okei(u) == <<"okei", u>>
Code(u) == <<"code", u>>
UnitRow(u) == {Okei(u), Code(u)}
Admin == {<<"login", "admin">>}
PartnerRow(k) == {<<"partner", k>>}
Invoice(n) == {<<"invoice", n>>}

UserInvoice == {<<"invoice", 0>>}

VARIABLES
  rows,      (* committed: [values, by]                                    *)
  pending,   (* pending[r]: the values of the rows r has inserted          *)
  stage,     (* stage[r]: where the program is                             *)
  todo,      (* todo[r]: the rows it has still to insert, one by one       *)
  kept,      (* kept[r][i]: whether the i-th partner, which r has found or *)
             (* saved, is still the one r knows                            *)
  disturbed, (* the runs next to which somebody else wrote something       *)
  advice,    (* what was done of the advice of a run that found receipts   *)
  steps, again

vars == <<rows, pending, stage, todo, kept, disturbed, advice, steps, again>>

Ended == {"none", "exit 0", "already", "no admin", "exit 1", "killed"}
Running == {r \in Run : stage[r] \notin Ended}

Init ==
  /\ rows \in Starts
  /\ pending = [r \in Run |-> {}]
  /\ stage = [r \in Run |-> "none"]
  /\ todo = [r \in Run |-> <<>>] /\ kept = [r \in Run |-> <<>>]
  /\ disturbed = {} /\ advice = "none" /\ steps = 0 /\ again = 0

-----------------------------------------------------------------------------
Committed == UNION {row.values : row \in rows}
Sees(r) == Committed \cup UNION pending[r]

IsReceipt(row) == \E v \in row.values : v[1] = "invoice"
ReceiptRows == {row \in rows : IsReceipt(row)}

(* Everybody else who is running has been disturbed by this step of r. *)
Disturb(r) == disturbed' = disturbed \cup (Running \ {r})

Move(r, s) == stage' = [stage EXCEPT ![r] = s]

(* The exit of a program: its transaction is over one way or another. *)
Exit(r, s) ==
  /\ Move(r, s)
  /\ pending' = [pending EXCEPT ![r] = {}] /\ todo' = [todo EXCEPT ![r] = <<>>]
  /\ kept' = [kept EXCEPT ![r] = <<>>]

(* An INSERT that meets a value of a committed row fails; one that meets a *)
(* value of an uncommitted row waits, and of those that wait for each      *)
(* other one fails.                                                        *)
HoldsPart(r, values) == \E row \in pending[r] : row \cap values # {}

(* Faulty: constraints that know nothing of invoices (before 0004). *)
ClashesButInvoices(values) == {v \in values : v[1] # "invoice"} \cap Committed # {}

Clashes(values) == values \cap Committed # {}

WaitsFor(r, q) ==
  /\ q # r /\ stage[r] = "insert" /\ todo[r] # <<>>
  /\ HoldsPart(q, Head(todo[r]))

(* Faulty: nobody notices. *)
NeverDeadlocked(r) == FALSE

(* A set of runs each of which waits for, and is waited for by, some of it. *)
Deadlocked(r) ==
  \E S \in SUBSET Run : r \in S /\ \A p \in S :
    (\E q \in S : WaitsFor(p, q)) /\ (\E q \in S : WaitsFor(q, p))

-----------------------------------------------------------------------------
(* seed.fill: one query for what there is; a unit is added if neither of   *)
(* its values is there.  The query for the administrator flushes them.     *)

(* Faulty: only the code of OKEI is looked at. *)
IsNewByOkei(u, seen) == Okei(u) \notin seen

IsNew(u, seen) == Okei(u) \notin seen /\ Code(u) \notin seen

Missing(seen) ==
  FlattenSeq([i \in 1 .. Len(Units) |->
    IF IsNew(Units[i], seen) THEN <<UnitRow(Units[i])>> ELSE <<>>])

Begin(r) ==
  /\ stage[r] = "none"
  /\ IF r \in Seeder
     THEN /\ todo' = [todo EXCEPT ![r] = Missing(Committed)]
          /\ Move(r, "insert")
     ELSE /\ Move(r, IF Admin \subseteq Committed THEN "partners" ELSE "no admin")
          /\ UNCHANGED todo
  /\ disturbed' = IF Running = {} THEN disturbed \ {r} ELSE disturbed \cup {r}
  /\ UNCHANGED <<rows, pending, kept, advice, steps, again>>

(* What a row of the table refers to.                                      *)
Refers(row) ==
  UNION {PartnerRow(k) : k \in UNION {Uses[n] : n \in {m \in 1 .. Receipts :
    row = Invoice(m)}}}
  \cup UNION {UnitRow(UnitOf[k]) : k \in {j \in DOMAIN UnitOf :
    UnitOf[j] # "" /\ row = PartnerRow(j)}}

(* A receipt is refused if a partner in it was deleted after the program   *)
(* had found it, though another may have been entered under its key.       *)
RefersToLost(r, values) ==
  \E i \in DOMAIN kept[r] :
    ~kept[r][i] /\ PartnerRow(Partners[i]) \subseteq Refers(values)

(* db.add and flush, for the programs and for save_material alike. *)
Insert(r) ==
  /\ stage[r] = "insert" /\ todo[r] # <<>>
  /\ LET values == Head(todo[r]) IN
     \/ /\ Clashes(values) \/ RefersToLost(r, values)
        /\ Exit(r, "exit 1") /\ UNCHANGED disturbed
     \/ /\ ~Clashes(values) /\ ~RefersToLost(r, values)
        /\ \A q \in Run \ {r} : ~HoldsPart(q, values)
        /\ pending' = [pending EXCEPT ![r] = @ \cup {values}]
        /\ todo' = [todo EXCEPT ![r] = Tail(@)]
        /\ Disturb(r) /\ UNCHANGED <<stage, kept>>
     \/ /\ Deadlocked(r) /\ Exit(r, "exit 1") /\ UNCHANGED disturbed
  /\ UNCHANGED <<rows, advice, steps, again>>

(* seed: the administrator is looked for when the units are flushed, and   *)
(* inserted by the commit.                                                 *)
AskAdmin(r) ==
  /\ r \in Seeder /\ stage[r] = "insert" /\ todo[r] = <<>>
  /\ IF Admin \subseteq Sees(r)
     THEN Move(r, "commit") /\ UNCHANGED todo
     ELSE todo' = [todo EXCEPT ![r] = <<Admin>>] /\ UNCHANGED stage
  /\ UNCHANGED <<rows, pending, kept, disturbed, advice, steps, again>>

Stored(r) == rows \cup {[values |-> row, by |-> r] : row \in pending[r]}

(* Some of what was advised: `make migrate && make seed`. *)
Advised(done) ==
  IF done = "already" THEN "told"
  ELSE IF done = "seed" /\ advice = "migrated" THEN "cleared"
  ELSE advice

CommitSeed(r) ==
  /\ r \in Seeder /\ stage[r] = "commit"
  /\ rows' = Stored(r) /\ Exit(r, "exit 0") /\ Disturb(r)
  /\ advice' = Advised("seed")
  /\ UNCHANGED <<steps, again>>

-----------------------------------------------------------------------------
(* demo_seed.fill: a partner that is not there is saved, and a material's  *)
(* unit on the way; then everything is committed.                          *)
ToSave(r, k) ==
  LET u == UnitOf[k] IN
  (IF u = "" \/ Okei(u) \in Sees(r) THEN <<>> ELSE <<UnitRow(u)>>) \o <<PartnerRow(k)>>

(* Each partner is looked for once, in their order, and what was found or  *)
(* saved is kept.                                                          *)
Keep(r) == kept' = [kept EXCEPT ![r] = Append(@, TRUE)]

NextPartner(r) ==
  /\ stage[r] = "partners" /\ Len(kept[r]) < Len(Partners)
  /\ LET k == Partners[Len(kept[r]) + 1] IN
     IF PartnerRow(k) \subseteq Sees(r)
     THEN Keep(r) /\ UNCHANGED <<stage, todo>>
     ELSE /\ todo' = [todo EXCEPT ![r] = ToSave(r, k)]
          /\ Move(r, "insert") /\ UNCHANGED kept
  /\ UNCHANGED <<rows, pending, disturbed, advice, steps, again>>

IsPartner(row) == \E v \in row : v[1] \in {"partner", "okei"}

Saved(r) ==
  /\ r \in Demo /\ stage[r] = "insert" /\ todo[r] = <<>>
  /\ IF \A row \in pending[r] : IsPartner(row)
     THEN Move(r, "partners") /\ Keep(r)
     ELSE Move(r, "receipts") /\ UNCHANGED kept
  /\ UNCHANGED <<rows, pending, todo, disturbed, advice, steps, again>>

CommitPartners(r) ==
  /\ stage[r] = "partners" /\ Len(kept[r]) = Len(Partners)
  /\ rows' = Stored(r) /\ pending' = [pending EXCEPT ![r] = {}]
  /\ Move(r, "count") /\ Disturb(r)
  /\ UNCHANGED <<todo, kept, advice, steps, again>>

(* The receipts are counted; then each is created with its items. *)
Count(r) ==
  /\ stage[r] = "count"
  /\ IF ReceiptRows # {}
     THEN Exit(r, "already") /\ advice' = Advised("already")
     ELSE Move(r, "receipts") /\ UNCHANGED <<pending, todo, kept, advice>>
  /\ UNCHANGED <<rows, disturbed, steps, again>>

Number(r) == 1 + Cardinality({n \in 1 .. Receipts : Invoice(n) \in pending[r]})

NextReceipt(r) ==
  /\ stage[r] = "receipts" /\ Number(r) <= Receipts
  /\ todo' = [todo EXCEPT ![r] = <<Invoice(Number(r))>>]
  /\ Move(r, "insert")
  /\ UNCHANGED <<rows, pending, kept, disturbed, advice, steps, again>>

(* Faulty: a commit for each receipt. *)
ReadyEach(r) == pending[r] # {}

(* session.commit after the last of them. *)
Ready(r) == Number(r) > Receipts

CommitReceipts(r) ==
  /\ stage[r] = "receipts" /\ Ready(r)
  /\ rows' = Stored(r) /\ Disturb(r)
  /\ IF Number(r) > Receipts
     THEN Exit(r, "exit 0")
     ELSE pending' = [pending EXCEPT ![r] = {}] /\ UNCHANGED <<stage, todo, kept>>
  /\ advice' = "none"
  /\ UNCHANGED <<steps, again>>

-----------------------------------------------------------------------------
(* A program is stopped: what it did not commit is lost. *)
Kill(r) ==
  /\ r \in Running /\ again < Again /\ Exit(r, "killed") /\ Disturb(r)
  /\ UNCHANGED <<rows, advice, steps, again>>

StartAgain(r) ==
  /\ stage[r] \in Ended \ {"none"} /\ again < Again /\ again' = again + 1
  /\ Move(r, "none")
  /\ UNCHANGED <<rows, pending, todo, kept, disturbed, advice, steps>>

(* make migrate at the last version changes nothing. *)
Migrate ==
  /\ advice = "told" /\ advice' = "migrated"
  /\ UNCHANGED <<rows, pending, stage, todo, kept, disturbed, steps, again>>

(* The users: whatever is not referred to can be deleted, and anything     *)
(* entered; a row another run holds is waited for.                         *)
InUse(values) ==
  \E row \in {x.values : x \in rows} \cup UNION {pending[r] : r \in Run} :
    Refers(row) \cap values # {}

UserDeletes(row) ==
  /\ steps < Steps /\ row.values # Admin /\ ~InUse(row.values)
  /\ rows' = rows \ {row}
  /\ kept' = [r \in Run |-> [i \in DOMAIN kept[r] |->
               kept[r][i] /\ row.values # PartnerRow(Partners[i])]]
  /\ steps' = steps + 1 /\ disturbed' = Run
  /\ advice' = "none"
  /\ UNCHANGED <<pending, stage, todo, again>>

UserEnters(values) ==
  /\ steps < Steps /\ ~Clashes(values) /\ \A r \in Run : ~HoldsPart(r, values)
  /\ rows' = rows \cup {[values |-> values, by |-> "user"]}
  /\ steps' = steps + 1 /\ disturbed' = Run
  /\ advice' = "none"
  /\ UNCHANGED <<pending, stage, todo, kept, again>>

Program(r) ==
  \/ Insert(r) \/ AskAdmin(r) \/ CommitSeed(r) \/ NextPartner(r) \/ Saved(r)
  \/ CommitPartners(r) \/ Count(r) \/ NextReceipt(r) \/ CommitReceipts(r)

Next ==
  \/ \E r \in Run : Begin(r) \/ Program(r) \/ Kill(r) \/ StartAgain(r)
  \/ Migrate
  \/ \E row \in rows : UserDeletes(row)
  \/ \E k \in DOMAIN UnitOf : UserEnters(PartnerRow(k))
  \/ UserEnters(UserInvoice)

Spec == Init /\ [][Next]_vars

(* A program goes on until it waits; the database notices a deadlock. *)
Fairness == \A r \in Run : WF_vars(Program(r))

FairSpec == Spec /\ Fairness

-----------------------------------------------------------------------------
(* demo_seed.py:7: the receipts are created once: of runs that counted no  *)
(* receipts at the same time only one stores its own.                      *)
DemoReceipts == {row \in rows : row.by \in Demo /\ IsReceipt(row)}

CreatedOnce == \A x, y \in DemoReceipts : x.by = y.by

(* demo_seed: a run that fails or is stopped leaves no part of the         *)
(* receipts: a run stores all of them in one step, or none.                *)
WholeStep ==
  \A r \in Demo :
    LET new == {row \in rows' \ rows : row.by = r /\ IsReceipt(row)} IN
    new = {} \/ Cardinality(new) = Receipts

(* seed.py:25: a run next to which nobody else writes does not fail,       *)
(* whatever units there are and whatever a run that was stopped left       *)
(* behind; only demo_seed fails on a unit made by hand.                    *)
NoneFailsAlone ==
  \A r \in Run : stage[r] = "exit 1" =>
    \/ r \in disturbed
    \/ r \in Demo /\ \E row \in rows : \E u \in ToSet(Units) :
         Code(u) \in row.values /\ Okei(u) \notin row.values

(* The programs end, next to each other too. *)
EveryRunEnds ==
  \A r \in Run : stage[r] \in {"partners", "insert"} ~> stage[r] \in Ended

(* demo_seed.py:155: after `make migrate && make seed` the base is clear   *)
(* and can be filled anew.                                                 *)
AdviceClears == advice = "cleared" => ReceiptRows = {}

=============================================================================
