# Warehouse accounting: a verification project

TLA+ models of the warehouse accounting service (FastAPI, SQLAlchemy 2.0,
psycopg, PostgreSQL 16) and of the programs around it, the TLC configurations
that check them on small instances, and proofs checked by TLAPS. Paths such as
`services.py:253` are relative to `app/` of the repository.

## 1. Inventory

### Parts, their state and how they interact

| Part | Source | State it keeps | Operations |
|---|---|---|---|
| Schema | `models.py`, `migrations/` | six tables: `unit`, `supplier`, `material`, `app_user`, `receipt`, `receipt_item`; primary keys, unique columns, foreign keys (`RESTRICT`, and `CASCADE` from receipt to item), CHECKs, a generated column `amount` | create, upgrade, downgrade |
| Operations | `services.py` | none of its own; reads and writes one ORM session | enter, edit and delete directory records, receipts, items, accounts; report |
| Transactions | `db.py` | one engine with a pool of connections; one session a request | `session_scope`: commit at the end, roll back on an exception, close |
| HTTP API | `api.py` | — | JSON routes over the operations |
| Forms | `web.py` | — | HTML routes over the same operations; an `AppError` is caught and the page shown again |
| Errors | `rules.py`, `main.py` | — | `AppError` to 403/404/409/422; a violated constraint to a 409 (`DB_ERRORS`); anything else to 500 |
| Value rules | `rules.py` | tables of OKEI codes | checks of INN, sku, quantity, price, date, invoice number, login, password |
| Sessions | `auth.py` | a signed cookie with the user's id and the time | login, logout, the user of a request (loaded once and detached) |
| Report | `services.py:316` | — | totals of a period by supplier |
| Seeding | `seed.py`, `demo_seed.py` | — | fill the directories and an administrator; demonstration data in two commits |
| Backups | `dbadmin.py`, `deploy/docker/dbctl.sh` | files in a directory | copy, list, restore with a safety copy first |
| Process | `main.py`, `db.py`, `healthcheck.py` | worker threads, connection pool | `lifespan`, `healthz`, the probe of the container |
| Tools | `tools/` | copies of the project; runs of CI | the mutation check, the guard of the main branch, static checks |

A request takes a session (`get_session`), which loads the user of the cookie
(`auth.find_user`), runs one operation of `services.py` and answers. The
session is a dependency of the default scope, so FastAPI sends the response
and commits **after** it. Requests run in threads and in several containers;
they share nothing but the database. Every handler checks first and acts
later: it SELECTs what it needs, applies rules, and `_save` flushes an INSERT,
an UPDATE or a DELETE. PostgreSQL runs at its default READ COMMITTED level, so
what was read may be gone when the statement arrives. What holds then is what
row locks, unique indexes and foreign keys enforce. The programs (`seed`,
`demo_seed`, `dbadmin`, Alembic) meet the application in the same database.

### Hard behaviours

* check then act across transactions (`create_receipt`, `add_item`, every
  `delete_*` with its count of referrers);
* a success reported before the commit, a process lost in between;
* the user of a request kept after the account is deleted; a cookie that
  outlives the account, the clock cut to seconds on one side only;
* edits: assignment field by field to a loaded object, autoflush by later
  queries, an `AppError` caught by a form and the session committed;
* statements of one transaction that lock in different orders (a form that
  edits a material and creates a unit; two programs that fill the directories);
* a pool of connections smaller than the number of threads, a thread taken
  twice by one request;
* pages read by several statements between other requests' commits;
* copies, restoration, migration and seeding with requests going on, stopped
  at any step and begun again;
* values at the limits of two definitions of one rule: Python and PostgreSQL;
* in the tools, a verdict of CI that is of an earlier state than the merge,
  and compiled files of an earlier mutation.

The list with lines is `hazards` in `PROJECT.json`.

### What makes each part correct

* **Schema and operations**: no two rows share a unique column, no row refers
  to one that is gone (BP-01, 05, 06, 07, 08, 11 of the repository's rules),
  under every interleaving; concurrent requests do nothing but whole operations.
* **Transactions**: nothing is saved in part; a reported success is kept.
* **Errors**: a refusal is true and names what the documents promise.
* **Sessions and roles**: a session opens its own account for its hours; an
  action is done by somebody entitled to it; the system is not left without an
  administrator by an administrator in place.
* **Process**: every request ends.
* **Value rules, report**: agree with their definitions, at the boundaries too.
* **Seeding**: a run alone succeeds from whatever is there; two together add
  nothing twice.
* **Backups, migrations**: what a restoration replaces is in a copy, unless it
  was committed after the safety copy had begun; every failure leaves the
  database alone; numbers come back after a way down and up.
* **Tools**: the guard passes only what was compared with what is merged; the
  mutation check counts the result of each run once and takes no other
  mutation for one but one that makes the file as long.

## 2. Modules

| Module | What it is |
|---|---|
| `Schema` | Rows, references, unique columns; `Consistent(d)`: what it is for a set of rows to be a database of this schema. No variables. |
| `Warehouse` | The abstract specification: one variable `db`, changed by one whole operation at a time (`Enter`, `Strike`, `StrikeReceipt`). |
| `Requests` | The handlers that insert and delete, run by concurrent requests with their reads, checks, flush, response, commit, refusal and loss. Implements `Warehouse`. |
| `Saves` | The edits, and the unit a form creates on the way, one SQL statement a step. |
| `Items`, `Texts`, `Inn` | The value rules, with the columns and CHECKs behind them. |
| `Report` | The list of receipts and the report, read while others write. |
| `Sessions` | Cookies, their hours, and the accounts they stand for. |
| `Pool` | Threads, connections, the health check and the stop of one instance. |
| `Seeding` | `seed` and `demo_seed` with their transactions. |
| `Backups` | Copies and restorations, by `dbadmin` and by `dbctl.sh`. |
| `Migrations` | Revisions 0001–0004 up and down over receipts. |
| `Mutation` | The mutation check of `tools/mutation.py`. |
| `Guard` | `tools/ci_guard.py` at work on branches and merges. |
| `Programs` | `Migrations`, `Seeding`, `Backups` and `Guard` next to each other: each step is of one of them and leaves the state of the rest. |
| `Application` | `Inn`, `Items`, `Texts`, `Report` and `Sessions` next to each other, as in `Programs`. |
| `SchemaProofs`, `WarehouseProofs`, `RequestsProofs`, `SavesProofs`, `ApplicationProofs`, `ProgramsProofs`, `MutationProofs` | The theorems of the modules they are named after. |
| `FoldTheorems` | Laws of the recursive functions the community modules are built from: least elements, flattened sequences, sums over sets in any order. |
| `MCWarehouse`, `MCRequests`, `MCSaves`, `MCApplication`, `MCPrograms`, `MCEndings` | Small instances for TLC. |

`MCApplication`, `MCPrograms` and `MCEndings` put several components under one
run: the variable `part` is chosen at the start and only the component of that
part moves. The components of one such module share no state (their coupling
is the database, which each module models as far as it reads it), so nothing
is lost by it, and each is checked on all its own behaviours. The behaviours of
`MCApplication` are behaviours of `Application`, those of `MCPrograms` of
`Programs`, and those of `MCEndings` with the
part `"mutation"` are behaviours of `Mutation`; the theorems are about these,
where nobody stands still.

### Schema

A database is one set of rows; a row is a record that carries the name of its
table, its identifier, its foreign keys and its unique columns. `Refs(x)` are
the rows `x` refers to and `Key(x)` its unique columns, so one definition each
covers every foreign key and every unique constraint. `unit.code` is left out:
`rules.OKEI` makes it a function of the OKEI code, one to one (`Seeding`, where
a unit may have been made by hand, has both). Columns that are neither keys nor
references are in `Saves`, `Items`, `Texts` and `Report`.

### Requests and the code

| Model | Code |
|---|---|
| `db`, `seq` | committed rows; the sequences of the `serial` columns |
| `pc`, `cmd`, `actor` | where a request is, what was posted, the user `find_user` loaded and expunged |
| `write` | the object of the session: the row to insert or delete |
| `answer` | status, kind of message, and the records the message names |
| `Begin` | `auth.current_user`; a request of nobody is answered 401 and is not modelled |
| `CreateUnit` … `DeleteItem` | one action per operation of `services.py`, from the SELECTs to the call of `_save`: each refusal in the order of the code, each check on what is committed **now** |
| `Flush` | `_save`: waits for statements it collides with, takes an identifier, then constraints decide on what is committed **then**; a violation becomes the answer of `rules.database_error` |
| `Respond`, `Commit` | the response, then the commit of `session_scope` |
| `Lose` | the process or the connection is lost at any stage; the transaction is rolled back |

The SELECTs of one handler are one step. They are several statements, each
with its own snapshot, but every answer they can give when apart is also given
by one of these single reads followed by the constraint at the flush (a
receipt found with an invoice implies its supplier, by the foreign key).
`Invalid` is offered wherever a value rule may refuse; which values it refuses
is the subject of `Items`, `Texts` and `Inn`.

`Collide` says which statements PostgreSQL does not let be in flight together:
they touch the same row or the same entry of a unique index, or one removes a
row that the other refers to (a foreign key takes `FOR KEY SHARE` on the row it
points to). Deletions collide by what they remove, items of a receipt included.

### Saves and the code

`Requests` sends one statement a request. An edit may send several, because
SQLAlchemy flushes the changed object of a session before each query, not only
where `_save` says so.

| Model | Code |
|---|---|
| `read`, `sent` | the columns of the object as loaded, and as the handler assigned them; `Dirty` is the difference, which is all an UPDATE names |
| `own` | the rows the transaction has put and replaced; `View` is what its next query sees |
| `Begin` | `save_supplier`, `save_material`, `delete_*` up to the first query after the assignments: 404, a field refused after others were assigned |
| `Look`, `Enter`, `Save` | `services.py:178-193`: the query for the unit (which flushes the material), the unit a form adds, `_save` |
| `Show` | the page a refused form is shown again, whose query flushes what was assigned |
| `Delete`, `Commit` | the DELETE, and `session_scope` |
| `Victim`, `Lose` | PostgreSQL ends one request of a deadlock; the process or connection is lost |

A statement waits while another transaction holds a row it touches or the
entry of a unique index it writes (`Held`, `Wanted`, `Blockers`).

### Value rules and pages

* `Items`: a number is a Python decimal, mantissa and exponent; words such as
  `NaN` that `Decimal` reads are values too. `Check` is `add_item` up to
  `_save` with the verdicts in the order of the code; `Insert` rounds and
  limits as the columns do and computes `amount` as the generated column does;
  `ChangeUnit` is the edit of a material that changes what is counted in pieces.
* `Texts`: a text is a sequence of characters, one for each class the rules
  or the database tell apart (blanks, letters whose other case is of another
  length or alphabet, digits of other scripts, and U+0000, which no text column
  takes). `Validated` has one definition for each rule of `rules.py`, `Checked`
  the CHECK and `FitsColumn` what its column takes; `Save` answers a broken
  CHECK with 409 and what the column does not take with 500; `SendBack` is a
  form that edits a record, `LogIn` the sign-in.
* `Inn`: the three weighted sums written out; a user copies a correct number
  and replaces a digit, drops or adds one, or writes it in other characters.
* `Report`: a reader makes the three statements of `list_receipts` or the one
  of `receipts_report` (outer joins, `GROUP BY`), while writers commit between
  them.

### Sessions, Pool

* `Sessions`: the clock runs finer than the second a cookie is stamped with; a
  reply travels to the browser before the browser keeps it and counts
  `max_age`. Accounts are created, deleted, copied and restored with their
  sequence. The identity of an account (`who`) is kept beside its identifier
  for the properties to compare.
* `Pool`: a request takes a thread for `find_user`, keeps the connection while
  it waits for a thread for its handler, and gives it back after the response;
  a probe takes both for one `SELECT 1`. `Toggle` is PostgreSQL stopping and
  starting, `Stop` and `Dispose` the end of the server.

### Programs

* `Seeding`: each program inserts its rows one by one in transactions that
  lock like any others, may be killed and started again, and runs next to
  others and to users who enter and delete. `seed` looks once and adds what is
  missing; `demo_seed` looks for each partner once, in their order, and keeps
  what it found or saved (`kept`), commits, counts receipts and then creates all
  of them; a receipt is refused if a partner in it was deleted meanwhile
  (`RefersToLost`). A unit deleted between its lookup and the INSERT of its
  material is not refused in the model.
* `Backups`: a state of the database is a number, a copy a file with a name
  (prefix, second, number). The steps are those of `create_backup`,
  `check_archive` and `restore_backup`; `dbctl.sh` differs in the name, the
  `.part` file and the moment it stops the application. While `dbadmin` restores
  the application commits as it likes, since nothing but the operator stops it;
  `missed` remembers the runs since whose dump it has. `alone` is the set of
  programs whose runs come one after another: `dbadmin` only, both, or none.
* `Migrations`: the rows of `receipt` with the number their user entered kept
  beside the stored one. An upgrade to the last version is one transaction
  (`env.py`), `UpgradeOne` and `Downgrade` go step by step, requests enter
  receipts at every version that has the table.
* `Mutation`: worker threads take mutations in order and copies from a queue;
  a file has a size and a second, and the import takes the compiled file when
  both agree, whatever mutation it was made from.
* `Guard`: a state of the project is what the guard compares. Branches are
  changed, updated and labelled; each push and each label starts a run on what
  is then there; a merge needs an up-to-date branch whose last run of the
  request passed.

### What is external

PostgreSQL, SQLAlchemy, the server, Git and GitHub are modelled from how the
code uses them and marked external in the map: locks and sequences, the pool
and the threads, the merge of two branches, the clock. Constraints come from
`models.py` and the migrations.

## 3. Runs

| Run | Bounds | What it shows |
|---|---|---|
| `warehouse` | one code, number, article and invoice, two logins, identifiers up to 2, from a seeded database | whole operations keep `Integrity` |
| `receiving` | 3 requests, identifiers up to 2, three starts (a receipt with an item, one without, none); receipts and items entered and deleted, supplier and material deleted | `Integrity` and `SuccessCanCommit` under three-way interleavings |
| `directories` | 2 requests, identifiers up to 2, two starts (as seeded, and with a supplier and a material) | `IInv`, the invariant the proofs use, and `Implements` |
| `accounts` | 2 requests, identifiers up to 3, two administrators | the last administrator goes only by a request of one deleted meanwhile |
| `progress` | 2 requests, no symmetry, fairness | every request ends |
| `edits` | 2 requests over three sets of commands (suppliers and materials by the API, materials and their units by forms), identifiers up to 3 | `TypeOK`, `Integrity`, a refusal by the API leaves nothing, a reported success is stored, an edit takes nothing of another back |
| `application` | INNs with two digits free; decimals around limits of one digit; texts of up to three characters of eleven classes, and of four of five, under limits of two; 2 suppliers, 2 receipts, 2 materials and 7 filters; sessions of two seconds, three accounts, one restoration | the rules, the pages and the sessions |
| `programs` | 3 receipts over four versions; one and two runs of `demo_seed` with and without `seed`; one restoration after another over two seconds (by `dbadmin`; with `dbctl.sh` in one), two at once in one, with one commit of the application at any moment; two branches and two changes | what the programs leave of data they do not own, and what master may lose |
| `endings` | 2 forms, 2 requests and a probe on one thread and one connection, `seed` next to `demo_seed`, 3 mutations in 2 copies, two of them as long as the original; fairness | everything that waits goes on; the mutation check counts each run once, and what a run tested is its mutation or one as long |
| `invoice_known`, `in_use_claim`, `edits_refused` | 2 requests | **expected violations**, section 4 |

Why the bounds are enough:

* one value of each unique column makes insertions of one table compete, which
  is the interesting case, wherever two identifiers of the table are free:
  units, suppliers and materials in `directories`, receipts and items from two
  of the starts of `receiving`, receipts in `invoice_known`. In `progress`, and
  from the first start of `receiving`, one receipt and one item identifier is
  left, so what competes there is one insertion with the deletions;
* two identifiers let a record be deleted and entered again; a race needs two
  requests, and a third can commit between the flush and the commit of another
  or take the lock two others wait for;
* in `edits` two values of each column distinguish an edit from what it
  overwrites, and a repeated key from a new one; deadlock needs two;
* the limits of columns and patterns are constants, made so small that values
  below, at and above each of them are among the inputs; the classes of
  characters are those any rule, CHECK or text column tells apart;
* a session of two seconds under half seconds has every relation of the cut
  stamp, the true time and the time the browser counts from;
* one thread and one connection are the tightest pool; two requests and a
  probe then wait for each in every order;
* three mutations in two copies use a copy again while the other is in use;
  their verdicts are all combinations, hanging ones included; two make the file
  as long as the unchanged one is, as most mutations of the code do, and one
  makes it longer, so a stale compiled file is taken in one case and not in the
  other.

Deadlock is checked in `warehouse`, `receiving`, `directories`, `progress`,
`edits` and the expected violations. Elsewhere the system really may stop: in
`accounts` two administrators can delete each other and then nobody can log
in; a validated text, a finished program or a check that has ended has no
further step. `MaxId` bounds the identifiers a sequence issues: `Begin` admits
an insertion only when there is room for it, so no request stops for want of
an identifier.

Each checked property has a fault of the code that breaks it, kept beside the
definition it replaces and marked `Faulty`: tables without unique columns, a
route without the user of the session, an API that catches the error as forms
do, a filter in the wrong clause of a join, a number of creation taken from
the rows instead of the sequence, a connection pool without a timeout, a
migration that fills every row, a guard run that a removed label does not
start, and so on.

### Fairness

* `Requests`: weak fairness of the handler's own steps (a thread of the server
  runs each request to its end), strong fairness of `Flush`: it is disabled
  while another transaction holds what it needs and enabled again when that
  one ends. PostgreSQL queues waiters for a lock, so a statement is not
  overtaken for ever.
* `Saves`: strong fairness of each request's statements, for the same reason;
  among them is `Victim`, since PostgreSQL looks for deadlocks.
* `Pool`: weak fairness of serving: threads run on and are given in the order
  they were asked for, the pool counts its 30 s.
* `Seeding`: weak fairness of each program's steps, the end of a deadlock
  among them. `Mutation`: weak fairness of the worker threads and of `main`; a
  run of the tests is stopped after its timeout.

Losses, kills, arrivals, clock ticks, outages and the deeds of users are never
fair: they need not happen.

## 4. Disagreements between the code and what is said of it

Three of them are runs that TLC ends with a counterexample:

* `invoice_known`: `docs/API.md:17-18` promises that a repeated invoice number
  is refused with the receipt it was entered with. Of two requests that enter
  it at once, the second is refused by `uq_receipt_invoice`, and the message
  (`rules.py:378`) names no receipt.
* `in_use_claim`: a receipt entered for a supplier that was deleted after the
  handler had found it is refused with «Поставщик указан в поступлениях»,
  БП-08 (`rules.py:368`), although no receipt refers to that supplier. The
  table of messages does not know which side of a foreign key was written.
* `edits_refused`: `db.py:50-51` says that no document is saved in part. A
  form that edits a supplier catches the refusal of a later field
  (`web.py:175`) when the earlier ones are assigned; the query of the page it
  shows flushes them and the session is committed.

The other claims below are stated as properties in their modules and named
again in the MC module of their run. No run checks them: each is refuted when
it is added to that run's configuration. Three of them have a weaker property
beside them that does hold and is checked, saying how far the code goes:
`AcceptedIsStored`, `ReplacedStateIsSaved` and `SuccessMeansAlikeNoticed`.

| Property | Claim | What the code does |
|---|---|---|
| `EveryFailureIsExplained` (`Saves`, `endings`) | `services.py:25-28`: a refusal by the database reaches the user as a message | an edit of a material to a taken article is flushed by the query for the unit, outside `_save`, and ends as 500; so does an edit of a record deleted meanwhile |
| `SuccessIsStored` with the part `"zero"` (`Saves`, `edits`) | `docs/API.md:40`: an object that is not found is 404 | identifier 0 is false, so a new object is made, and not `None`, so it is not added: 200, and nothing is stored |
| `OnlyAdminsEnterUnits` (`Saves`, `endings`) | `README.md:220`: units are kept by administrators only | a form that saves a material adds its unit for any user (`services.py:181-184`) |
| `PieceQuantitiesAreWhole` (`Items`, `application`) | `README.md:155`, BP-02: pieces are whole | the rule looks at the unit of the moment; nobody looks at the items when the unit changes (`services.py:193`) |
| `AcceptedValuesFit` (`Items`, `application`) | `docs/API.md:95`: 201, 404, 409 or 422 | no upper limit; a number or amount too long for its column is 500 |
| `WordsAreRefused` (`Items`, `application`) | `rules.py:155-161`: what is no number is refused | `NaN` and `Infinity` are decimals; comparing them raises (`rules.py:166`): 500 |
| `EveryDigitMatters` (`Inn`, `application`) | `docs/TESTING.md:68`: a replaced digit makes an INN wrong | remainders 0 and 10 share the control digit 0 (`rules.py:231`) |
| `TextsAreAnswered` (`Texts`, `application`) | `docs/API.md:74`: a supplier is answered 201, 409 or 422 | `validate_text` (`rules.py:341-359`) accepts a name or a phone with U+0000; no text of PostgreSQL has it, and the `DataError` goes through `_save` (`services.py:35-40`) to the handler of unexpected errors: 500 |
| `RuleAndCheckAgree`, `EveryNumberIsAnswered` (`Inn`, `application`) | `0001_initial.py:7-8`, `docs/API.md:74` | `str.isdigit` is true of other scripts' digits (409 by the CHECK) and of superscripts (`int` raises: 500) |
| `ListIsAnswered` (`Report`, `application`) | `docs/API.md:91`: 200 | a receipt and its supplier deleted between the statements leave `receipt.supplier` `None`; `receipt_json` fails |
| `SessionsAreOwn` (`Sessions`, `application`) | `auth.py:91`: the user of the session | a restored copy sets the sequence of `app_user` back; the next account gets the identifier an older cookie names |
| `HealthIsTrue` (`Pool`, `endings`) | `main.py:65`: availability of the database | an exhausted pool is reported as a database that is down (`db.py:77`) |
| `SuccessMeansNoticed` (`Mutation`, `endings`) | `mutation.py:12-15`: a mutation the tests do not fail on has survived, and the share of those noticed is at least `min_score` | `check` writes the next mutation over the former in one copy (`mutation.py:274`); when both are of one second and as long (`==` to `!=`, `+` to `-`, 3 to 4 mostly are), Python runs the compiled file of the former, and a mutation that nobody notices is counted as noticed; only the `Dockerfile` (`:15`, `:37`) sets `PYTHONDONTWRITEBYTECODE` |
| `NothingRunsAtDispose` (`Pool`, `endings`) | `main.py:36-37`: requests have ended | requests are given 15 s (`Dockerfile:71`), then `dispose` runs beside their threads |
| `AdviceClears` (`Seeding`, `programs`) | `demo_seed.py:155`: `make migrate && make seed` clears the base | neither removes anything |
| `ListIsInOrder` (`Backups`, `programs`) | `dbadmin.py:116`: from the oldest to the newest | `-1.dump` of a second sorts before its plain `.dump`, so the last of the list, which a restoration takes (`:205`), is not the newest |
| `NoPartialCopyStays` (`Backups`, `programs`) | `dbadmin.py:109`: an unfinished copy is worse than none | an interruption is no `BackupError`: the file stays and is the last of the list |
| `CopiesAtOnceStay` (`Backups`, `programs`) | `dbadmin.py:101`: several copies in one second | two runs look for the name before either file is there |
| `AllReplacedIsSaved` (`Programs`, `programs`) | `dbadmin.py:174`, `:213`: the state before the restoration is saved | the safety copy (`:130`) and `pg_restore` (`:133`) are two programs, and only `README.md:120` asks that the application be stopped: what it commits in between is in no copy; `dbctl.sh:111-114` stops it, but after its copy |
| `MadeUpNumberIsFree` (`Migrations`, `programs`) | `0003…:8-9`: the made-up number is unique for certain | a user may have written it («БН-2»); 0004 is then refused |
| `DowngradeKeepsEntered` (`Migrations`, `programs`) | `0003…:12-13`: entered numbers are kept | one equal to the made-up number is emptied; it comes back with the upgrade (`EnteredNumbersComeBack`) |
| `AgreedChangesPass` (`Guard`, `programs`) | `docs/CI.md:157-158`: a weakening passes with the label | the run of the push has no labels in its payload and fails whatever they are |
| `NoTestIsEmptied` (`Guard`, `programs`) | `ci_guard.py:15-16`: a test cannot be emptied under its name | checks are counted over all files together |

## 5. Proofs

* `WarehouseTypeOK`, `WarehouseIntegrity`: each operation preserves
  consistency. Deleting a receipt with its items needs the fact that nothing
  refers to an item (`ReceiptReferrers`).
* `RequestsInvariant`: `Spec => []IInv`. `Integrity` alone is not inductive: a
  commit applies a statement whose constraints were checked earlier. `IInv`
  adds that statements in flight are acceptable *now* and do not collide
  (`Isolation`), that a row in flight has an identifier no stored row has
  (`Numbered`) and that no identifier is that of a row being deleted
  (`NeverReused`). The core is that statements which are `Apart` do not
  disturb one another: after one takes effect the other removes the same rows
  (`RemovesUndisturbed`), is still acceptable (`AcceptsUndisturbed`) and still
  collides with nothing it did not collide with (`CollideUndisturbed`).
  `RequestsTypeOK`, `RequestsIntegrity`, `RequestsSuccessCanCommit` follow.
* `RequestsImplementWarehouse`: a commit is `Enter`, `Strike`,
  `StrikeReceipt` or, when another request deleted the row first, a stutter;
  every other step is a stutter.
* `RequestsLastAdmin`: by a second inductive invariant, `OthersDelete`: a user
  is deleted only by an administrator who is somebody else.
* `MistakesNoticed` (`ApplicationProofs`): for every correct INN. No weight is a
  multiple of 11, so a replaced digit changes the remainder (`Remainder`); it
  goes unnoticed only where the sum moves by 1 or −1 modulo 11, between the
  remainders 0 and 10 (`OneApart`). In ten digits that needs the control digit
  0 (`Detect10`); in twelve a digit would have to move both sums so, and no
  position has weights in both that are equal or opposite (`Detect12`).
* `ApplicationProofs` are about `AllSpec` of `Application`, for any number of
  browsers, accounts, suppliers, receipts and items, any limits of the columns
  and texts of any length; a step of another part is a stutter.
  * `SessionsStayOwn`: a session never opens another account while no copy is
    restored. `OwnInv`: every cookie, in a browser or on its way, names an
    identifier that the sequence has given, and an account that bears it is the
    one that signed in; a new account takes a larger one.
  * `SessionsServeTheirHours`, restorations included. The upper bound needs only
    that a cookie is stamped with the second of its signing in, less than a
    second away (`SecondIsClose`); the lower one could fail if an account came
    back under another identifier. `HoursInv`: an account is told by its number
    of creation, which is given once, and wherever a row of it is kept, in the
    database or in the copy, the identifier is that of its cookies.
  * `ListShowsTheUntouched`, with any writes between the statements. `ListInv`:
    of the receipts left alone, the first statement has found exactly those
    wanted, and the second has read their items as they are; one found earlier
    under the identifier of an untouched receipt is that receipt, as
    identifiers are given once (`Issued`).
  * `EnteredIsStored`, `AmountsAreComputed`. `EnteredInv`: what is about to be
    stored has no more places than the columns keep (`IsAccepted`), so that it
    is a multiple of their unit, which the half-unit rounding of the database
    leaves alone (`RoundingKeeps`). The amount may have more places, and there
    the two roundings are shown to agree (`RoundingsAgree`).
  * `AcceptedTextsAreStored`, `StoredTextsComeBack`. `TextInv`: a stored text is
    what the rule accepts of the text entered. A name or a phone with U+0000 is
    the one exception (`TextsAreAnswered`, section 4): the patterns keep it out of the other
    texts, and of a password the hash is stored. For an invoice number the CHECK
    and the rule differ; it holds since a text trimmed and joined again begins
    and ends with the characters it had (`StripTrims`, `FlattenEnds`,
    `JoinedEnds`). The capitals of a sku are left alone by the second
    conversion (`UpperKeeps`).
  * `ReportSaysWhatIsStored`. `ReportInv`: while a report is shown, its rows,
    groups and total are those of the tables. The join has one row for each
    item of the period (`JoinRows`), so its sum is the sum of the items
    (`SumOfImage`); the items of two suppliers have none in common, so the sum
    of the groups is that of the items of all (`SumOfParts`).
  * Three definitions they need are recursive functions: the powers of ten, the
    flattening of a sequence and the sum over a set. That the recursion has a
    solution is proved first (`PowLaw`, `FlattenLaw`, `SumsExist`), from finite
    tables of it, and the laws (`PowOfSum`, `FlattenSingles`,
    `OrderDoesNotMatter`) by `AllNumbers`: a set of numbers with 0 and the next
    of each of its members is all of them. For finite sets `AllSubsets` does the
    same. A sum takes the elements in the order of `CHOOSE`, which nothing is
    known of; `OrderDoesNotMatter` makes it a sum in any order.
* `SavesProofs`, for transactions of several statements, any number of requests
  and any commands. `Integrity` is not inductive: it speaks of committed rows
  and a commit brings rows that were checked statements ago. `IInv` says of
  each request what its transaction sees, `View`: no repeated name and no
  repeated unique column in it (`Owned`), a unit wherever one is referred to
  (`HasUnit`); and of any two that what they hold is disjoint (`Apart`). So the
  rows a transaction replaces are stored until it ends, and after another's
  commit it still sees a database without repetitions. `Known` keeps an
  identifier that was found from being one that somebody's insertion gets
  later, `Achieved` says of a finished request that its rows hold what it will
  report, `Room` that sequences stay below the bound. From it:
  `IntegrityHolds`, `TypeCorrect`, `EditsKeepTheRestHolds` (a commit changes of
  a row *as stored then* only the columns its user changed), `SuccessHolds` and
  `ApiRefusalsHold`. `SuccessHolds` supposes that a save names a new record or
  an identifier a record can have: of the identifier 0 it is false (section 4).
* `ProgramsProofs` are about `AllSpec`, all programs at once; each theorem has
  an inductive invariant of its own, and a step of another program is a stutter
  for it.
  * `MigrationsInductive`, `NumbersComeBack`: whatever way the migrations go.
    What holds below version 3 is weaker than what is wanted above it: only a
    number equal to the made-up one may be missing (`Numbered`), and that is
    the one `Fill` puts back. Each migration is a lemma about sets of rows
    (`FillKeeps`, `EmptyKeeps`, `DropKeeps`).
  * `RestorationIsWhole`: for any number of runs of either program at once, the
    database changes only to a state that was committed and stays as it is when
    a restoration fails. `WholeInv`: no file holds and no snapshot is of a state
    that was not committed by now, or else the file is known to be unfinished.
  * `CopiesAreKept`, of runs of `dbadmin` one after another (`alone`; at once it
    is false, section 4), and `RestorationSaves`, of runs of `dbadmin` and
    `dbctl.sh` one after another, the application committing at any moment.
    `AloneInv`: at most one run is under way and `Held` says, for each of its
    stages, which file it has written, that the file holds what its `pg_dump`
    saw, and that the database is still that or the application has committed
    since (`missed`). The name is free when it is chosen (`NewNameIsFree`), by
    the least free number. That *every* replaced state is saved is false
    (`AllReplacedIsSaved`, section 4).
  * `MasterIsGuarded`: a merge is allowed by a verdict given earlier.
    `FreshInv`: of a branch that is up to date and not merged, the run that goes
    on or has passed is of the present master, head and label, since whatever
    changes one of them begins another run, or takes the branch out of
    `current`; and a branch up to date merges to itself (`UpToDate`).
  * `GuardIsFair`: a branch nobody made weaker passes. `GrowsInv`: it takes
    nothing away from the state of master it *contains*, and each run that goes
    on compares just these two. That a merge of two such branches takes nothing
    away is shown entry by entry, and of numbers of checks by cardinality.
  * `ReceiptsOnce`, `ReceiptsWhole`: of any number of runs of `demo_seed`.
    Counting the receipts proves nothing, since another run may commit its own
    after the count. `SeedInv`: what a run has inserted shares no value with a
    committed row or with what another has inserted (`ApartInv`), which is what
    unique columns and locks enforce; a run that reaches its commit has inserted
    *every* invoice, so no other run has committed or inserted one. `DemoInv`
    says, for each stage, what a run has inserted and has still to insert.
  * `NobodyFailsAlone`. `UndisturbedInv`, of a run next to which nobody has
    written since it began: no other run has rows that wait for a commit, so it
    can be in no deadlock, and what it has still to insert meets no committed
    value, because what it looked for before is still committed
    (`MeetsNothing`, `NoInvoice`) and the partners it has kept are still those
    it found (`KeptInv`). `MissingAreNew` says of the
    list of units, and `ToSaveIsNew` of a partner with its unit, that they meet
    nothing; for `demo_seed` the exception is a unit made by hand (`ByHand`).
    Whatever else a run does leaves the others' undisturbed (`AloneStep`).
* `MutationProofs`, for any number of mutations, jobs and compiled files.
  `MInv` follows the copies: the queue has no copy twice and none that a run
  has; from its write to its restoration a copy holds the mutation of its run;
  the compiled file is as long as what it was made from. `OnlyAlike` and
  `CopiesApart` are parts of it. `SuccessIsEarned` adds `SaidInv` and counts
  the survivors along the results already shown: a mutation of which
  the tests pass, and of every file as long, is always shown as survived, and
  nothing is supposed of the verdicts. That the tests notice enough of the
  mutations *themselves* does not follow and is false (`SuccessMeansNoticed`, section 4).

Assumptions: bounds (`MaxId`, seconds, versions, edits) are natural numbers;
the databases to start on are sets of rows that are consistent and whose
identifiers were issued by their sequences; a command of `Saves` fills the
fields of its table; the numbers users copy are correct INNs; `None` is no
invoice number and a number written by hand is not of the made-up form; rows
that are there before a program of `Seeding` starts are of none of its runs;
its units and partners are sequences, a unit of one of its materials is one of
`rules.OKEI` and its receipts are of its own partners; `None` is no row of the
report's tables;
a text is a sequence of the classes of characters that `Texts` tells apart and a
code of the classifier one of digits; numbers are compared in units as fine as
every column's; the first state of master breaks no rule of its own, and the checks of a
project are a finite set; no mutation empties the file. Nothing is assumed of
the number of requests, browsers, runs or branches, nor of the sets of codes,
names, invoices, tests and entries.

Only model-checked: liveness (`EveryRequestEnds`, `EveryFormEnds`, `EveryRunEnds`,
`CheckEnds`), which is out of the prover's reach.

## 6. Not modelled

* Configuration: environment variables parsed once; no state that changes.
* Deployment: containers, database roles, nginx; configuration of other
  programs. Of `dbctl.sh` the copy and the restoration are in `Backups`;
  `restore-new` and `use-volume` work on a volume of their own.
* The other tools: `container_policy.py`, `db_check.py`, `lock.py`, most of
  `policy.py`, and the parts of `ci_guard.py` that check the text of workflows.
  They read files and print what is wrong; they keep no state.
* The signature of cookies and the hash of passwords are taken to do their
  work; routes that only read one record and serialise it are left out.
* The deletion of a receipt is one statement in `Requests`; the ORM deletes
  its items one at a time, so two deletions of one receipt may deadlock, which
  PostgreSQL ends as it does for the forms of `Saves`.

## 7. Extending it

The next steps in order of importance: `Saves` as an implementation of an
abstract specification like `Warehouse`; receipts and their items in `Saves`, a
DELETE at a time.
