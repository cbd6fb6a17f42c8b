------------------------------ MODULE MCEndings ------------------------------
(* What waits for what: forms that hold rows of the database, requests that *)
(* hold threads and connections, programs that fill the database next to    *)
(* each other, and runs of the tests that hold copies of the project.  Each *)
(* behaviour belongs to one part; the other parts stand still, with nothing *)
(* begun, so that the fairness of their steps asks for nothing.             *)
EXTENDS Mutation, TLC

CONSTANTS s1, s2, k1, k2, n1, n2, None, Bad,       (* of Saves, see MCSaves *)
          q1, q2, p1                               (* requests, a probe     *)

VARIABLES
  part,                                                        (* who moves *)
  db, issued, pc, cmd, read, sent, own, reply,                 (* Saves     *)
  stage, answer, database, down, server,                       (* Pool      *)
  rows, pending, place, todo, kept, disturbed, advice, steps, again  (* Seeding *)

savesVars == <<db, issued, pc, cmd, read, sent, own, reply>>
poolVars == <<stage, answer, database, down, server>>
seedingVars ==
  <<rows, pending, place, todo, kept, disturbed, advice, steps, again>>

-----------------------------------------------------------------------------
(* The least that deadlocks: one edits a material and adds a unit, another  *)
(* adds the unit and then creates a material with the same article.         *)
Unit1 == [table |-> "unit", id |-> 1, col |-> [okei |-> k1]]
Material1 ==
  [table |-> "material", id |-> 1,
   col |-> [sku |-> s1, name |-> n1, unit |-> 1]]

Form(id, sku, name, unit) ==
  [op |-> "save", via |-> "form", table |-> "material", id |-> id,
   col |-> [sku |-> sku, name |-> name], unit |-> unit]
Deletion ==
  [op |-> "delete", via |-> "form", table |-> "material", id |-> 1,
   col |-> [f \in {} |-> None], unit |-> None]

OneUnit == {{Unit1, Material1}, {Unit1}}
Forms == {Form(1, s2, n2, k2), Form(None, s2, n2, k2), Form(1, s1, n2, Bad), Deletion}
NoAdmins == {}
Requests == {q1, q2}

S == INSTANCE Saves WITH
  Request <- Requests, Start <- OneUnit, Asked <- Forms, Admin <- NoAdmins,
  MaxId <- 3, answer <- reply

(* More requests than threads and connections. *)
Probes == {p1}

P == INSTANCE Pool WITH
  Request <- Requests, Probe <- Probes, Threads <- 1, Connections <- 1

(* Two materials whose units come in another order than that of the table.  *)
Seed == {"seed"}
Demo == {"demo"}
Units == <<"kg", "t">>
Partners == <<"cement", "nails">>
UnitOf == [cement |-> "t", nails |-> "kg"]
Uses == [n \in {1, 2} |-> {"nails"}]
Starts == {{[values |-> {<<"login", "admin">>}, by |-> "before"]}}

D == INSTANCE Seeding WITH
  Seeder <- Seed, Demo <- Demo, Receipts <- 2, Steps <- 0, Again <- 1,
  stage <- place

(* A mutation mostly leaves the file as long as it was, as `==` to `!=` and  *)
(* `+` to `-` do; the second one makes it longer.  The tests say whatever of *)
(* the mutations and of the unchanged file, and two mutations may hang.      *)
MCSize == [m \in 0 .. 3 |-> IF m = 2 THEN 11 ELSE 10]
MCVerdicts ==
  {v \in [0 .. 3 -> {"passed", "failed", "hangs"}] :
     \A m \in {0, 3} : v[m] # "hangs"}

ASSUME S!MaxIdAssumption /\ P!PoolAssumption /\ D!SeedingAssumption

-----------------------------------------------------------------------------
(* A part that stands still has nothing to go on with: no request has come, *)
(* no program has begun, the check of mutations has ended.                  *)
MCInit ==
  /\ part \in {"saves", "pool", "seeding", "mutation"}
  /\ S!Init /\ (part # "saves" => db = {Unit1})
  /\ P!Init
  /\ D!Init
  /\ IF part = "mutation" THEN Init
     ELSE /\ verdict = [m \in 0 .. 3 |-> "failed"] /\ now = 0 /\ workdirs = <<1, 2>>
          /\ taken = 3 /\ at = [m \in 0 .. 3 |-> 0]
          /\ step = [m \in 0 .. 3 |-> "done"]
          /\ target = [c \in {1, 2} |-> [holds |-> 0, second |-> 0]]
          /\ cache = [c \in {1, 2} |-> [holds |-> 0, size |-> 10, second |-> 0]]
          /\ tested = [m \in 1 .. 3 |-> m]
          /\ passed = {} /\ survivors = <<>> /\ shown = 3 /\ exit = "0"

MCNext ==
  \/ /\ part = "saves" /\ S!Next
     /\ UNCHANGED <<part, poolVars, seedingVars, vars>>
  \/ /\ part = "pool" /\ P!Next
     /\ UNCHANGED <<part, savesVars, seedingVars, vars>>
  \/ /\ part = "seeding" /\ D!Next
     /\ UNCHANGED <<part, savesVars, poolVars, vars>>
  \/ /\ part = "mutation" /\ Next
     /\ UNCHANGED <<part, savesVars, poolVars, seedingVars>>

MCVars == <<part, savesVars, poolVars, seedingVars, vars>>

MCSpec ==
  /\ MCInit /\ [][MCNext]_MCVars
  /\ S!Fairness /\ P!Fairness /\ D!Fairness /\ Fairness

(* The properties of the parts; those of the mutations are in Mutation.    *)
EveryFormEnds == S!EveryRequestEnds
EveryRequestEnds == P!EveryRequestEnds
EveryRunEnds == D!EveryRunEnds

(* What documents, comments or tests say and the code does not do: no run   *)
(* checks these, and each is refuted when it is put into endings.cfg, as is *)
(* SuccessMeansNoticed of Mutation.                                         *)
HealthIsTrue == P!HealthIsTrue
EveryFailureIsExplained == S!EveryFailureIsExplained
OnlyAdminsEnterUnits == S!OnlyAdminsEnterUnits
NothingRunsAtDispose == P!NothingRunsAtDispose

=============================================================================
