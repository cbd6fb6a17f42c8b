------------------------------ MODULE MCPrograms -----------------------------
(* Small instances of the programs beside the application.  Each behaviour  *)
(* belongs to one part, and the other parts stand still.  The programs that *)
(* fill the database and those that copy it are checked in two parts: one   *)
(* program with more time or more attempts, and two at once.                *)
EXTENDS Programs, FiniteSets, TLC

CONSTANTS
  d1, d2,    (* runs of demo_seed                                           *)
  p1, p2,    (* runs of dbadmin or dbctl.sh                                 *)
  b1, b2     (* branches                                                    *)

VARIABLE part                                                  (* who moves *)

-----------------------------------------------------------------------------
(* Two units; a supplier, and a material in one of the units; both in each  *)
(* of the two receipts.                                                     *)
Before(set) == {[values |-> v, by |-> "before"] : v \in set}
Unit(u) == {<<"okei", u>>, <<"code", u>>}
Partner(k) == {<<"partner", k>>}

Seeded == Before({{<<"login", "admin">>}, Unit("kg"), Unit("t")})

(* A unit made by hand: its designation is in the table, its code is not.   *)
ByHand == Before({{<<"okei", "other">>, <<"code", "kg">>}})

EmptyOrSeeded == {{}, Seeded, ByHand}
WithPartners == {Seeded, Seeded \cup Before({Partner("supplier"), Partner("cement")})}
MCStarts == EmptyOrSeeded \cup WithPartners
MCUnits == <<"kg", "t">>
MCPartners == <<"supplier", "cement">>
MCUnitOf == [supplier |-> "", cement |-> "t"]
MCUses == [n \in {1, 2} |-> {"supplier", "cement"}]
MCSeeder == {"seed"}
MCDemo == {d1, d2}

(* Copies: runs over two seconds, or two at once in one second.             *)
MCProcess == {p1, p2}
MCWay == {"dbadmin", "dbctl"}

(* Two branches; t2 has one check, and another may be added to it.          *)
MCBranch == {b1, b2}
MCTests == {"t1", "t2"}
MCChecks == {<<"t1", 1>>, <<"t2", 1>>, <<"t2", 2>>}
MCEntries == {"n"}
MCLevels == 97 .. 99
MCMain ==
  [tests |-> MCTests, checks |-> {<<"t1", 1>>, <<"t2", 1>>}, must |-> {},
   may |-> {}, floor |-> 98, threshold |-> 98, broken |-> FALSE]

-----------------------------------------------------------------------------
(* The bounds of the parts. *)
Begun(set) == \A r \in D!Run \ set : stage'[r] = "none"

Bounds ==
  CASE part = "seeding" -> Begun({"seed", d1}) /\ steps' <= 1
    [] part = "two seedings" -> Begun({d1, d2}) /\ again' <= 1
    [] part = "copies" ->
         /\ Cardinality({p \in Process : pc'[p] # "idle"}) <= 1
         /\ "dbctl" \in alone => clock' = 0
    [] part = "copies at once" ->
         /\ clock' = 0 /\ DOMAIN made' \subseteq {1}
         /\ \A p \in Process : path'[p] # None => path'[p][3] = 0
    [] OTHER -> TRUE

MCInit ==
  /\ part \in {"migrations", "seeding", "two seedings", "copies",
              "copies at once", "guard"}
  /\ AllInit
  /\ rows \in CASE part = "seeding" -> EmptyOrSeeded
                [] part = "two seedings" -> WithPartners
                [] OTHER -> {{}}
  /\ alone \in IF part = "copies at once" THEN {{}} ELSE {{"dbadmin"}, MCWay}
  /\ part \notin {"copies", "copies at once"} => alone = MCWay

MCNext ==
  /\ \/ part = "migrations" /\ MigrationStep
     \/ part \in {"seeding", "two seedings"} /\ SeedingStep
     \/ part \in {"copies", "copies at once"} /\ CopyStep
     \/ part = "guard" /\ GuardStep
  /\ UNCHANGED part /\ Bounds

MCSpec == MCInit /\ [][MCNext]_<<part, allVars>>

Symmetry ==
  Permutations(Supplier) \cup Permutations(MCProcess) \cup Permutations(MCBranch)

(* What documents, comments or tests say and the code does not do: no run   *)
(* checks these, and each is refuted when it is put into programs.cfg, as   *)
(* is AllReplacedIsSaved of Programs.                                       *)
ListIsInOrder == B!ListIsInOrder
AdviceClears == D!AdviceClears
NoPartialCopyStays == alone # {} => B!NoPartialCopyStays
CopiesAtOnceStay == B!CopiesStay
AgreedChangesPass == G!AgreedChangesPass
NoTestIsEmptied == G!NoTestIsEmptied

=============================================================================
