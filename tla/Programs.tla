------------------------------- MODULE Programs -------------------------------
(***************************************************************************)
(* The programs beside the application: the migrations, the programs that  *)
(* fill the database, those that copy and restore it, and the guard of the *)
(* main branch.  Each keeps its own state and reads nothing of the others, *)
(* so a step of one leaves the rest as it is.                              *)
(***************************************************************************)
EXTENDS Migrations

CONSTANTS
  Seeder, Demo, Units, Partners, UnitOf, Receipts, Uses, Starts, Steps, Again,
                                                               (* Seeding   *)
  Process, Way, MaxSecond, MaxVersion, MaxNumber, MaxCopies,   (* Backups   *)
  Branch, Main, Tests, Checks, Entries, Levels, MaxEdits       (* Guard     *)

VARIABLES
  rows, pending, stage, todo, kept, disturbed, advice, steps, again,
                                                               (* Seeding   *)
  db, latest, clock, running, files, made, pc, way, source, path, snap, missed,
                                                               (* Backups   *)
  alone,     (* the programs that copy, if they are run one after another; *)
             (* {} if any are run at once                                  *)
  master, current, base, head, label, started, result, edits, weakened
                                                               (* Guard     *)

seedingVars ==
  <<rows, pending, stage, todo, kept, disturbed, advice, steps, again>>
copyVars ==
  <<db, latest, clock, running, files, made, pc, way, source, path, snap, missed,
    alone>>
guardVars ==
  <<master, current, base, head, label, started, result, edits, weakened>>
allVars == <<vars, seedingVars, copyVars, guardVars>>

D == INSTANCE Seeding
B == INSTANCE Backups
G == INSTANCE Guard WITH Start <- Main

ASSUME ProgramsAssumption ==
  D!SeedingAssumption /\ B!BoundsAssumption /\ G!GuardAssumption

(* One after another: no run is under way next to another, and each is of  *)
(* one of the programs.                                                    *)
OneByOne ==
  \A p \in Process : ~B!Idle(p) =>
    way[p] \in alone /\ \A r \in Process \ {p} : B!Idle(r)

-----------------------------------------------------------------------------
AllInit == Init /\ D!Init /\ B!Init /\ alone \in SUBSET Way /\ G!Init

MigrationStep == Next /\ UNCHANGED <<seedingVars, copyVars, guardVars>>
SeedingStep == D!Next /\ UNCHANGED <<vars, copyVars, guardVars>>
CopyStep ==
  /\ UNCHANGED <<alone, vars, seedingVars, guardVars>>
  /\ B!Next /\ (alone # {} => OneByOne')
GuardStep == G!Next /\ UNCHANGED <<vars, seedingVars, copyVars>>

AllNext == MigrationStep \/ SeedingStep \/ CopyStep \/ GuardStep

AllSpec == AllInit /\ [][AllNext]_allVars

-----------------------------------------------------------------------------
(* The properties of the parts; those of the migrations are in Migrations.  *)

(* seed.py:25: a run next to which nobody else writes does not fail.        *)
NoneFailsAlone == D!NoneFailsAlone

(* demo_seed.py:7: of runs that counted no receipts at the same time only   *)
(* one stores its own.                                                      *)
CreatedOnce == D!CreatedOnce

(* demo_seed.py: a run stores all of its receipts in one step, or none.     *)
StoresAllOrNone == [][D!WholeStep]_allVars

(* dbadmin.py: of runs one after another, a copy once reported is there and *)
(* holds what it was reported to hold.                                      *)
CopiesStay == alone = {"dbadmin"} => B!CopiesStay

(* README.md:117-119: of runs one after another, by dbadmin or dbctl.sh, a  *)
(* restoration saves the state it replaces, but for what the application    *)
(* commits once the safety copy has begun.                                  *)
ReplacedStateIsSaved == [][alone # {} => B!SavesReplaced]_allVars

(* The claim of dbadmin.py:213, that the state before the restoration is in *)
(* the safety copy; no run checks it, and it is refuted (README.md).        *)
AllReplacedIsSaved == [][alone # {} => B!SavesAllReplaced]_allVars

(* README.md: a restoration leaves a state the application once committed,  *)
(* and one that fails leaves the database as it was.                        *)
OnlyWholeStates == [][B!LoadsWhole]_allVars

(* ci_guard.merge_base: a branch nobody made weaker is not refused.         *)
NoFalseAlarm == G!NoFalseAlarm

(* ci_guard.py:15-18: the main branch grows no weaker but by a request with *)
(* the label.                                                               *)
MasterGrowsNoWeaker == [][G!NoWeakerStep]_allVars

=============================================================================
