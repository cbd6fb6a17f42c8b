------------------------------ MODULE Mutation -------------------------------
(***************************************************************************)
(* tools/mutation.py: the tests are run once for every mutation of one     *)
(* file, several runs at a time, each in a copy of the project taken from  *)
(* a queue and given back after the file is restored.                      *)
(*                                                                         *)
(* A mutation is a number; what the tests say of it does not change.       *)
(* Python runs a cached compilation when the whole second and the size of  *)
(* the file are those it was made from: a file has a size and a second.    *)
(***************************************************************************)
EXTENDS Naturals, Sequences, SequencesExt, FiniteSets

CONSTANTS
  Mutations,   (* how many find_mutants found                              *)
  Size,        (* Size[m]: the size of the file with mutation m; 0 is the  *)
               (* unchanged file                                           *)
  Verdicts,    (* what the tests may say: "passed", "failed" or "hangs"    *)
               (* of each mutation and, at 0, of the unchanged file        *)
  Jobs,        (* copies, and worker threads                               *)
  MinScore,    (* tool.warehouse.mutation.min_score, in percent            *)
  Seconds      (* bound on the clock                                       *)

ASSUME MutationAssumption ==
  /\ Mutations \in Nat /\ Jobs \in Nat \ {0} /\ MinScore \in 0 .. 100 /\ Seconds \in Nat
  /\ Size \in [0 .. Mutations -> Nat \ {0}]    (* no mutation empties a file *)
  /\ Verdicts \subseteq [0 .. Mutations -> {"passed", "failed", "hangs"}]

Mutant == 1 .. Mutations
Copy == 1 .. Jobs

VARIABLES
  verdict,   (* verdict[m]: what the tests say of a file                   *)
  now,       (* the clock, in whole seconds                                *)
  workdirs,  (* the queue of free copies                                   *)
  taken,     (* how many mutations the worker threads have taken           *)
  at,        (* at[m]: the copy the run of m uses, 0 when it has none      *)
  step,      (* step[m]: where the run is                                  *)
  target,    (* target[c]: the mutated file of a copy: [holds, second]     *)
  cache,     (* cache[c]: the compiled file: [holds, size, second]; of size  *)
             (* 0 before there is one                                      *)
  tested,    (* tested[m]: the content the tests ran for m, 0 before them  *)
  passed,    (* the mutations whose tests passed                           *)
  survivors, (* main: what it read of the results, in order                *)
  shown,     (* how many results it has read                               *)
  exit       (* the exit code of main, "none" before it                    *)

vars == <<verdict, now, workdirs, taken, at, step, target, cache, tested, passed,
          survivors, shown, exit>>

Nobody == 0

Init ==
  /\ verdict \in Verdicts
  /\ now = 0
  /\ workdirs = [c \in Copy |-> c]
  /\ taken = 0
  /\ at = [m \in 0 .. Mutations |-> Nobody]
  /\ step = [m \in 0 .. Mutations |-> "new"]
  /\ target = [c \in Copy |-> [holds |-> 0, second |-> 0]]
  /\ cache = [c \in Copy |-> [holds |-> 0, size |-> 0, second |-> 0]]
  /\ tested = [m \in Mutant |-> 0]
  /\ passed = {} /\ survivors = <<>> /\ shown = 0 /\ exit = "none"

-----------------------------------------------------------------------------
(* The import: the cached compilation when it looks like that of the file. *)

(* Faulty: the second alone. *)
IsCurrentBySecond(c) == cache[c].second = target[c].second

IsCurrent(c) ==
  /\ cache[c].second = target[c].second
  /\ cache[c].size = Size[target[c].holds]

Imported(c) == IF IsCurrent(c) THEN cache[c].holds ELSE target[c].holds

Compiled(c) ==
  [holds |-> Imported(c), size |-> Size[target[c].holds], second |-> target[c].second]

(* Faulty: a copy that stays in the queue while it is used. *)
LeftInQueue == workdirs

(* workdirs.get takes the first free copy, workdirs.put gives one back,    *)
(* whatever became of the run.                                             *)
Rest == Tail(workdirs)

(* Faulty: a copy is given back only after a run that ended by itself. *)
ReturnedUnlessHung(m) ==
  IF verdict[tested[m]] = "hangs" THEN workdirs ELSE Append(workdirs, at[m])

Returned(m) == Append(workdirs, at[m])

(* Before the mutations: the tests must pass without them. *)
Baseline ==
  /\ step[0] = "new" /\ workdirs # <<>> /\ exit = "none"
  /\ LET c == Head(workdirs) IN
     /\ workdirs' = Append(Tail(workdirs), c)
     /\ cache' = [cache EXCEPT ![c] = Compiled(c)]
  /\ step' = [step EXCEPT ![0] = "done"]
  /\ exit' = IF verdict[0] = "passed" THEN "none" ELSE "1"
  /\ UNCHANGED <<verdict, now, taken, at, target, tested, passed, survivors, shown>>

(* A worker thread takes the next mutation and waits for a copy.  There    *)
(* are as many threads as copies.                                          *)
Busy == {m \in Mutant : step[m] \notin {"new", "done"}}

Take ==
  /\ step[0] = "done" /\ exit = "none"
  /\ taken < Mutations /\ Cardinality(Busy) < Jobs
  /\ taken' = taken + 1
  /\ step' = [step EXCEPT ![taken + 1] = "waits"]
  /\ UNCHANGED <<verdict, now, workdirs, at, target, cache, tested, passed, survivors,
                 shown, exit>>

TakeCopy(m) ==
  /\ step[m] = "waits" /\ workdirs # <<>>
  /\ at' = [at EXCEPT ![m] = Head(workdirs)]
  /\ workdirs' = Rest
  /\ step' = [step EXCEPT ![m] = "writes"]
  /\ UNCHANGED <<verdict, now, taken, target, cache, tested, passed, survivors, shown, exit>>

Written(m) == [target EXCEPT ![at[m]] = [holds |-> m, second |-> now]]

Write(m) ==
  /\ step[m] = "writes" /\ target' = Written(m)
  /\ step' = [step EXCEPT ![m] = "imports"]
  /\ UNCHANGED <<verdict, now, workdirs, taken, at, cache, tested, passed, survivors,
                 shown, exit>>

(* _run_tests: the tests import the file, run, and end one way or another; *)
(* a run that hangs is stopped after TIMEOUT and counts as failed.         *)
Import(m) ==
  /\ step[m] = "imports"
  /\ tested' = [tested EXCEPT ![m] = Imported(at[m])]
  /\ cache' = [cache EXCEPT ![at[m]] = Compiled(at[m])]
  /\ step' = [step EXCEPT ![m] = "runs"]
  /\ UNCHANGED <<verdict, now, workdirs, taken, at, target, passed, survivors, shown, exit>>

RunEnds(m) ==
  /\ step[m] = "runs"
  /\ passed' = IF verdict[tested[m]] = "passed" THEN passed \cup {m} ELSE passed
  /\ step' = [step EXCEPT ![m] = "restores"]
  /\ UNCHANGED <<verdict, now, workdirs, taken, at, target, cache, tested, survivors,
                 shown, exit>>

Restore(m) ==
  /\ step[m] = "restores"
  /\ target' = [target EXCEPT ![at[m]] = [holds |-> 0, second |-> now]]
  /\ workdirs' = Returned(m)
  /\ at' = [at EXCEPT ![m] = Nobody]
  /\ step' = [step EXCEPT ![m] = "done"]
  /\ UNCHANGED <<verdict, now, taken, cache, tested, passed, survivors, shown, exit>>

HasEnded(m) == step[m] = "done"

(* main reads the results of pool.map in the order of the mutations. *)
Show ==
  /\ exit = "none" /\ shown < Mutations /\ HasEnded(shown + 1)
  /\ survivors' = IF shown + 1 \in passed THEN Append(survivors, shown + 1) ELSE survivors
  /\ shown' = shown + 1
  /\ UNCHANGED <<verdict, now, workdirs, taken, at, step, target, cache, tested, passed, exit>>

Killed == Mutations - Len(survivors)

(* Faulty: the share rounded before it is compared. *)
RoundedEnough ==
  Mutations = 0 \/ (100 * Killed + Mutations \div 2) \div Mutations >= MinScore

(* score >= min_score, in whole numbers. *)
Enough == Mutations = 0 \/ 100 * Killed >= MinScore * Mutations

Report ==
  /\ exit = "none" /\ step[0] = "done" /\ shown = Mutations
  /\ exit' = IF Enough THEN "0" ELSE "1"
  /\ UNCHANGED <<verdict, now, workdirs, taken, at, step, target, cache, tested, passed,
                 survivors, shown>>

Tick ==
  /\ now < Seconds /\ exit = "none" /\ now' = now + 1
  /\ UNCHANGED <<verdict, workdirs, taken, at, step, target, cache, tested,
                 passed, survivors, shown, exit>>

Run(m) == TakeCopy(m) \/ Write(m) \/ Import(m) \/ RunEnds(m) \/ Restore(m)

Next == Baseline \/ Take \/ (\E m \in Mutant : Run(m)) \/ Show \/ Report \/ Tick

Spec == Init /\ [][Next]_vars

(* Threads run on; a run of the tests ends or is stopped after TIMEOUT. *)
Fairness ==
  /\ WF_vars(Baseline) /\ WF_vars(Take) /\ WF_vars(Show) /\ WF_vars(Report)
  /\ \A m \in Mutant : WF_vars(Run(m))

FairSpec == Spec /\ Fairness

-----------------------------------------------------------------------------
Alike(m) == {n \in 0 .. Mutations : Size[n] = Size[m]}

(* main: the program says that the tests suffice only if, of enough of all *)
(* the mutations, they notice the mutation or another file as long, whose  *)
(* stale compilation may be what they ran.                                 *)
AlikeUnnoticed == {m \in Mutant : \A n \in Alike(m) : verdict[n] = "passed"}

SuccessMeansAlikeNoticed ==
  exit = "0" =>
    \/ Mutations = 0
    \/ 100 * (Mutations - Cardinality(AlikeUnnoticed)) >= MinScore * Mutations

(* check: a copy is in the queue, with the file restored, or one run has   *)
(* it, and the file holds the mutation of that run or the original.        *)
CopiesAreApart ==
  /\ \A c \in Copy : c \in ToSet(workdirs) => target[c].holds = 0
  /\ \A m \in Mutant : at[m] # Nobody =>
       /\ at[m] \notin ToSet(workdirs)
       /\ target[at[m]].holds \in {0, m}
       /\ \A n \in Mutant \ {m} : at[n] # at[m]
  /\ Len(workdirs) + Cardinality({m \in Mutant : at[m] # Nobody}) = Jobs

(* main: whatever the tests do, the check ends. *)
CheckEnds == <>(exit # "none")

(* mutation.py:22, every mutation is tested in a copy of the project: the  *)
(* tests run for a mutation ran the file with that mutation, or with one   *)
(* that makes the file as long.                                            *)
OnlyAlikeAreConfused ==
  \A m \in Mutant : step[m] \in {"runs", "restores", "done"} => tested[m] \in Alike(m)

(* What the documentation says and the code does not do, mutation.py:12: a *)
(* mutation the tests do not make fail counts as survived; so the program  *)
(* says that the tests suffice only if they notice enough of the mutations *)
(* themselves.                                                             *)
Unnoticed == {m \in Mutant : verdict[m] = "passed"}

SuccessMeansNoticed ==
  exit = "0" =>
    \/ Mutations = 0
    \/ 100 * (Mutations - Cardinality(Unnoticed)) >= MinScore * Mutations

=============================================================================
