-------------------------------- MODULE Guard --------------------------------
(***************************************************************************)
(* tools/ci_guard.py and tools/policy.py at work on branches: several      *)
(* requests to merge are changed, labelled, brought up to date, checked    *)
(* and merged, and the checks of the main branch must not grow weaker.     *)
(*                                                                         *)
(* Of a state of the project the model keeps what the guard compares: the  *)
(* names of the tests, their checks (each told from the others), the       *)
(* entries that must stay (steps of make verify, rules of linters and      *)
(* scanners, keys of pytest), the exceptions that must not appear, the     *)
(* floor of tools/policy.py and the threshold of pyproject.toml, and       *)
(* whether a rule of its current state is broken.                          *)
(***************************************************************************)
EXTENDS Integers, FiniteSets

CONSTANTS
  Branch,
  Start,        (* the project at the beginning                            *)
  Tests,        (* the tests there may be                                  *)
  Checks,       (* the checks there may be: a test and a number            *)
  Entries,      (* the entries and exceptions there may be                 *)
  Levels,       (* the values of the floor and the threshold               *)
  MaxEdits      (* bound: changes of all branches together                 *)

Project ==
  [tests : SUBSET Tests, checks : SUBSET Checks, must : SUBSET Entries,
   may : SUBSET Entries, floor : Levels, threshold : Levels, broken : BOOLEAN]

GuardAssumption ==
  /\ Start \in Project /\ ~Start.broken
  /\ Levels \subseteq Int /\ MaxEdits \in Nat
  /\ Checks \subseteq Tests \X Nat /\ IsFiniteSet(Checks)

Event == {"push", "pull_request"}

VARIABLES
  master,    (* the main branch                                            *)
  current,   (* the branches that contain all of master                    *)
  base,      (* base[b]: the last state of master b contains               *)
  head,      (* head[b]: the state of b                                    *)
  label,     (* whether the request of b has the label acceptance-change   *)
  started,   (* started[b][e]: what the guard is run on: [base, head, ok]  *)
  result,    (* result[b][e]: "none", "running", "passed", "failed"        *)
  edits,     (* how many changes there were                                *)
  weakened   (* the branches somebody changed for the weaker               *)

vars == <<master, current, base, head, label, started, result, edits, weakened>>

-----------------------------------------------------------------------------
(* compare_tests: names by file and test, checks by their number in all.   *)
FewerTests(old, new) ==
  \/ ~(old.tests \subseteq new.tests)
  \/ Cardinality(new.checks) < Cardinality(old.checks)

(* compare_policy, compare_pyproject, compare_scanners. *)
LowerFloors(old, new) == new.floor < old.floor \/ new.threshold < old.threshold
FewerRules(old, new) == ~(old.must \subseteq new.must)
MoreExceptions(old, new) == ~(new.may \subseteq old.may)

IsWeaker(old, new) ==
  FewerTests(old, new) \/ LowerFloors(old, new) \/ FewerRules(old, new)
    \/ MoreExceptions(old, new)

(* policy.check_thresholds. *)
MeetsPolicy(p) == p.threshold >= p.floor

(* main: a broken rule is never let through, a weakening with the label. *)
Passes(old, new, approved) == ~new.broken /\ (~IsWeaker(old, new) \/ approved)

(* git: what either side changed; a value both changed is a conflict. *)
Both(old, x, y) == (x \cap y) \cup (x \ old) \cup (y \ old)
Either(old, x, y) == IF x = old THEN y ELSE x

Merged(old, x, y) ==
  [tests |-> Both(old.tests, x.tests, y.tests),
   checks |-> Both(old.checks, x.checks, y.checks),
   must |-> Both(old.must, x.must, y.must),
   may |-> Both(old.may, x.may, y.may),
   floor |-> Either(old.floor, x.floor, y.floor),
   threshold |-> Either(old.threshold, x.threshold, y.threshold),
   broken |-> x.broken]

Conflict(old, x, y) ==
  \/ x.floor # old.floor /\ y.floor # old.floor /\ x.floor # y.floor
  \/ x.threshold # old.threshold /\ y.threshold # old.threshold
       /\ x.threshold # y.threshold

-----------------------------------------------------------------------------
Init ==
  /\ master = Start /\ current = Branch
  /\ base = [b \in Branch |-> Start] /\ head = base
  /\ label = [b \in Branch |-> FALSE]
  /\ started = [b \in Branch |-> [e \in Event |-> [base |-> Start, head |-> Start, ok |-> FALSE]]]
  /\ result = [b \in Branch |-> [e \in Event |-> "none"]]
  /\ edits = 0
  /\ weakened = {}

(* Faulty: a branch is compared with what master is by now. *)
Tip(b) == master

(* merge_base: the point at which the branch left master. *)
MergeBase(b) == base'[b]

(* A push runs the guard on the branch and on the result of the merge, if  *)
(* there is one; the payload of a push tells of no labels.  An earlier run *)
(* of the same event is cancelled (concurrency).                           *)
OnRequest(b) ==
  [base |-> master, head |-> Merged(base'[b], head'[b], master), ok |-> label'[b]]

Runs(b) == IF Conflict(base'[b], head'[b], master) THEN "none" ELSE "running"

Pushed(b) ==
  /\ started' = [started EXCEPT
       ![b] = [push |-> [base |-> MergeBase(b), head |-> head'[b], ok |-> FALSE],
               pull_request |-> OnRequest(b)]]
  /\ result' = [result EXCEPT ![b] = [push |-> "running", pull_request |-> Runs(b)]]

(* Labels run the guard for the request only. *)
Relabelled(b) ==
  /\ started' = [started EXCEPT ![b].pull_request = OnRequest(b)]
  /\ result' = [result EXCEPT ![b].pull_request = Runs(b)]

(* Faulty: `types` without `unlabeled`. *)
OnlyLabelled(b) ==
  IF label'[b] THEN Relabelled(b) ELSE UNCHANGED <<started, result>>

Labelled(b) == Relabelled(b)

Changes(p) ==
  {[p EXCEPT !.tests = @ \cup {t}] : t \in Tests}
  \cup {[p EXCEPT !.tests = @ \ {t}, !.checks = {c \in @ : c[1] # t}] : t \in Tests}
  \cup {[p EXCEPT !.checks = @ \cup {c}] : c \in {x \in Checks : x[1] \in p.tests}}
  \cup {[p EXCEPT !.checks = @ \ {c}] : c \in Checks}
  \cup {[p EXCEPT !.must = @ \cup {n}] : n \in Entries}
  \cup {[p EXCEPT !.must = @ \ {n}] : n \in Entries}
  \cup {[p EXCEPT !.may = @ \cup {n}] : n \in Entries}
  \cup {[p EXCEPT !.may = @ \ {n}] : n \in Entries}
  \cup {[p EXCEPT !.floor = n] : n \in Levels}
  \cup {[p EXCEPT !.threshold = n] : n \in Levels}
  \cup {[p EXCEPT !.broken = ~@]}

(* Somebody changes the branch and pushes it. *)
Edit(b, new) ==
  /\ edits < MaxEdits /\ edits' = edits + 1
  /\ new # head[b] /\ head' = [head EXCEPT ![b] = new]
  /\ weakened' = IF IsWeaker(head[b], new) \/ new.broken THEN weakened \cup {b} ELSE weakened
  /\ UNCHANGED <<master, current, base, label>> /\ Pushed(b)

(* master is merged into the branch. *)
Update(b) ==
  /\ b \notin current /\ ~Conflict(base[b], head[b], master)
  /\ current' = current \cup {b}
  /\ base' = [base EXCEPT ![b] = master]
  /\ head' = [head EXCEPT ![b] = Merged(base[b], head[b], master)]
  /\ UNCHANGED <<master, label, edits, weakened>> /\ Pushed(b)

Label(b) ==
  /\ label' = [label EXCEPT ![b] = ~@]
  /\ UNCHANGED <<master, current, base, head, edits, weakened>> /\ Labelled(b)

(* ci_guard.main. *)
Guarded(b, e) ==
  /\ result[b][e] = "running"
  /\ LET run == started[b][e] IN
     result' = [result EXCEPT ![b][e] =
       IF Passes(run.base, run.head, run.ok) THEN "passed" ELSE "failed"]
  /\ UNCHANGED <<master, current, base, head, label, started, edits, weakened>>

(* The protection of master: up to date, and the checks of the request     *)
(* have passed (make policy among them).                                   *)
Merge(b) ==
  /\ result[b]["pull_request"] = "passed" /\ b \in current /\ head[b] # master
  /\ MeetsPolicy(head[b])
  /\ master' = head[b] /\ current' = {b} /\ base' = [base EXCEPT ![b] = head[b]]
  /\ UNCHANGED <<head, label, started, result, edits, weakened>>

Next ==
  \E b \in Branch :
    \/ \E new \in Changes(head[b]) : Edit(b, new)
    \/ Update(b) \/ Label(b) \/ Merge(b)
    \/ \E e \in Event : Guarded(b, e)

Spec == Init /\ [][Next]_vars

-----------------------------------------------------------------------------
(* ci_guard.py:15-18: the main branch never has fewer tests or checks,     *)
(* weaker rules or more exceptions than before, unless the request that    *)
(* brings the change has the label when it is merged; a rule of the        *)
(* current state is never broken, not even with it.                        *)
NoWeakerStep ==
  master' # master =>
    /\ ~master'.broken
    /\ ~IsWeaker(master, master') \/ \E b \in Branch : Merge(b) /\ label[b]

(* merge_base: a branch nobody made weaker is not refused because master   *)
(* or another branch has moved on since.                                   *)
NoFalseAlarm ==
  \A b \in Branch \ weakened : \A e \in Event : result[b][e] # "failed"

(* docs/CI.md: a weakening the team agreed on passes with the label.       *)
AgreedChangesPass ==
  \A b \in Branch : \A e \in Event :
    result[b][e] = "failed" => ~label[b] \/ started[b][e].head.broken

(* ci_guard.py:15-16: a test cannot be switched off while its name stays.  *)
Has(p, t) == \E c \in p.checks : c[1] = t

NoTestIsEmptied ==
  [][\A t \in master.tests \cap master'.tests :
       Has(master, t) /\ ~Has(master', t) =>
         \E b \in Branch : Merge(b) /\ label[b]]_vars

=============================================================================
