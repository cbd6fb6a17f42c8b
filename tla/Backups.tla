------------------------------- MODULE Backups -------------------------------
(***************************************************************************)
(* Copies of the database and restoration from them: app/dbadmin.py, run   *)
(* beside an application that commits, and the restore command of          *)
(* deploy/docker/dbctl.sh, which has the same steps in an order of its own.*)
(*                                                                         *)
(* A state of the database is a number; a copy is a file that holds such a *)
(* state or is Partial.  The name of a copy is its prefix, the second it   *)
(* was begun in and a number that is 0 for the plain name.                 *)
(***************************************************************************)
EXTENDS Naturals, Sequences

CONSTANTS
  Process,    (* runs of dbadmin at once                                   *)
  Way,        (* "dbadmin", "dbctl": which programs are run                *)
  MaxSecond,  (* bound: seconds of the clock                               *)
  MaxVersion, (* bound: commits of the application                         *)
  MaxNumber,  (* bound: copies of one prefix in one second                 *)
  MaxCopies,  (* bound: plain copies reported                              *)
  None

BoundsAssumption ==
  /\ {MaxSecond, MaxVersion, MaxNumber, MaxCopies} \subseteq Nat
  /\ Way \subseteq {"dbadmin", "dbctl"}

Partial == MaxVersion + 1       (* the content of an unfinished file       *)
Version == 0 .. MaxVersion
Prefix == {"warehouse", "before-restore"}
FileName == Prefix \X (0 .. MaxSecond) \X (0 .. MaxNumber)

(* Sorted by name: "-1.dump" comes before ".dump", because "-" does.       *)
(* (Numbers are below ten here.)                                           *)
NameBefore(x, y) ==
  \/ x[2] < y[2]
  \/ x[2] = y[2] /\ x[3] # 0 /\ (y[3] = 0 \/ x[3] < y[3])

VARIABLES
  db,        (* the state of the database                                  *)
  latest,    (* the last state the application made                        *)
  clock,     (* the second                                                 *)
  running,   (* whether the application runs                               *)
  files,     (* the directory of copies: names to contents                 *)
  made,      (* plain copies reported to their user, oldest first, each    *)
             (* with the state it was reported to hold                     *)
  pc, way,   (* each run: its step and its program                         *)
  source,    (* the copy it restores from                                  *)
  path,      (* the copy it makes                                          *)
  snap,      (* the state its pg_dump sees                                 *)
  missed     (* history: the runs since whose pg_dump began the            *)
             (* application has committed                                  *)

process == <<pc, way, source, path, snap, missed>>
vars == <<db, latest, clock, running, files, made, process>>

Init ==
  /\ db = 0 /\ latest = 0 /\ clock = 0 /\ running = TRUE
  /\ files = [f \in {} |-> 0]
  /\ made = <<>>
  /\ pc = [p \in Process |-> "idle"]
  /\ way = [p \in Process |-> None]
  /\ source = [p \in Process |-> None]
  /\ path = [p \in Process |-> None]
  /\ snap = [p \in Process |-> None]
  /\ missed = {}

Exists(f) == f \in DOMAIN files
WithFile(f, v) == [g \in DOMAIN files \cup {f} |-> IF g = f THEN v ELSE files[g]]
Without(f) == [g \in DOMAIN files \ {f} |-> files[g]]

Restoring(p) == source[p] # None

(* Nothing keeps the application from committing while dbadmin restores:   *)
(* only README.md:120 asks for it to be stopped.  dbctl.sh stops it once   *)
(* the safety copy is made.                                                *)
Writable == running

(* create_backup: the first free name of this second. *)

(* Faulty: the name of the second, free or not. *)
PlainName(prefix, w) == <<prefix, clock, 0>>

NewName(prefix, w) ==
  LET free == {n \in 0 .. MaxNumber : ~Exists(<<prefix, clock, n>>)}
  IN IF w = "dbctl" THEN <<prefix, clock, 0>>
     ELSE <<prefix, clock, CHOOSE n \in free : \A m \in free : n <= m>>

(* The bounds. *)
Room(prefix) ==
  /\ ~Exists(<<prefix, clock, MaxNumber>>)
  /\ prefix = "warehouse" => Len(made) < MaxCopies

(* list_backups: the last by name of the plain copies. *)
Plain == {f \in DOMAIN files : f[1] = "warehouse"}
Last == CHOOSE f \in Plain : \A g \in Plain : g = f \/ NameBefore(g, f)

-----------------------------------------------------------------------------
Stop(p, s) ==
  /\ pc' = [pc EXCEPT ![p] = s]
  /\ way' = [way EXCEPT ![p] = None]
  /\ source' = [source EXCEPT ![p] = None]
  /\ path' = [path EXCEPT ![p] = None]
  /\ snap' = [snap EXCEPT ![p] = None]
  /\ missed' = missed \ {p}

Idle(p) == pc[p] \in {"idle", "failed", "restored"}

Name(p, prefix, w, file) ==
  /\ Idle(p)
  /\ Room(prefix)
  /\ pc' = [pc EXCEPT ![p] = "named"]
  /\ way' = [way EXCEPT ![p] = w]
  /\ source' = [source EXCEPT ![p] = file]
  /\ path' = [path EXCEPT ![p] = NewName(prefix, w)]
  /\ UNCHANGED <<db, latest, clock, running, files, made, snap, missed>>

Backup(p) == \E w \in Way : Name(p, "warehouse", w, None)

(* main: the file given, or the last of the list; restore_backup begins    *)
(* with the safety copy.                                                   *)
Restore(p) ==
  \E w \in Way : \E f \in Plain : Name(p, "before-restore", w, f)

RestoreLast(p) ==
  \E w \in Way : Plain # {} /\ Name(p, "before-restore", w, Last)

(* Faulty: a safety copy that an earlier copy of the state stands in for.  *)
OpenOnce(p) ==
  /\ pc[p] = "named"
  /\ pc' = [pc EXCEPT ![p] = IF Restoring(p) /\ made # <<>> THEN "loading"
                            ELSE "dumping"]
  /\ snap' = [snap EXCEPT ![p] = db]
  /\ files' = IF pc'[p] = "loading" THEN files ELSE WithFile(path[p], Partial)
  /\ UNCHANGED <<db, latest, clock, running, made, way, source, path, missed>>

(* pg_dump makes the file and takes its snapshot.  dbctl.sh writes to a    *)
(* name of its own first (.part) and renames it at the end.                *)
Open(p) ==
  /\ pc[p] = "named"
  /\ pc' = [pc EXCEPT ![p] = "dumping"]
  /\ snap' = [snap EXCEPT ![p] = db]
  /\ files' = IF way[p] = "dbctl" THEN files ELSE WithFile(path[p], Partial)
  /\ UNCHANGED <<db, latest, clock, running, made, way, source, path, missed>>

(* The dump is complete; two that write one file spoil it. *)
Finish(p) ==
  LET others == {r \in Process \ {p} : pc[r] = "dumping" /\ path[r] = path[p]}
  IN /\ pc[p] = "dumping"
     /\ \/ (way[p] = "dbctl" \/ Exists(path[p]))
           /\ files' = WithFile(path[p], snap[p])
        \/ others # {} /\ Exists(path[p])
           /\ files' = WithFile(path[p], Partial)
        \/ way[p] # "dbctl" /\ ~Exists(path[p]) /\ UNCHANGED files
     /\ pc' = [pc EXCEPT ![p] = "dumped"]
     /\ UNCHANGED <<db, latest, clock, running, made, way, source, path, snap,
                    missed>>

(* check_archive, and what the copy was made for. *)
Check(p) ==
  /\ pc[p] = "dumped" /\ Exists(path[p])
  /\ IF Restoring(p)
     THEN /\ pc' = [pc EXCEPT ![p] = "loading"]
          /\ running' = (running /\ way[p] # "dbctl")
          /\ UNCHANGED <<made, way, source, path, snap, missed>>
     ELSE /\ made' = Append(made, <<path[p], snap[p]>>)
          /\ Stop(p, "idle")
          /\ UNCHANGED running
  /\ UNCHANGED <<db, latest, clock, files>>

(* pg_dump or check_archive fails: the file is removed. *)
Fail(p) ==
  /\ pc[p] \in {"dumping", "dumped"}
  /\ files' = IF way[p] = "dbctl" THEN files ELSE Without(path[p])
  /\ Stop(p, "failed")
  /\ UNCHANGED <<db, latest, clock, running, made>>

(* Faulty: pg_restore without --single-transaction. *)
LoadByStatement(p) ==
  /\ pc[p] = "loading"
  /\ db' = IF Exists(source[p]) THEN files[source[p]] ELSE db
  /\ Stop(p, "restored")
  /\ running' = TRUE
  /\ UNCHANGED <<latest, clock, files, made>>

(* pg_restore in one transaction: all of the copy, or nothing (a file that *)
(* is not whole or not there, a lock not had in 10 s).  dbctl.sh starts    *)
(* the application again either way.                                       *)
Load(p) ==
  /\ pc[p] = "loading"
  /\ \/ /\ Exists(source[p]) /\ files[source[p]] # Partial
        /\ db' = files[source[p]]
        /\ Stop(p, "restored")
     \/ UNCHANGED db /\ Stop(p, "failed")
  /\ running' = TRUE
  /\ UNCHANGED <<latest, clock, files, made>>

(* The run is interrupted (Ctrl-C, a reboot): nobody removes its file; a   *)
(* transaction it has open is rolled back.                                 *)
Kill(p) ==
  /\ ~Idle(p)
  /\ Stop(p, "failed")
  /\ running' = TRUE
  /\ UNCHANGED <<db, latest, clock, files, made>>

Commit ==
  /\ Writable /\ latest < MaxVersion
  /\ latest' = latest + 1
  /\ db' = latest + 1
  /\ missed' = missed \cup {p \in Process : pc[p] \in {"dumping", "dumped", "loading"}}
  /\ UNCHANGED <<clock, running, files, made, pc, way, source, path, snap>>

Tick ==
  /\ clock < MaxSecond
  /\ clock' = clock + 1
  /\ UNCHANGED <<db, latest, running, files, made, process>>

Next ==
  \/ Commit \/ Tick
  \/ \E p \in Process : \/ Backup(p) \/ Restore(p) \/ RestoreLast(p)
                        \/ Open(p) \/ Finish(p) \/ Check(p) \/ Fail(p)
                        \/ Load(p) \/ Kill(p)

Spec == Init /\ [][Next]_vars

-----------------------------------------------------------------------------
(* A copy once reported to its user is there and holds what it was         *)
(* reported to hold, whatever runs of the programs come after it.          *)
CopiesStay ==
  \A i \in DOMAIN made :
    Exists(made[i][1]) /\ files[made[i][1]] = made[i][2]

Replaces(p) == pc[p] = "loading" /\ pc'[p] = "restored"

(* README.md:117-119: a restoration first saves the state of the database. *)
(* The safety copy is whole and of the moment its pg_dump began; a state   *)
(* replaced that it does not hold is one the application made after that.  *)
SavesReplaced ==
  \A p \in Process : Replaces(p) =>
    /\ Exists(path[p]) /\ files[path[p]] = snap[p]
    /\ db = snap[p] \/ (p \in missed /\ db = latest)

(* The claim of dbadmin.py:213: the state before the restoration is saved  *)
(* in the safety copy.                                                     *)
SavesAllReplaced ==
  \A p \in Process : Replaces(p) => Exists(path[p]) /\ files[path[p]] = db

(* README.md: a restoration that fails leaves the database as it was, and  *)
(* one that succeeds leaves a state that the application once committed.   *)
LoadsWhole ==
  /\ db' # db => db' \in 0 .. latest'
  /\ \A p \in Process : pc'[p] = "failed" /\ pc[p] # "failed" => db' = db

(* dbadmin.py:116: the list goes from the oldest copy to the newest.       *)
ListIsInOrder ==
  \A i, j \in DOMAIN made : i < j => ~NameBefore(made[j][1], made[i][1])

(* dbadmin.py:109: an unfinished copy is worse than none.                  *)
NoPartialCopyStays ==
  (\A p \in Process : Idle(p)) => \A f \in DOMAIN files : files[f] # Partial

=============================================================================
