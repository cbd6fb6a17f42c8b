---------------------------- MODULE MutationProofs ----------------------------
(***************************************************************************)
(* Theorems about the check of mutations: the copies of the project are    *)
(* never shared, what is tested is the mutation or one as long, and the    *)
(* program does not say that the tests suffice when they do not.           *)
(***************************************************************************)
EXTENDS Mutation, FiniteSetTheorems, TLAPS

Index == 0 .. Mutations
Content == [holds : Index, second : Nat]
Compilation == [holds : Index, size : Nat, second : Nat]

Kinds ==
  /\ verdict \in Verdicts /\ now \in Nat
  /\ at \in [Index -> {Nobody} \cup Copy]
  /\ step \in [Index -> {"new", "waits", "writes", "imports", "runs", "restores", "done"}]
  /\ target \in [Copy -> Content] /\ cache \in [Copy -> Compilation]
  /\ tested \in [Mutant -> Index] /\ passed \subseteq Mutant
  /\ taken \in 0 .. Mutations

-----------------------------------------------------------------------------
(* The queue.                                                               *)
IsQueue(q) ==
  /\ q \in Seq(Copy)
  /\ \A i, j \in 1 .. Len(q) : q[i] = q[j] => i = j

Members(q) == {q[i] : i \in 1 .. Len(q)}

LEMMA MembersAreAll ==
  ASSUME NEW q \in Seq(Copy)
  PROVE  ToSet(q) = Members(q)
<1>1. DOMAIN q = 1 .. Len(q)
  OBVIOUS
<1>. QED  BY <1>1 DEF ToSet, Members

LEMMA TakeFirst ==
  ASSUME NEW q, IsQueue(q), q # <<>>
  PROVE  /\ IsQueue(Tail(q)) /\ Head(q) \in Copy /\ Len(q) = Len(Tail(q)) + 1
         /\ Head(q) \in Members(q) /\ Members(Tail(q)) = Members(q) \ {Head(q)}
<1>1. /\ q \in Seq(Copy) /\ Len(q) \in Nat /\ Len(q) # 0
      /\ Head(q) = q[1] /\ \A i \in 1 .. Len(q) : q[i] \in Copy
      /\ Tail(q) \in Seq(Copy) /\ Len(Tail(q)) = Len(q) - 1
      /\ \A i \in 1 .. Len(q) - 1 : Tail(q)[i] = q[i + 1]
  BY DEF IsQueue
<1>2. \A i, j \in 1 .. Len(Tail(q)) : Tail(q)[i] = Tail(q)[j] => i = j
  <2> SUFFICES ASSUME NEW i \in 1 .. Len(q) - 1, NEW j \in 1 .. Len(q) - 1,
                      q[i + 1] = q[j + 1]
      PROVE  i = j
    BY <1>1
  <2>1. i + 1 \in 1 .. Len(q) /\ j + 1 \in 1 .. Len(q)
    BY <1>1
  <2>2. i + 1 = j + 1
    BY <2>1 DEF IsQueue
  <2>. QED  BY <1>1, <2>2
<1>3. Members(Tail(q)) \subseteq Members(q) \ {Head(q)}
  <2>0. Members(Tail(q)) = {q[i + 1] : i \in 1 .. Len(q) - 1}
    BY <1>1 DEF Members
  <2> SUFFICES ASSUME NEW i \in 1 .. Len(q) - 1
      PROVE  q[i + 1] \in Members(q) \ {q[1]}
    BY <1>1, <2>0
  <2>1. i + 1 \in 1 .. Len(q) /\ 1 \in 1 .. Len(q) /\ i + 1 # 1
    BY <1>1
  <2>. QED  BY <2>1 DEF IsQueue, Members
<1>4. Members(q) \ {Head(q)} \subseteq Members(Tail(q))
  <2> SUFFICES ASSUME NEW i \in 1 .. Len(q), q[i] # q[1]
      PROVE  q[i] \in Members(Tail(q))
    BY <1>1 DEF Members
  <2>1. i - 1 \in 1 .. Len(q) - 1 /\ (i - 1) + 1 = i
    BY <1>1
  <2>2. Tail(q)[i - 1] = q[i]
    BY <1>1, <2>1
  <2>. QED  BY <1>1, <2>1, <2>2 DEF Members
<1>5. Head(q) \in Members(q)
  BY <1>1 DEF Members
<1>. QED  BY <1>1, <1>2, <1>3, <1>4, <1>5 DEF IsQueue

LEMMA GiveBack ==
  ASSUME NEW q, IsQueue(q), NEW c \in Copy, c \notin Members(q)
  PROVE  /\ IsQueue(Append(q, c)) /\ Len(Append(q, c)) = Len(q) + 1
         /\ Members(Append(q, c)) = Members(q) \cup {c}
<1> DEFINE a == Append(q, c)
<1>1. /\ q \in Seq(Copy) /\ Len(q) \in Nat /\ a \in Seq(Copy) /\ Len(a) = Len(q) + 1
      /\ a[Len(q) + 1] = c /\ \A i \in 1 .. Len(q) : a[i] = q[i]
  BY DEF IsQueue
<1>2. \A i \in 1 .. Len(q) : q[i] # c
  BY DEF Members
<1> HIDE DEF a
<1>3. \A i \in 1 .. Len(a) : i \in 1 .. Len(q) \/ i = Len(q) + 1
  BY <1>1
<1>4. \A i, j \in 1 .. Len(a) : a[i] = a[j] => i = j
  BY <1>1, <1>2, <1>3 DEF IsQueue
<1>5. Members(a) = Members(q) \cup {c}
  <2>1. 1 .. Len(a) = 1 .. Len(q) \cup {Len(q) + 1}
    BY <1>1
  <2>. QED  BY <1>1, <2>1 DEF Members
<1>. QED  BY <1>1, <1>4, <1>5 DEF a, IsQueue

-----------------------------------------------------------------------------
Users == {m \in Mutant : at[m] # Nobody}

(* The copies: free ones hold the original; a run that has one is alone     *)
(* with it, and from the moment it has written until it restores the file   *)
(* holds the mutation of that run.                                          *)
CopiesInv ==
  /\ IsQueue(workdirs)
  /\ \A c \in Members(workdirs) : target[c].holds = 0
  /\ \A m \in Mutant :
       /\ at[m] # Nobody <=> step[m] \in {"writes", "imports", "runs", "restores"}
       /\ at[m] # Nobody => at[m] \notin Members(workdirs)
       /\ \A n \in Mutant \ {m} : at[m] # Nobody => at[n] # at[m]
       /\ step[m] = "writes" => target[at[m]].holds = 0
       /\ step[m] \in {"imports", "runs", "restores"} => target[at[m]].holds = m
       /\ m > taken => step[m] = "new"
  /\ Len(workdirs) + Cardinality(Users) = Jobs

(* A compilation is as long as what it was made from, which is why one that *)
(* is taken for the file's is of a mutation as long.                        *)
TestedInv ==
  /\ \A c \in Copy : cache[c].size \in {0, Size[cache[c].holds]}
  /\ OnlyAlikeAreConfused

(* What has been shown has ended, and the survivors are those of it whose   *)
(* tests passed.                                                            *)
ResultsInv ==
  /\ shown \in 0 .. Mutations /\ survivors \in Seq(Mutant)
  /\ \A m \in 1 .. shown : step[m] = "done"
  /\ \A m \in Mutant : step[m] \in {"restores", "done"} =>
       (m \in passed <=> verdict[tested[m]] = "passed")
  /\ \A m \in passed : step[m] \in {"restores", "done"}
  /\ Len(survivors) = Cardinality({m \in 1 .. shown : m \in passed})

(* Success is said of all the results.                                      *)
SaidInv == exit = "0" => shown = Mutations /\ Enough

MInv == Kinds /\ CopiesInv /\ TestedInv /\ ResultsInv

-----------------------------------------------------------------------------
LEMMA Constants ==
  /\ Mutations \in Nat /\ Jobs \in Nat \ {0} /\ MinScore \in Nat
  /\ Size \in [Index -> Nat \ {0}] /\ 0 \in Index /\ Mutant \subseteq Index
  /\ 0 \notin Mutant /\ Nobody \notin Copy
<1>1. /\ Mutations \in Nat /\ Jobs \in Nat \ {0} /\ MinScore \in Nat
      /\ Size \in [Index -> Nat \ {0}]
  BY MutationAssumption DEF Index
<1>. QED  BY <1>1 DEF Index, Mutant, Copy, Nobody

LEMMA UsersAreFinite == IsFiniteSet(Users) /\ Cardinality(Users) \in Nat
<1>1. IsFiniteSet(Mutant)
  BY Constants, FS_Interval DEF Mutant
<1>. QED  BY <1>1, FS_Subset, FS_CardinalityType DEF Users

(* The import gives the file's content, or one as long.                     *)
LEMMA ImportedIsAlike ==
  ASSUME Kinds, TestedInv, NEW c \in Copy
  PROVE  /\ Imported(c) \in Index /\ Size[Imported(c)] = Size[target[c].holds]
         /\ Compiled(c) \in Compilation /\ Compiled(c).size = Size[Compiled(c).holds]
<1>1. /\ target[c] \in Content /\ cache[c] \in Compilation
      /\ cache[c].size \in {0, Size[cache[c].holds]}
  BY DEF Kinds, TestedInv
<1>2. Imported(c) \in Index /\ Size[Imported(c)] = Size[target[c].holds]
  BY <1>1, Constants DEF Imported, IsCurrent, Content, Compilation
<1>3. /\ Compiled(c).holds = Imported(c) /\ Compiled(c).size = Size[target[c].holds]
      /\ Compiled(c) = [holds |-> Imported(c), size |-> Size[target[c].holds],
                        second |-> target[c].second]
  BY DEF Compiled
<1>4. Size[target[c].holds] \in Nat /\ target[c].second \in Nat
  BY <1>1, Constants DEF Content
<1>. QED  BY <1>2, <1>3, <1>4 DEF Compilation

LEMMA InitMInv == Init => MInv
<1> SUFFICES ASSUME Init PROVE MInv
  OBVIOUS
<1>1. /\ verdict \in Verdicts /\ now = 0 /\ workdirs = [c \in Copy |-> c] /\ taken = 0
      /\ at = [m \in Index |-> Nobody] /\ step = [m \in Index |-> "new"]
      /\ target = [c \in Copy |-> [holds |-> 0, second |-> 0]]
      /\ cache = [c \in Copy |-> [holds |-> 0, size |-> 0, second |-> 0]]
      /\ tested = [m \in Mutant |-> 0]
      /\ passed = {} /\ survivors = <<>> /\ shown = 0
  BY DEF Init, Index
<1>2. Kinds
  BY <1>1, Constants DEF Kinds, Content, Compilation, Index
<1>3. CopiesInv
  <2>1. /\ IsQueue(workdirs) /\ Len(workdirs) = Jobs
    BY <1>1, Constants DEF IsQueue, Copy
  <2>2. Users = {}
    BY <1>1, Constants DEF Users
  <2>. QED  BY <1>1, <2>1, <2>2, Constants, FS_EmptySet DEF CopiesInv, Members, Copy
<1>4. TestedInv
  BY <1>1, Constants DEF TestedInv, OnlyAlikeAreConfused, Alike
<1>5. ResultsInv
  <2>1. {m \in 1 .. shown : m \in passed} = {}
    BY <1>1
  <2>. QED  BY <1>1, <2>1, Constants, FS_EmptySet DEF ResultsInv
<1>. QED  BY <1>2, <1>3, <1>4, <1>5 DEF MInv

-----------------------------------------------------------------------------
(* Steps that leave the copies, or the results, as they are.                *)
LEMMA ResultsKept ==
  ASSUME ResultsInv, Kinds, UNCHANGED <<verdict, shown, survivors>>,
         \A m \in Mutant : step[m] = "done" => step'[m] = "done",
         \A m \in 1 .. shown : m \in passed' <=> m \in passed,
         \A m \in Mutant : step'[m] \in {"restores", "done"} =>
           (m \in passed' <=> verdict[tested'[m]] = "passed"),
         \A m \in passed' : step'[m] \in {"restores", "done"}
  PROVE  ResultsInv'
<1>1. {m \in 1 .. shown' : m \in passed'} = {m \in 1 .. shown : m \in passed}
  OBVIOUS
<1>2. \A m \in 1 .. shown : m \in Mutant
  BY Constants DEF ResultsInv, Mutant
<1>. QED  BY <1>1, <1>2 DEF ResultsInv

LEMMA BaselineStep ==
  ASSUME MInv, Baseline
  PROVE  MInv'
<1> DEFINE c == Head(workdirs)
<1>1. /\ workdirs # <<>> /\ workdirs' = Append(Tail(workdirs), c)
      /\ cache' = [cache EXCEPT ![c] = Compiled(c)]
      /\ step' = [step EXCEPT ![0] = "done"]
      /\ UNCHANGED <<verdict, now, taken, at, target, tested, passed, survivors, shown>>
  BY DEF Baseline
<1>2. /\ c \in Copy /\ IsQueue(workdirs') /\ Len(workdirs') = Len(workdirs)
      /\ Members(workdirs') = Members(workdirs)
  <2>1. IsQueue(workdirs)
    BY DEF MInv, CopiesInv
  <2>2. /\ IsQueue(Tail(workdirs)) /\ c \in Copy /\ Len(workdirs) = Len(Tail(workdirs)) + 1
        /\ c \in Members(workdirs) /\ Members(Tail(workdirs)) = Members(workdirs) \ {c}
    BY <1>1, <2>1, TakeFirst
  <2> HIDE DEF c
  <2>3. /\ IsQueue(workdirs') /\ Len(workdirs') = Len(Tail(workdirs)) + 1
        /\ Members(workdirs') = Members(Tail(workdirs)) \cup {c}
    BY <1>1, <2>2, GiveBack
  <2>. QED  BY <2>2, <2>3
<1> HIDE DEF c
<1>3. Compiled(c) \in Compilation /\ Compiled(c).size = Size[Compiled(c).holds]
  BY <1>2, ImportedIsAlike DEF MInv
<1>4. \A m \in Mutant : step'[m] = step[m]
  BY <1>1, Constants DEF MInv, Kinds
<1>5. Kinds'
  BY <1>1, <1>2, <1>3, Constants DEF MInv, Kinds
<1>6. CopiesInv'
  <2>1. Users' = Users
    BY <1>1 DEF Users
  <2>. QED  BY <1>1, <1>2, <1>4, <2>1 DEF MInv, CopiesInv
<1>7. TestedInv'
  BY <1>1, <1>2, <1>3, <1>4 DEF MInv, Kinds, TestedInv, OnlyAlikeAreConfused, Alike
<1>8. ResultsInv'
  BY <1>1, <1>4, ResultsKept DEF MInv, ResultsInv
<1>. QED  BY <1>5, <1>6, <1>7, <1>8 DEF MInv

LEMMA TakeStep ==
  ASSUME MInv, Take
  PROVE  MInv'
<1> DEFINE t == taken + 1
<1>1. /\ taken < Mutations /\ taken' = t /\ step' = [step EXCEPT ![t] = "waits"]
      /\ UNCHANGED <<verdict, now, workdirs, at, target, cache, tested, passed,
                     survivors, shown>>
  BY DEF Take
<1>2. /\ taken \in Nat /\ t \in Mutant /\ t \in Index /\ t > taken
      /\ \A m \in Mutant : m > t => m > taken
  BY <1>1, Constants DEF MInv, Kinds, Mutant, Index
<1>3. step[t] = "new"
  BY <1>2 DEF MInv, CopiesInv
<1> HIDE DEF t
<1>4. step'[t] = "waits" /\ \A m \in Index \ {t} : step'[m] = step[m]
  BY <1>1, <1>2 DEF MInv, Kinds
<1>5. Kinds'
  BY <1>1, <1>2, Constants DEF MInv, Kinds, Mutant
<1>6. CopiesInv'
  <2>1. Users' = Users
    BY <1>1 DEF Users
  <2>2. ~(t > taken')
    BY <1>1, <1>2 DEF t
  <2>3. \A m \in Mutant : m > taken' => m > taken /\ m # t
    BY <1>1, <1>2, <2>2
  <2>. QED  BY <1>1, <1>2, <1>3, <1>4, <2>1, <2>3, Constants DEF MInv, CopiesInv
<1>7. TestedInv'
  BY <1>1, <1>2, <1>4, Constants DEF MInv, TestedInv, OnlyAlikeAreConfused, Alike
<1>8. ResultsInv'
  BY <1>1, <1>2, <1>3, <1>4, ResultsKept, Constants DEF MInv, ResultsInv
<1>. QED  BY <1>5, <1>6, <1>7, <1>8 DEF MInv

LEMMA TakeCopyStep ==
  ASSUME MInv, NEW m \in Mutant, TakeCopy(m)
  PROVE  MInv'
<1> DEFINE c == Head(workdirs)
<1>1. /\ step[m] = "waits" /\ workdirs # <<>> /\ workdirs' = Tail(workdirs)
      /\ at' = [at EXCEPT ![m] = c] /\ step' = [step EXCEPT ![m] = "writes"]
      /\ UNCHANGED <<verdict, now, taken, target, cache, tested, passed, survivors, shown>>
  BY DEF TakeCopy, Rest
<1>2. /\ IsQueue(workdirs') /\ c \in Copy /\ Len(workdirs) = Len(workdirs') + 1
      /\ c \in Members(workdirs) /\ Members(workdirs') = Members(workdirs) \ {c}
      /\ Len(workdirs') \in Nat
  BY <1>1, TakeFirst DEF MInv, CopiesInv, IsQueue
<1> HIDE DEF c
<1>3. /\ m \in Index /\ at'[m] = c /\ step'[m] = "writes"
      /\ \A n \in Index \ {m} : at'[n] = at[n] /\ step'[n] = step[n]
  BY <1>1, Constants DEF MInv, Kinds
<1>4. c # Nobody /\ target[c].holds = 0 /\ \A n \in Mutant : at[n] # c
  BY <1>2, Constants DEF MInv, CopiesInv
<1>5. Kinds'
  BY <1>1, <1>2, <1>3 DEF MInv, Kinds
<1>6. CopiesInv'
  <2>1. m \notin Users /\ Users' = Users \cup {m}
    BY <1>1, <1>3, <1>4, Constants DEF MInv, CopiesInv, Users
  <2>2. Cardinality(Users') = Cardinality(Users) + 1
    BY <2>1, UsersAreFinite, FS_AddElement
  <2>3. Len(workdirs') + Cardinality(Users') = Jobs
    BY <1>2, <2>2, UsersAreFinite DEF MInv, CopiesInv
  <2>4. \A n \in Mutant : n > taken => n # m
    BY <1>1 DEF MInv, CopiesInv
  <2>. QED  BY <1>1, <1>2, <1>3, <1>4, <2>3, <2>4, Constants DEF MInv, CopiesInv
<1>7. TestedInv'
  BY <1>1, <1>3, Constants DEF MInv, TestedInv, OnlyAlikeAreConfused, Alike
<1>8. ResultsInv'
  BY <1>1, <1>3, ResultsKept, Constants DEF MInv, ResultsInv
<1>. QED  BY <1>5, <1>6, <1>7, <1>8 DEF MInv

(* A step of a run that has a copy: only that copy's file changes.          *)
LEMMA HasCopy ==
  ASSUME MInv, NEW m \in Mutant, step[m] \in {"writes", "imports", "runs", "restores"}
  PROVE  /\ m \in Index /\ at[m] \in Copy /\ at[m] # Nobody /\ at[m] \notin Members(workdirs)
         /\ \A n \in Mutant \ {m} : at[n] # at[m]
         /\ m <= taken
BY Constants DEF MInv, CopiesInv, Kinds, Mutant

LEMMA WriteStep ==
  ASSUME MInv, NEW m \in Mutant, Write(m)
  PROVE  MInv'
<1> DEFINE f == [holds |-> m, second |-> now]
<1>1. /\ step[m] = "writes" /\ target' = [target EXCEPT ![at[m]] = f]
      /\ step' = [step EXCEPT ![m] = "imports"]
      /\ UNCHANGED <<verdict, now, workdirs, taken, at, cache, tested, passed, survivors,
                     shown>>
  BY DEF Write, Written
<1>2. /\ m \in Index /\ at[m] \in Copy /\ at[m] # Nobody /\ at[m] \notin Members(workdirs)
      /\ \A n \in Mutant \ {m} : at[n] # at[m]
      /\ m <= taken
  BY <1>1, HasCopy
<1>3. f \in Content /\ f.holds = m
  BY <1>2 DEF MInv, Kinds, Content
<1> HIDE DEF f
<1>4. /\ step'[m] = "imports" /\ \A n \in Index \ {m} : step'[n] = step[n]
      /\ target'[at[m]] = f /\ \A c \in Copy \ {at[m]} : target'[c] = target[c]
  BY <1>1, <1>2 DEF MInv, Kinds
<1>5. Kinds'
  BY <1>1, <1>2, <1>3 DEF MInv, Kinds
<1>6. CopiesInv'
  <2>1. Users' = Users
    BY <1>1 DEF Users
  <2>2. \A c \in Members(workdirs) : c \in Copy \ {at[m]}
    BY <1>2 DEF MInv, CopiesInv, IsQueue, Members
  <2>3. \A n \in Mutant \ {m} : at[n] # Nobody => target'[at[n]] = target[at[n]]
    BY <1>2, <1>4, Constants DEF MInv, Kinds
  <2>4. ASSUME NEW n \in Mutant
        PROVE  /\ at[n] # Nobody <=> step'[n] \in {"writes", "imports", "runs", "restores"}
               /\ step'[n] = "writes" => target'[at[n]].holds = 0
               /\ step'[n] \in {"imports", "runs", "restores"} => target'[at[n]].holds = n
               /\ n > taken => step'[n] = "new"
    BY <1>1, <1>2, <1>3, <1>4, <2>3, Constants DEF MInv, CopiesInv
  <2>. QED  BY <1>1, <1>4, <2>1, <2>2, <2>4 DEF MInv, CopiesInv
<1>7. TestedInv'
  BY <1>1, <1>4, Constants DEF MInv, TestedInv, OnlyAlikeAreConfused, Alike
<1>8. ResultsInv'
  BY <1>1, <1>4, ResultsKept, Constants DEF MInv, ResultsInv
<1>. QED  BY <1>5, <1>6, <1>7, <1>8 DEF MInv

(* The next two leave the queue, who has which copy, and the files.         *)
LEMMA CopiesKept ==
  ASSUME MInv, NEW m \in Mutant, step[m] \in {"imports", "runs"},
         NEW s \in {"runs", "restores"}, step' = [step EXCEPT ![m] = s],
         UNCHANGED <<workdirs, taken, at, target>>
  PROVE  CopiesInv'
<1>1. m \in Index /\ m <= taken
  BY HasCopy
<1>2. step'[m] = s /\ \A n \in Index \ {m} : step'[n] = step[n]
  BY <1>1 DEF MInv, Kinds
<1>3. Users' = Users
  BY DEF Users
<1>4. ASSUME NEW n \in Mutant
      PROVE  /\ at[n] # Nobody <=> step'[n] \in {"writes", "imports", "runs", "restores"}
             /\ step'[n] = "writes" => target[at[n]].holds = 0
             /\ step'[n] \in {"imports", "runs", "restores"} => target[at[n]].holds = n
             /\ n > taken => step'[n] = "new"
  BY <1>1, <1>2, Constants DEF MInv, CopiesInv
<1>. QED  BY <1>3, <1>4 DEF MInv, CopiesInv

LEMMA ImportStep ==
  ASSUME MInv, NEW m \in Mutant, Import(m)
  PROVE  MInv'
<1> DEFINE c == at[m]
<1>1. /\ step[m] = "imports" /\ tested' = [tested EXCEPT ![m] = Imported(c)]
      /\ cache' = [cache EXCEPT ![c] = Compiled(c)]
      /\ step' = [step EXCEPT ![m] = "runs"]
      /\ UNCHANGED <<verdict, now, workdirs, taken, at, target, passed, survivors, shown>>
  BY DEF Import
<1>2. m \in Index /\ c \in Copy /\ target[c].holds = m
  BY <1>1, HasCopy DEF MInv, CopiesInv
<1>3. /\ Imported(c) \in Index /\ Size[Imported(c)] = Size[m]
      /\ Compiled(c) \in Compilation /\ Compiled(c).size = Size[Compiled(c).holds]
  BY <1>2, ImportedIsAlike DEF MInv
<1>4. CopiesInv'
  BY <1>1, CopiesKept
<1> HIDE DEF c
<1>5. /\ step'[m] = "runs" /\ \A n \in Index \ {m} : step'[n] = step[n]
      /\ tested'[m] = Imported(c) /\ \A n \in Mutant \ {m} : tested'[n] = tested[n]
      /\ cache'[c] = Compiled(c) /\ \A d \in Copy \ {c} : cache'[d] = cache[d]
  BY <1>1, <1>2 DEF MInv, Kinds
<1>6. Kinds'
  BY <1>1, <1>2, <1>3 DEF MInv, Kinds
<1>7. TestedInv'
  <2>1. Imported(c) \in Alike(m)
    BY <1>3 DEF Alike, Index
  <2>2. ASSUME NEW n \in Mutant, step'[n] \in {"runs", "restores", "done"}
        PROVE  tested'[n] \in Alike(n)
    BY <1>5, <2>1, <2>2, Constants DEF MInv, TestedInv, OnlyAlikeAreConfused
  <2>3. \A d \in Copy : cache'[d].size \in {0, Size[cache'[d].holds]}
    BY <1>3, <1>5 DEF MInv, TestedInv
  <2>. QED  BY <2>2, <2>3 DEF TestedInv, OnlyAlikeAreConfused, Alike
<1>8. ResultsInv'
  <2>1. \A n \in Mutant : step[n] = "done" => step'[n] = "done"
    BY <1>1, <1>5 DEF Mutant, Index
  <2>2. \A n \in Mutant : step'[n] \in {"restores", "done"} =>
          n # m /\ step[n] \in {"restores", "done"}
    BY <1>5 DEF Mutant, Index
  <2>3. \A n \in Mutant : step'[n] \in {"restores", "done"} =>
          (n \in passed' <=> verdict[tested'[n]] = "passed")
    BY <1>1, <1>5, <2>2 DEF MInv, ResultsInv
  <2>4. \A n \in passed' : step'[n] \in {"restores", "done"}
    <3>1. passed \subseteq Mutant
      BY DEF MInv, Kinds
    <3>. QED  BY <1>1, <1>5, <3>1 DEF MInv, ResultsInv, Mutant, Index
  <2>. QED  BY <1>1, <2>1, <2>3, <2>4, ResultsKept DEF MInv
<1>. QED  BY <1>4, <1>6, <1>7, <1>8 DEF MInv

LEMMA RunEndsStep ==
  ASSUME MInv, NEW m \in Mutant, RunEnds(m)
  PROVE  MInv'
<1>1. /\ step[m] = "runs" /\ step' = [step EXCEPT ![m] = "restores"]
      /\ passed' = IF verdict[tested[m]] = "passed" THEN passed \cup {m} ELSE passed
      /\ UNCHANGED <<verdict, now, workdirs, taken, at, target, cache, tested, survivors,
                     shown>>
  BY DEF RunEnds
<1>2. CopiesInv'
  BY <1>1, CopiesKept
<1>3. /\ m \in Index /\ step'[m] = "restores"
      /\ \A n \in Index \ {m} : step'[n] = step[n]
  BY <1>1, Constants DEF MInv, Kinds
<1>4. Kinds'
  BY <1>1, <1>3 DEF MInv, Kinds
<1>5. TestedInv'
  BY <1>1, <1>3, Constants DEF MInv, TestedInv, OnlyAlikeAreConfused, Alike
<1>6. ResultsInv'
  <2>1. m \notin passed /\ m \notin 1 .. shown
    BY <1>1 DEF MInv, ResultsInv
  <2>2. \A n \in Mutant \ {m} : n \in passed' <=> n \in passed
    BY <1>1
  <2>3. m \in passed' <=> verdict[tested[m]] = "passed"
    BY <1>1, <2>1
  <2>4. \A n \in 1 .. shown : n \in Mutant \ {m}
    BY <2>1, Constants DEF MInv, ResultsInv, Mutant
  <2>5. \A n \in passed' : n = m \/ n \in passed
    BY <1>1
  <2>6. passed \subseteq Mutant
    BY DEF MInv, Kinds
  <2>7. \A n \in passed' : step'[n] \in {"restores", "done"}
    BY <1>3, <2>5, <2>6, Constants DEF MInv, ResultsInv
  <2>8. \A n \in Mutant : step'[n] \in {"restores", "done"} =>
          (n \in passed' <=> verdict'[tested'[n]] = "passed")
    BY <1>1, <1>3, <2>2, <2>3, Constants DEF MInv, ResultsInv
  <2>9. \A n \in Mutant : step[n] = "done" => step'[n] = "done"
    BY <1>1, <1>3, Constants
  <2>. QED  BY <1>1, <2>2, <2>4, <2>7, <2>8, <2>9, ResultsKept DEF MInv
<1>. QED  BY <1>2, <1>4, <1>5, <1>6 DEF MInv

LEMMA RestoreStep ==
  ASSUME MInv, NEW m \in Mutant, Restore(m)
  PROVE  MInv'
<1> DEFINE c == at[m]
           f == [holds |-> 0, second |-> now]
<1>1. /\ step[m] = "restores" /\ target' = [target EXCEPT ![c] = f]
      /\ workdirs' = Append(workdirs, c) /\ at' = [at EXCEPT ![m] = Nobody]
      /\ step' = [step EXCEPT ![m] = "done"]
      /\ UNCHANGED <<verdict, now, taken, cache, tested, passed, survivors, shown>>
  BY DEF Restore, Returned
<1>2. /\ m \in Index /\ c \in Copy /\ c # Nobody /\ c \notin Members(workdirs)
      /\ \A n \in Mutant \ {m} : at[n] # c
      /\ m <= taken
  BY <1>1, HasCopy
<1>3. f \in Content /\ f.holds = 0
  BY Constants DEF MInv, Kinds, Content
<1> HIDE DEF f
<1>4. c # Nobody /\ m \in Users
  BY <1>2 DEF Users
<1> HIDE DEF c
<1>5. /\ IsQueue(workdirs') /\ Len(workdirs') = Len(workdirs) + 1
      /\ Members(workdirs') = Members(workdirs) \cup {c}
      /\ Len(workdirs) \in Nat
  <2>1. IsQueue(workdirs) /\ Len(workdirs) \in Nat
    BY DEF MInv, CopiesInv, IsQueue
  <2>2. /\ IsQueue(Append(workdirs, c)) /\ Len(Append(workdirs, c)) = Len(workdirs) + 1
        /\ Members(Append(workdirs, c)) = Members(workdirs) \cup {c}
    BY <1>2, <2>1, GiveBack
  <2>. QED  BY <1>1, <2>1, <2>2
<1>6. /\ step'[m] = "done" /\ at'[m] = Nobody
      /\ \A n \in Index \ {m} : step'[n] = step[n] /\ at'[n] = at[n]
      /\ target'[c] = f /\ \A d \in Copy \ {c} : target'[d] = target[d]
  BY <1>1, <1>2 DEF MInv, Kinds
<1>7. Kinds'
  BY <1>1, <1>2, <1>3 DEF MInv, Kinds
<1>8. CopiesInv'
  <2>1. Users' = Users \ {m}
    BY <1>6, Constants DEF Users
  <2>2. Cardinality(Users') = Cardinality(Users) - 1
    BY <1>4, <2>1, UsersAreFinite, FS_RemoveElement
  <2>3. Len(workdirs') + Cardinality(Users') = Jobs
    BY <1>5, <2>2, UsersAreFinite, Constants DEF MInv, CopiesInv
  <2>4. \A d \in Members(workdirs') : target'[d].holds = 0
    <3>1. \A d \in Members(workdirs) : d \in Copy \ {c}
      BY <1>2 DEF MInv, CopiesInv, IsQueue, Members
    <3>. QED  BY <1>3, <1>5, <1>6, <3>1 DEF MInv, CopiesInv
  <2>5. \A n \in Mutant \ {m} : n \in Index \ {m} /\ at'[n] = at[n] /\ step'[n] = step[n]
    BY <1>6, Constants
  <2>6. \A n \in Mutant \ {m} : at[n] # Nobody => at[n] \in Copy \ {c}
    BY <1>2, <2>5 DEF MInv, Kinds
  <2>7. \A n \in Mutant \ {m} : at[n] # Nobody => target'[at[n]] = target[at[n]]
    BY <1>6, <2>6
  <2>8. ASSUME NEW n \in Mutant \ {m}
        PROVE  /\ at'[n] # Nobody <=> step'[n] \in {"writes", "imports", "runs", "restores"}
               /\ at'[n] # Nobody => at'[n] \notin Members(workdirs')
               /\ \A k \in Mutant \ {n} : at'[n] # Nobody => at'[k] # at'[n]
               /\ step'[n] = "writes" => target'[at'[n]].holds = 0
               /\ step'[n] \in {"imports", "runs", "restores"} => target'[at'[n]].holds = n
               /\ n > taken' => step'[n] = "new"
    <3>1. \A k \in Mutant \ {n} : at'[n] # Nobody => at'[k] # at'[n]
      BY <1>6, <2>5 DEF MInv, CopiesInv
    <3>. QED  BY <1>1, <1>5, <2>5, <2>6, <2>7, <3>1 DEF MInv, CopiesInv
  <2>9. /\ ~(m > taken')
        /\ at'[m] = Nobody /\ step'[m] = "done"
    BY <1>1, <1>2, <1>6, Constants DEF MInv, Kinds, Mutant
  <2>. QED  BY <1>5, <2>3, <2>4, <2>8, <2>9 DEF CopiesInv
<1>9. TestedInv'
  BY <1>1, <1>6, Constants DEF MInv, TestedInv, OnlyAlikeAreConfused, Alike
<1>10. ResultsInv'
  <2>1. \A n \in Mutant : step[n] = "done" => step'[n] = "done"
    BY <1>6, Constants
  <2>2. \A n \in Mutant : step'[n] \in {"restores", "done"} => step[n] \in {"restores", "done"}
    BY <1>1, <1>6, Constants
  <2>3. \A n \in passed' : step'[n] \in {"restores", "done"}
    BY <1>1, <1>6, Constants DEF MInv, Kinds, ResultsInv
  <2>. QED  BY <1>1, <2>1, <2>2, <2>3, ResultsKept DEF MInv, ResultsInv
<1>. QED  BY <1>7, <1>8, <1>9, <1>10 DEF MInv

(* The results are read in order, and those of the survivors counted.       *)
LEMMA ShowStep ==
  ASSUME MInv, Show
  PROVE  MInv'
<1> DEFINE s == shown + 1
           Old == {m \in 1 .. shown : m \in passed}
           New == {m \in 1 .. s : m \in passed}
<1>1. /\ shown < Mutations /\ step[s] = "done" /\ shown' = s
      /\ survivors' = IF s \in passed THEN Append(survivors, s) ELSE survivors
      /\ UNCHANGED <<verdict, now, workdirs, taken, at, step, target, cache, tested, passed>>
  BY DEF Show, HasEnded
<1>2. Kinds' /\ CopiesInv' /\ TestedInv'
  <2>1. Users' = Users
    BY <1>1 DEF Users
  <2>. QED  BY <1>1, <2>1 DEF MInv, Kinds, CopiesInv, TestedInv, OnlyAlikeAreConfused, Alike
<1>3. /\ shown \in Nat /\ s \in Mutant /\ s \in 0 .. Mutations
      /\ survivors \in Seq(Mutant) /\ Len(survivors) = Cardinality(Old)
      /\ 1 .. s = (1 .. shown) \cup {s} /\ s \notin 1 .. shown
  <2>1. /\ shown \in 0 .. Mutations /\ survivors \in Seq(Mutant)
        /\ Len(survivors) = Cardinality(Old) /\ shown < Mutations
    BY <1>1 DEF MInv, ResultsInv
  <2>2. /\ shown \in Nat /\ s \in 1 .. Mutations /\ s \in 0 .. Mutations
        /\ 1 .. s = (1 .. shown) \cup {s} /\ s \notin 1 .. shown
    BY <2>1, Constants
  <2>. QED  BY <2>1, <2>2 DEF Mutant
<1>4. IsFiniteSet(Old) /\ s \notin Old
  <2>1. IsFiniteSet(1 .. shown)
    BY <1>3, FS_Interval
  <2>. QED  BY <1>3, <2>1, FS_Subset
<1>5. Len(survivors') = Cardinality(New) /\ survivors' \in Seq(Mutant)
  <2>1. CASE s \in passed
    <3>1. New = Old \cup {s}
      BY <1>3, <2>1
    <3>2. Cardinality(New) = Cardinality(Old) + 1
      BY <1>4, <3>1, FS_AddElement
    <3>3. survivors' = Append(survivors, s)
      BY <1>1, <2>1
    <3> HIDE DEF s, Old, New
    <3>. QED  BY <1>3, <3>2, <3>3
  <2>2. CASE s \notin passed
    <3>1. New = Old
      BY <1>3, <2>2
    <3>2. survivors' = survivors
      BY <1>1, <2>2
    <3>. QED  BY <1>3, <3>1, <3>2
  <2>. QED  BY <2>1, <2>2
<1>6. \A m \in 1 .. s : step'[m] = "done"
  BY <1>1, <1>3 DEF MInv, ResultsInv
<1>7. ResultsInv'
  BY <1>1, <1>3, <1>5, <1>6 DEF MInv, ResultsInv
<1>. QED  BY <1>2, <1>7 DEF MInv

LEMMA RestStep ==
  ASSUME MInv, Report \/ Tick \/ UNCHANGED vars
  PROVE  MInv'
<1>1. /\ UNCHANGED <<verdict, workdirs, taken, at, step, target, cache, tested, passed,
                     survivors, shown>>
      /\ now' \in Nat
  BY DEF Report, Tick, vars, MInv, Kinds
<1>2. Users' = Users
  BY <1>1 DEF Users
<1>. QED  BY <1>1, <1>2 DEF MInv, Kinds, CopiesInv, TestedInv, OnlyAlikeAreConfused, Alike, ResultsInv

LEMMA NextMInv ==
  ASSUME MInv, [Next]_vars
  PROVE  MInv'
BY BaselineStep, TakeStep, TakeCopyStep, WriteStep, ImportStep, RunEndsStep, RestoreStep,
   ShowStep, RestStep DEF Next, Run

LEMMA SaidStep ==
  ASSUME SaidInv, MInv, [Next]_vars
  PROVE  SaidInv'
<1>1. CASE Baseline \/ Show
  <2>1. exit = "none" /\ exit' \in {"none", "1"}
    BY <1>1 DEF Baseline, Show
  <2>. QED  BY <2>1 DEF SaidInv
<1>2. CASE Report
  <2>1. exit' = (IF Enough THEN "0" ELSE "1") /\ UNCHANGED <<survivors, shown>>
        /\ shown = Mutations
    BY <1>2 DEF Report
  <2>. QED  BY <2>1 DEF SaidInv, Enough, Killed
<1>3. CASE UNCHANGED <<survivors, shown, exit>>
  BY <1>3 DEF SaidInv, Enough, Killed
<1>4. Take \/ (\E m \in Mutant : Run(m)) \/ Tick \/ UNCHANGED vars =>
        UNCHANGED <<survivors, shown, exit>>
  BY DEF Take, Run, TakeCopy, Write, Import, RunEnds, Restore, Tick, vars
<1>. QED  BY <1>1, <1>2, <1>3, <1>4 DEF Next

-----------------------------------------------------------------------------
(* The invariant the theorems below rest on: who has which copy, what is in *)
(* the copies and their caches, and what the results are of.                *)
THEOREM CopiesInductive == Spec => [](MInv /\ SaidInv)
<1>1. Init => MInv /\ SaidInv
  BY InitMInv DEF Init, SaidInv
<1>2. MInv /\ SaidInv /\ [Next]_vars => (MInv /\ SaidInv)'
  BY NextMInv, SaidStep
<1>. QED  BY <1>1, <1>2, PTL DEF Spec

(* mutation.py, every mutation is tested in a copy: what the tests ran for  *)
(* a mutation was that mutation, or one that makes the file as long.        *)
THEOREM OnlyAlike == Spec => []OnlyAlikeAreConfused
<1>1. MInv => OnlyAlikeAreConfused
  BY DEF MInv, TestedInv
<1>. QED  BY <1>1, CopiesInductive, PTL

(* check: each copy is free, with the file restored, or of one run, whose   *)
(* mutation or the original it holds; and none is lost.                     *)
THEOREM CopiesApart == Spec => []CopiesAreApart
<1>1. ASSUME MInv PROVE CopiesAreApart
  <2>1. ToSet(workdirs) = Members(workdirs)
    BY <1>1, MembersAreAll DEF MInv, CopiesInv, IsQueue
  <2>2. \A m \in Mutant : at[m] # Nobody => target[at[m]].holds \in {0, m}
    BY <1>1 DEF MInv, CopiesInv
  <2>. QED  BY <1>1, <2>1, <2>2 DEF MInv, CopiesInv, CopiesAreApart, Users
<1>. QED  BY <1>1, CopiesInductive, PTL

(* main: when the program says that the tests suffice, of enough of the     *)
(* mutations they notice the mutation or another file as long: whatever is  *)
(* counted as noticed, the tests did fail on a file of that length.         *)
THEOREM SuccessIsEarned == Spec => []SuccessMeansAlikeNoticed
<1>1. ASSUME MInv, SaidInv PROVE SuccessMeansAlikeNoticed
  <2> SUFFICES ASSUME exit = "0"
      PROVE  \/ Mutations = 0
             \/ 100 * (Mutations - Cardinality(AlikeUnnoticed)) >= MinScore * Mutations
    BY DEF SuccessMeansAlikeNoticed
  <2> DEFINE Survived == {m \in 1 .. shown : m \in passed}
  <2>1. shown = Mutations /\ Enough
    BY <1>1 DEF SaidInv
  <2>2. ASSUME NEW m \in AlikeUnnoticed
        PROVE  m \in passed
    <3>1. m \in Mutant /\ step[m] = "done"
      BY <1>1, <2>1 DEF MInv, ResultsInv, Mutant, AlikeUnnoticed
    <3>2. tested[m] \in Alike(m) /\ (m \in passed <=> verdict[tested[m]] = "passed")
      BY <1>1, <3>1 DEF MInv, TestedInv, OnlyAlikeAreConfused, ResultsInv
    <3>. QED  BY <3>2 DEF AlikeUnnoticed
  <2>3. AlikeUnnoticed \subseteq Survived
    BY <2>1, <2>2 DEF AlikeUnnoticed, Mutant
  <2>4. IsFiniteSet(Survived) /\ Len(survivors) = Cardinality(Survived)
    <3>1. IsFiniteSet(1 .. shown)
      BY <2>1, Constants, FS_Interval
    <3>. QED  BY <1>1, <3>1, FS_Subset DEF MInv, ResultsInv
  <2>5. /\ Cardinality(AlikeUnnoticed) <= Len(survivors)
        /\ Cardinality(AlikeUnnoticed) \in Nat /\ Len(survivors) \in Nat
    <3> HIDE DEF Survived
    <3>1. /\ IsFiniteSet(AlikeUnnoticed)
          /\ Cardinality(AlikeUnnoticed) <= Cardinality(Survived)
      BY <2>3, <2>4, FS_Subset
    <3>2. Cardinality(AlikeUnnoticed) \in Nat /\ Cardinality(Survived) \in Nat
      BY <2>4, <3>1, FS_CardinalityType
    <3>. QED  BY <2>4, <3>1, <3>2
  <2>6. Mutations = 0 \/ 100 * (Mutations - Len(survivors)) >= MinScore * Mutations
    BY <2>1 DEF Enough, Killed
  <2>. QED  BY <2>5, <2>6, Constants
<1>. QED  BY <1>1, CopiesInductive, PTL

=============================================================================
