---------------------------- MODULE ProgramsProofs ----------------------------
EXTENDS Programs, FoldTheorems

(***************************************************************************)
(* Theorems about the programs beside the application: what each of them   *)
(* keeps to, whatever the others do.                                       *)
(***************************************************************************)

(* A step of the programs is a step of each part, or leaves that part.     *)
LEMMA AllStep ==
  ASSUME [AllNext]_allVars
  PROVE  /\ [Next]_vars /\ [D!Next]_D!vars /\ [G!Next]_G!vars
         /\ [B!Next /\ (alone # {} => OneByOne')]_B!vars /\ alone' = alone
BY DEF AllNext, allVars, vars, MigrationStep, SeedingStep, CopyStep, GuardStep,
       seedingVars, copyVars, guardVars, D!vars, B!vars, B!process, G!vars

-----------------------------------------------------------------------------
(* A receipt whose number is replaced is the same receipt with another      *)
(* number.                                                                  *)
LEMMA WithNumber ==
  ASSUME NEW r \in Receipt, NEW number \in Number \cup {None}
  PROVE  /\ With(r, number) \in Receipt
         /\ With(r, number).id = r.id
         /\ With(r, number).supplier = r.supplier
         /\ With(r, number).invoice = number
         /\ With(r, number).entered = r.entered
BY DEF With, Receipt

LEMMA MadeUpIsNumber ==
  ASSUME NEW id \in Id
  PROVE  MadeUp(id) \in Number /\ MadeUp(id) # None
BY NoneAssumption DEF MadeUp, Number, Id

(* What every step asks of the rows it leaves: types, identifiers of the    *)
(* sequence, and one row for each.                                          *)
Rows(set, last) ==
  /\ set \in SUBSET Receipt
  /\ \A r \in set : r.id \in 1 .. last
  /\ \A r, s \in set : r.id = s.id => r = s

(* Below version 3 only a number equal to the made-up one can be missing.   *)
Numbered(set) ==
  \A r \in set : r.entered # None =>
    r.invoice = r.entered \/ (r.invoice = None /\ r.entered = MadeUp(r.id))

Full(set) == \A r \in set : r.invoice # None

(* 0003 up: every row gets a number; the number a user entered comes back.  *)
LEMMA FillKeeps ==
  ASSUME NEW set, NEW last \in 0 .. MaxId, Rows(set, last), Numbered(set)
  PROVE  Rows(Fill(set), last) /\ Numbered(Fill(set)) /\ Full(Fill(set))
<1> DEFINE New(r) == IF r.invoice = None THEN MadeUp(r.id) ELSE r.invoice
<1>1. ASSUME NEW r \in set
      PROVE  /\ r \in Receipt /\ New(r) \in Number \cup {None} /\ New(r) # None
             /\ With(r, New(r)) \in Receipt
             /\ With(r, New(r)).id = r.id
             /\ With(r, New(r)).invoice = New(r)
             /\ With(r, New(r)).entered = r.entered
  <2>1. r \in Receipt /\ r.id \in Id
    BY <1>1 DEF Rows, Receipt
  <2>2. New(r) \in Number \cup {None} /\ New(r) # None
    BY <2>1, MadeUpIsNumber DEF Receipt
  <2>. QED  BY <2>1, <2>2, WithNumber
<1>2. \A x \in Fill(set) : \E r \in set : x = With(r, New(r))
  BY DEF Fill
<1>3. Rows(Fill(set), last)
  <2>1. Fill(set) \in SUBSET Receipt
    BY <1>1, <1>2
  <2>2. \A x \in Fill(set) : x.id \in 1 .. last
    BY <1>1, <1>2 DEF Rows
  <2>3. \A x, y \in Fill(set) : x.id = y.id => x = y
    BY <1>1, <1>2 DEF Rows
  <2>. QED  BY <2>1, <2>2, <2>3 DEF Rows
<1>4. Numbered(Fill(set))
  BY <1>1, <1>2 DEF Numbered
<1>5. Full(Fill(set))
  BY <1>1, <1>2 DEF Full
<1>. QED  BY <1>3, <1>4, <1>5

(* 0003 down: a number that is emptied is the made-up one.                  *)
LEMMA EmptyKeeps ==
  ASSUME NEW set, NEW last \in 0 .. MaxId, Rows(set, last), Numbered(set), Full(set)
  PROVE  Rows(Emptied(set), last) /\ Numbered(Emptied(set))
<1> DEFINE New(r) == IF r.invoice = MadeUp(r.id) THEN None ELSE r.invoice
<1>1. ASSUME NEW r \in set
      PROVE  /\ r \in Receipt /\ New(r) \in Number \cup {None}
             /\ With(r, New(r)) \in Receipt
             /\ With(r, New(r)).id = r.id
             /\ With(r, New(r)).invoice = New(r)
             /\ With(r, New(r)).entered = r.entered
  <2>1. r \in Receipt /\ New(r) \in Number \cup {None}
    BY <1>1 DEF Rows, Receipt
  <2>. QED  BY <2>1, WithNumber
<1>2. \A x \in Emptied(set) : \E r \in set : x = With(r, New(r))
  BY DEF Emptied
<1>3. Rows(Emptied(set), last)
  <2>1. Emptied(set) \in SUBSET Receipt
    BY <1>1, <1>2
  <2>2. \A x \in Emptied(set) : x.id \in 1 .. last
    BY <1>1, <1>2 DEF Rows
  <2>3. \A x, y \in Emptied(set) : x.id = y.id => x = y
    BY <1>1, <1>2 DEF Rows
  <2>. QED  BY <2>1, <2>2, <2>3 DEF Rows
<1>4. Numbered(Emptied(set))
  BY <1>1, <1>2 DEF Numbered, Full
<1>. QED  BY <1>3, <1>4

(* 0002 down: with the column goes every number, entered or made up.        *)
Dropped(r) == [With(r, None) EXCEPT !.entered = None]
Bare(set) == {Dropped(r) : r \in set}

LEMMA DroppedRow ==
  ASSUME NEW r \in Receipt
  PROVE  /\ Dropped(r) \in Receipt
         /\ Dropped(r).id = r.id
         /\ Dropped(r).entered = None
<1> DEFINE w == With(r, None)
<1>1. w \in Receipt /\ w.id = r.id
  BY WithNumber
<1> HIDE DEF w
<1>2. /\ [w EXCEPT !.entered = None] \in Receipt
      /\ [w EXCEPT !.entered = None].id = w.id
      /\ [w EXCEPT !.entered = None].entered = None
  BY <1>1 DEF Receipt
<1>3. Dropped(r) = [w EXCEPT !.entered = None]
  BY DEF Dropped, w
<1>. QED  BY <1>1, <1>2, <1>3

LEMMA DropKeeps ==
  ASSUME NEW set, NEW last \in 0 .. MaxId, Rows(set, last)
  PROVE  Rows(Bare(set), last) /\ Numbered(Bare(set))
<1>1. ASSUME NEW r \in set
      PROVE  /\ Dropped(r) \in Receipt
             /\ Dropped(r).id = r.id
             /\ Dropped(r).entered = None
  <2>1. r \in Receipt
    BY <1>1 DEF Rows
  <2>. QED  BY <2>1, DroppedRow
<1>2. \A x \in Bare(set) : \E r \in set : x = Dropped(r)
  BY DEF Bare
<1>3. Rows(Bare(set), last)
  <2>1. Bare(set) \in SUBSET Receipt
    BY <1>1, <1>2
  <2>2. \A x \in Bare(set) : x.id \in 1 .. last
    BY <1>1, <1>2 DEF Rows
  <2>3. \A x, y \in Bare(set) : x.id = y.id => x = y
    BY <1>1, <1>2 DEF Rows
  <2>. QED  BY <2>1, <2>2, <2>3 DEF Rows
<1>4. Numbered(Bare(set))
  BY <1>1, <1>2 DEF Numbered
<1>. QED  BY <1>3, <1>4

(* The invariant in the words of these lemmas.                              *)
LEMMA IInvInWords ==
  IInv <=> /\ version \in 0 .. HeadRevision /\ issued \in 0 .. MaxId
           /\ Rows(receipts, issued) /\ Numbered(receipts)
           /\ version >= 3 => Full(receipts)
           /\ version = HeadRevision => Unique(receipts)
BY DEF IInv, TypeOK, HeadMeetsTheRule, NumbersInv, Rows, Numbered, Full, HeadRevision

(* A receipt more, with the number its user gave it.                        *)
LEMMA OneMore ==
  ASSUME NEW set, NEW last \in 0 .. MaxId, last < MaxId,
         Rows(set, last), Numbered(set),
         NEW s \in Supplier, NEW number \in Number \cup {None},
         NEW x, x = [id |-> last + 1, supplier |-> s, invoice |-> number,
                     entered |-> number]
  PROVE  Rows(set \cup {x}, last + 1) /\ Numbered(set \cup {x})
<1>1. last \in Nat /\ last + 1 \in Id /\ last + 1 \in 1 .. (last + 1)
  BY MaxIdAssumption DEF Id
<1>2. x \in Receipt /\ x.id = last + 1
  BY <1>1 DEF Receipt
<1>3. \A r \in set : r.id \in 1 .. (last + 1) /\ r.id # x.id
  BY <1>1, <1>2 DEF Rows
<1>4. Rows(set \cup {x}, last + 1)
  BY <1>1, <1>2, <1>3 DEF Rows
<1>5. Numbered(set \cup {x})
  BY DEF Numbered
<1>. QED  BY <1>4, <1>5

(* Fewer receipts break nothing.                                            *)
LEMMA Fewer ==
  ASSUME NEW set, NEW last \in 0 .. MaxId, NEW less \in SUBSET set
  PROVE  /\ Rows(set, last) => Rows(less, last)
         /\ Numbered(set) => Numbered(less)
         /\ Full(set) => Full(less)
         /\ Unique(set) => Unique(less)
BY DEF Rows, Numbered, Full, Unique

(* The rows an upgrade to the head leaves, from whatever version.           *)
LEMMA UpgradeKeeps ==
  ASSUME IInv, version < HeadRevision
  PROVE  /\ Rows(Upgraded(version, receipts), issued)
         /\ Numbered(Upgraded(version, receipts))
         /\ Full(Upgraded(version, receipts))
<1>1. /\ version \in 0 .. HeadRevision /\ issued \in 0 .. MaxId
      /\ Rows(receipts, issued) /\ Numbered(receipts)
      /\ version >= 3 => Full(receipts)
  BY IInvInWords
<1>2. CASE version < 3
  BY <1>1, <1>2, FillKeeps DEF Upgraded
<1>3. CASE ~(version < 3)
  BY <1>1, <1>3 DEF Upgraded, HeadRevision
<1>. QED  BY <1>2, <1>3

LEMMA InitIInv == Init => IInv
<1> SUFFICES ASSUME Init PROVE IInv
  OBVIOUS
<1>1. version = 0 /\ receipts = {} /\ issued = 0
  BY DEF Init
<1>2. issued \in 0 .. MaxId
  BY <1>1, MaxIdAssumption
<1>3. Rows(receipts, issued) /\ Numbered(receipts)
  BY <1>1 DEF Rows, Numbered
<1>. QED  BY <1>1, <1>2, <1>3, IInvInWords DEF HeadRevision

(* Every step keeps the invariant: one step below for each action of Next.  *)
LEMMA NextIInv == IInv /\ [Next]_vars => IInv'
<1> SUFFICES ASSUME IInv, [Next]_vars PROVE IInv'
  OBVIOUS
<1> DEFINE In(v, set, last) ==
      /\ v \in 0 .. HeadRevision /\ last \in 0 .. MaxId
      /\ Rows(set, last) /\ Numbered(set)
      /\ v >= 3 => Full(set)
      /\ v = HeadRevision => Unique(set)
<1>1. In(version, receipts, issued)
  BY IInvInWords
<1>2. SUFFICES In(version', receipts', issued')
  BY DEF IInv, TypeOK, HeadMeetsTheRule, NumbersInv, Rows, Numbered, Full, HeadRevision
<1>3. CASE Upgrade
  <2>1. /\ version' = HeadRevision /\ receipts' = Upgraded(version, receipts)
        /\ issued' = issued /\ Unique(receipts')
    BY <1>3 DEF Upgrade, Accepts
  <2>2. Rows(receipts', issued') /\ Numbered(receipts') /\ Full(receipts')
    BY <1>3, <2>1, UpgradeKeeps DEF Upgrade
  <2>. QED  BY <1>1, <2>1, <2>2 DEF HeadRevision
<1>4. CASE UpgradeOne
  <2>1. /\ version < HeadRevision /\ version' = version + 1 /\ issued' = issued
        /\ receipts' = IF version = 2 THEN Fill(receipts) ELSE receipts
        /\ version = 3 => Unique(receipts)
    BY <1>4 DEF UpgradeOne, Accepts
  <2>2. version' \in 0 .. HeadRevision
    BY <1>1, <2>1 DEF HeadRevision
  <2>3. CASE version = 2
    <3>1. Rows(receipts', issued) /\ Numbered(receipts') /\ Full(receipts')
      BY <1>1, <2>1, <2>3, FillKeeps
    <3>2. version' # HeadRevision
      BY <2>1, <2>3 DEF HeadRevision
    <3>. QED  BY <1>1, <2>1, <2>2, <3>1, <3>2
  <2>4. CASE version # 2
    <3>1. receipts' = receipts
      BY <2>1, <2>4
    <3>2. version' >= 3 => version >= 3
      BY <1>1, <2>1, <2>4 DEF HeadRevision
    <3>3. version' = HeadRevision => version = 3
      BY <1>1, <2>1 DEF HeadRevision
    <3>. QED  BY <1>1, <2>1, <2>2, <3>1, <3>2, <3>3
  <2>. QED  BY <2>3, <2>4
<1>5. CASE Downgrade
  <2>1. /\ version \in 1 .. HeadRevision /\ version' = version - 1
        /\ issued' = IF version = 1 THEN 0 ELSE issued
    BY <1>1, <1>5 DEF Downgrade, HeadRevision
  <2>2. /\ version' \in 0 .. HeadRevision /\ version' # HeadRevision
        /\ version' >= 3 => version = 4
    BY <2>1 DEF HeadRevision
  <2>3. CASE version = 4
    <3>1. receipts' = receipts /\ issued' = issued
      BY <1>5, <2>1, <2>3 DEF Downgrade
    <3>. QED  BY <1>1, <2>2, <2>3, <3>1
  <2>4. CASE version = 3
    <3>1. receipts' = Emptied(receipts) /\ issued' = issued
      BY <1>5, <2>1, <2>4 DEF Downgrade
    <3>2. Full(receipts)
      BY <1>1, <2>4
    <3>3. Rows(receipts', issued) /\ Numbered(receipts')
      BY <1>1, <3>1, <3>2, EmptyKeeps
    <3>. QED  BY <1>1, <2>2, <2>4, <3>1, <3>3
  <2>5. CASE version = 2
    <3>1. receipts' = Bare(receipts) /\ issued' = issued
      BY <1>5, <2>1, <2>5 DEF Downgrade, Bare, Dropped
    <3>2. Rows(receipts', issued) /\ Numbered(receipts')
      BY <1>1, <3>1, DropKeeps
    <3>. QED  BY <1>1, <2>2, <2>5, <3>1, <3>2
  <2>6. CASE version = 1
    <3>1. receipts' = {} /\ issued' = 0
      BY <1>5, <2>1, <2>6 DEF Downgrade
    <3>2. Rows(receipts', issued') /\ Numbered(receipts')
      BY <3>1 DEF Rows, Numbered
    <3>3. issued' \in 0 .. MaxId
      BY <3>1, MaxIdAssumption
    <3>. QED  BY <2>2, <2>6, <3>2, <3>3
  <2>. QED  BY <2>1, <2>3, <2>4, <2>5, <2>6 DEF HeadRevision
<1>6. ASSUME NEW number \in Number \cup {None}, Enter(number)
      PROVE  In(version', receipts', issued')
  <2>1. /\ version \in 1 .. HeadRevision /\ issued < MaxId
        /\ (version = 1) = (number = None)
        /\ issued' = issued + 1 /\ version' = version
    BY <1>6 DEF Enter
  <2>2. PICK s \in Supplier :
          /\ number # None =>
               \A r \in receipts : ~(r.supplier = s /\ r.invoice = number)
          /\ receipts' = receipts \cup
               {[id |-> issued + 1, supplier |-> s, invoice |-> number,
                 entered |-> number]}
    BY <1>6 DEF Enter
  <2> DEFINE x == [id |-> issued + 1, supplier |-> s, invoice |-> number,
                   entered |-> number]
  <2>3. Rows(receipts', issued + 1) /\ Numbered(receipts')
    BY <1>1, <2>1, <2>2, OneMore
  <2>4. issued + 1 \in 0 .. MaxId
    BY <1>1, <2>1, MaxIdAssumption
  <2>5. x.supplier = s /\ x.invoice = number /\ receipts' = receipts \cup {x}
    BY <2>2
  <2>6. version >= 3 => Full(receipts')
    BY <1>1, <2>1, <2>5 DEF Full
  <2>7. version = HeadRevision => Unique(receipts')
    <3> SUFFICES ASSUME version = HeadRevision PROVE Unique(receipts')
      OBVIOUS
    <3>1. number # None /\ Unique(receipts)
      BY <1>1, <2>1 DEF HeadRevision
    <3>2. \A r \in receipts : ~(r.supplier = s /\ r.invoice = number)
      BY <2>2, <3>1
    <3> HIDE DEF x
    <3>. QED  BY <2>5, <3>1, <3>2 DEF Unique
  <2>. QED  BY <1>1, <2>1, <2>3, <2>4, <2>6, <2>7
<1>7. ASSUME NEW number \in Number \cup {None}, EnterTwice(number)
      PROVE  In(version', receipts', issued')
  <2>1. /\ version \in {2, 3} /\ issued + 1 < MaxId /\ number # None
        /\ issued' = issued + 2 /\ version' = version
    BY <1>7 DEF EnterTwice
  <2>2. PICK s \in Supplier :
          receipts' = receipts \cup
            {[id |-> issued + i, supplier |-> s, invoice |-> number,
              entered |-> number] : i \in {1, 2}}
    BY <1>7 DEF EnterTwice
  <2> DEFINE x == [id |-> issued + 1, supplier |-> s, invoice |-> number,
                   entered |-> number]
             y == [id |-> (issued + 1) + 1, supplier |-> s,
                   invoice |-> number, entered |-> number]
  <2>3. /\ issued < MaxId /\ issued + 1 \in 0 .. MaxId
        /\ issued + 2 \in 0 .. MaxId /\ (issued + 1) + 1 = issued + 2
    BY <1>1, <2>1, MaxIdAssumption
  <2>4. receipts' = (receipts \cup {x}) \cup {y}
    BY <2>2, <2>3
  <2>5. x.invoice = number /\ y.invoice = number
    OBVIOUS
  <2>6. Rows(receipts \cup {x}, issued + 1) /\ Numbered(receipts \cup {x})
    BY <1>1, <2>3, OneMore
  <2>7. Rows(receipts', (issued + 1) + 1) /\ Numbered(receipts')
    <3> HIDE DEF x
    <3>. QED  BY <2>1, <2>3, <2>4, <2>6, OneMore
  <2>8. version >= 3 => Full(receipts')
    <3> HIDE DEF x, y
    <3>. QED  BY <1>1, <2>1, <2>4, <2>5 DEF Full
  <2>9. version \in 0 .. HeadRevision /\ version # HeadRevision
    BY <2>1 DEF HeadRevision
  <2> HIDE DEF x, y
  <2>. QED  BY <2>1, <2>3, <2>7, <2>8, <2>9
<1>8. ASSUME NEW r \in receipts, DeleteReceipt(r)
      PROVE  In(version', receipts', issued')
  <2>1. /\ receipts' \in SUBSET receipts
        /\ version' = version /\ issued' = issued
    BY <1>8 DEF DeleteReceipt
  <2>. QED  BY <1>1, <2>1, Fewer
<1>9. CASE UNCHANGED vars
  BY <1>1, <1>9 DEF vars
<1>. QED  BY <1>3, <1>4, <1>5, <1>6, <1>7, <1>8, <1>9 DEF Next

(* The inductive invariant of the migrations.                               *)
THEOREM MigrationsInductive == AllSpec => []IInv
<1>1. AllInit => IInv
  BY InitIInv DEF AllInit
<1>2. IInv /\ [AllNext]_allVars => IInv'
  BY AllStep, NextIInv
<1>. QED  BY <1>1, <1>2, PTL DEF AllSpec

(* docs/DATA_MODEL.md: the number a user entered is its receipt's number    *)
(* again after any steps down and up that keep the column.                  *)
THEOREM NumbersComeBack == AllSpec => []EnteredNumbersComeBack
<1>1. IInv => EnteredNumbersComeBack
  BY DEF IInv, NumbersInv, EnteredNumbersComeBack
<1>. QED  BY <1>1, MigrationsInductive, PTL

-----------------------------------------------------------------------------
(* What a file may hold: a state committed by now, or part of one.          *)
Content == (0 .. latest) \cup {B!Partial}

Contents(set) == \A f \in DOMAIN set : set[f] \in Content

(* The inductive invariant.  A restoration loads a file, a file is written  *)
(* from a snapshot, a snapshot is of the database: none is of the future.   *)
WholeInv ==
  /\ latest \in 0 .. MaxVersion /\ db \in 0 .. latest
  /\ Contents(files)
  /\ pc = [p \in Process |-> pc[p]] /\ snap = [p \in Process |-> snap[p]]
  /\ \A p \in Process : pc[p] = "dumping" => snap[p] \in 0 .. latest

(* A file written with such a content, or removed, leaves the others.       *)
LEMMA WithFileHolds ==
  ASSUME NEW f, NEW v \in Content, Contents(files)
  PROVE  Contents(B!WithFile(f, v))
<1>1. /\ DOMAIN B!WithFile(f, v) = DOMAIN files \cup {f}
      /\ \A g \in DOMAIN files \cup {f} :
           B!WithFile(f, v)[g] = IF g = f THEN v ELSE files[g]
  BY DEF B!WithFile
<1>. QED  BY <1>1 DEF Contents

LEMMA WithoutHolds ==
  ASSUME NEW f, Contents(files)
  PROVE  Contents(B!Without(f))
<1>1. /\ DOMAIN B!Without(f) = DOMAIN files \ {f}
      /\ \A g \in DOMAIN files \ {f} : B!Without(f)[g] = files[g]
  BY DEF B!Without
<1>. QED  BY <1>1 DEF Contents

(* A run that stops leaves the others where they are.                       *)
LEMMA StopMoves ==
  ASSUME NEW p \in Process, NEW s, B!Stop(p, s), WholeInv
  PROVE  /\ pc' = [q \in Process |-> pc'[q]] /\ snap' = [q \in Process |-> snap'[q]]
         /\ pc'[p] = s
         /\ \A q \in Process \ {p} : pc'[q] = pc[q] /\ snap'[q] = snap[q]
<1>1. pc' = [pc EXCEPT ![p] = s] /\ snap' = [snap EXCEPT ![p] = None]
  BY DEF B!Stop
<1>2. pc = [q \in Process |-> pc[q]] /\ snap = [q \in Process |-> snap[q]]
  BY DEF WholeInv
<1>. QED  BY <1>1, <1>2

LEMMA InitWhole ==
  ASSUME B!BoundsAssumption
  PROVE  B!Init => WholeInv
<1> SUFFICES ASSUME B!Init PROVE WholeInv
  OBVIOUS
<1>1. /\ db = 0 /\ latest = 0 /\ files = [f \in {} |-> 0]
      /\ pc = [p \in Process |-> "idle"] /\ snap = [p \in Process |-> None]
  BY DEF B!Init
<1>2. Contents(files)
  BY <1>1 DEF Contents
<1>3. latest \in 0 .. MaxVersion /\ db \in 0 .. latest
  BY <1>1 DEF B!BoundsAssumption
<1>. QED  BY <1>1, <1>2, <1>3 DEF WholeInv

(* What a step keeps, and what it may do to the database.                   *)
LEMMA NextWhole ==
  ASSUME B!BoundsAssumption
  PROVE  WholeInv /\ [B!Next]_B!vars => WholeInv' /\ B!LoadsWhole
<1> SUFFICES ASSUME WholeInv, [B!Next]_B!vars PROVE WholeInv' /\ B!LoadsWhole
  OBVIOUS
<1>0. /\ MaxVersion \in Nat /\ latest \in 0 .. MaxVersion /\ db \in 0 .. latest
      /\ Contents(files)
      /\ pc = [p \in Process |-> pc[p]] /\ snap = [p \in Process |-> snap[p]]
      /\ \A p \in Process : pc[p] = "dumping" => snap[p] \in 0 .. latest
  BY DEF WholeInv, B!BoundsAssumption
<1>1. CASE B!Commit
  <2>1. /\ latest' = latest + 1 /\ db' = latest + 1 /\ latest < MaxVersion
        /\ UNCHANGED <<files, pc, snap>>
    BY <1>1 DEF B!Commit, B!process
  <2>2. latest' \in 0 .. MaxVersion /\ db' \in 0 .. latest'
    BY <1>0, <2>1
  <2>3. 0 .. latest \subseteq 0 .. latest'
    BY <1>0, <2>1
  <2>4. Contents(files)'
    BY <1>0, <2>1, <2>3 DEF Contents, Content, B!Partial
  <2>. QED  BY <1>0, <2>1, <2>2, <2>3, <2>4 DEF WholeInv, B!LoadsWhole
<1>2. CASE B!Tick
  BY <1>0, <1>2 DEF B!Tick, B!process, WholeInv, B!LoadsWhole, Contents, Content, B!Partial
<1>3. ASSUME NEW p \in Process, NEW prefix, NEW w, NEW file, B!Name(p, prefix, w, file)
      PROVE  WholeInv' /\ B!LoadsWhole
  <2>1. /\ pc' = [pc EXCEPT ![p] = "named"]
        /\ UNCHANGED <<db, latest, files, snap>>
    BY <1>3 DEF B!Name
  <2>2. /\ pc' = [q \in Process |-> pc'[q]] /\ pc'[p] = "named"
        /\ \A q \in Process \ {p} : pc'[q] = pc[q]
    BY <1>0, <2>1
  <2>. QED  BY <1>0, <2>1, <2>2 DEF WholeInv, B!LoadsWhole, Contents, Content, B!Partial
<1>4. ASSUME NEW p \in Process, B!Open(p)
      PROVE  WholeInv' /\ B!LoadsWhole
  <2>1. /\ pc' = [pc EXCEPT ![p] = "dumping"] /\ snap' = [snap EXCEPT ![p] = db]
        /\ files' = files \/ files' = B!WithFile(path[p], B!Partial)
        /\ UNCHANGED <<db, latest>>
    BY <1>4 DEF B!Open
  <2>2. /\ pc' = [q \in Process |-> pc'[q]] /\ pc'[p] = "dumping"
        /\ snap' = [q \in Process |-> snap'[q]] /\ snap'[p] = db
        /\ \A q \in Process \ {p} : pc'[q] = pc[q] /\ snap'[q] = snap[q]
    BY <1>0, <2>1
  <2>3. Contents(files')
    BY <1>0, <2>1, WithFileHolds DEF Content
  <2>4. Contents(files)'
    BY <2>1, <2>3 DEF Contents, Content, B!Partial
  <2>. QED  BY <1>0, <2>1, <2>2, <2>4 DEF WholeInv, B!LoadsWhole
<1>5. ASSUME NEW p \in Process, B!Finish(p)
      PROVE  WholeInv' /\ B!LoadsWhole
  <2>1. /\ pc[p] = "dumping" /\ pc' = [pc EXCEPT ![p] = "dumped"]
        /\ \/ files' = B!WithFile(path[p], snap[p])
           \/ files' = B!WithFile(path[p], B!Partial)
           \/ files' = files
        /\ UNCHANGED <<db, latest, snap>>
    BY <1>5 DEF B!Finish
  <2>2. /\ pc' = [q \in Process |-> pc'[q]] /\ pc'[p] = "dumped"
        /\ \A q \in Process \ {p} : pc'[q] = pc[q]
    BY <1>0, <2>1
  <2>3. snap[p] \in Content /\ B!Partial \in Content
    BY <1>0, <2>1 DEF Content
  <2>4. Contents(files')
    BY <1>0, <2>1, <2>3, WithFileHolds
  <2>5. Contents(files)'
    BY <2>1, <2>4 DEF Contents, Content, B!Partial
  <2>. QED  BY <1>0, <2>1, <2>2, <2>5 DEF WholeInv, B!LoadsWhole
<1>6. ASSUME NEW p \in Process, B!Check(p)
      PROVE  WholeInv' /\ B!LoadsWhole
  <2>1. UNCHANGED <<db, latest, files>>
    BY <1>6 DEF B!Check
  <2>2. Contents(files)'
    BY <1>0, <2>1 DEF Contents, Content, B!Partial
  <2>3. CASE B!Restoring(p)
    <3>1. pc' = [pc EXCEPT ![p] = "loading"] /\ snap' = snap
      BY <1>6, <2>3 DEF B!Check
    <3>2. /\ pc' = [q \in Process |-> pc'[q]] /\ pc'[p] = "loading"
          /\ \A q \in Process \ {p} : pc'[q] = pc[q]
      BY <1>0, <3>1
    <3>. QED  BY <1>0, <2>1, <2>2, <3>1, <3>2 DEF WholeInv, B!LoadsWhole
  <2>4. CASE ~B!Restoring(p)
    <3>1. B!Stop(p, "idle")
      BY <1>6, <2>4 DEF B!Check
    <3>. QED  BY <1>0, <2>1, <2>2, <3>1, StopMoves DEF WholeInv, B!LoadsWhole
  <2>. QED  BY <2>3, <2>4
<1>7. ASSUME NEW p \in Process, B!Fail(p)
      PROVE  WholeInv' /\ B!LoadsWhole
  <2>1. /\ B!Stop(p, "failed") /\ UNCHANGED <<db, latest>>
        /\ files' = files \/ files' = B!Without(path[p])
    BY <1>7 DEF B!Fail
  <2>2. Contents(files')
    BY <1>0, <2>1, WithoutHolds
  <2>3. Contents(files)'
    BY <2>1, <2>2 DEF Contents, Content, B!Partial
  <2>. QED  BY <1>0, <2>1, <2>3, StopMoves DEF WholeInv, B!LoadsWhole
<1>8. ASSUME NEW p \in Process, B!Load(p)
      PROVE  WholeInv' /\ B!LoadsWhole
  <2>1. UNCHANGED <<latest, files>>
    BY <1>8 DEF B!Load
  <2>2. Contents(files)'
    BY <1>0, <2>1 DEF Contents, Content, B!Partial
  <2>3. CASE /\ B!Exists(source[p]) /\ files[source[p]] # B!Partial
             /\ db' = files[source[p]] /\ B!Stop(p, "restored")
    <3>1. db' \in 0 .. latest
      BY <1>0, <2>3 DEF B!Exists, Contents, Content
    <3>. QED  BY <1>0, <2>1, <2>2, <2>3, <3>1, StopMoves DEF WholeInv, B!LoadsWhole
  <2>4. CASE db' = db /\ B!Stop(p, "failed")
    BY <1>0, <2>1, <2>2, <2>4, StopMoves DEF WholeInv, B!LoadsWhole
  <2>. QED  BY <1>8, <2>3, <2>4 DEF B!Load
<1>9. ASSUME NEW p \in Process, B!Kill(p)
      PROVE  WholeInv' /\ B!LoadsWhole
  <2>1. B!Stop(p, "failed") /\ UNCHANGED <<db, latest, files>>
    BY <1>9 DEF B!Kill
  <2>2. Contents(files)'
    BY <1>0, <2>1 DEF Contents, Content, B!Partial
  <2>. QED  BY <1>0, <2>1, <2>2, StopMoves DEF WholeInv, B!LoadsWhole
<1>10. CASE UNCHANGED B!vars
  BY <1>0, <1>10 DEF B!vars, B!process, WholeInv, B!LoadsWhole, Contents, Content, B!Partial
<1>. QED  BY <1>1, <1>2, <1>3, <1>4, <1>5, <1>6, <1>7, <1>8, <1>9, <1>10
          DEF B!Next, B!Backup, B!Restore, B!RestoreLast

(* README.md: a restoration that fails leaves the database as it was, and   *)
(* one that succeeds leaves a state that the application once committed.    *)
THEOREM RestorationIsWhole == AllSpec => OnlyWholeStates
<1>1. AllInit => WholeInv
  BY InitWhole, ProgramsAssumption DEF AllInit
<1>2. WholeInv /\ [AllNext]_allVars => WholeInv' /\ [B!LoadsWhole]_allVars
  BY AllStep, NextWhole, ProgramsAssumption
<1>. QED  BY <1>1, <1>2, PTL DEF AllSpec, OnlyWholeStates

-----------------------------------------------------------------------------
(* What a run may rely on while it is the only one: the name dbadmin took   *)
(* is nobody else's copy, a copy is whole once it is dumped and of the      *)
(* moment its pg_dump began, and the database is as it was then unless the  *)
(* application has committed.                                               *)
Fresh(p) == db = snap[p] \/ (p \in missed /\ db = latest)

Held(p) ==
  ~B!Idle(p) =>
    /\ pc[p] \in {"named", "dumping", "dumped", "loading"}
    /\ path[p] \in B!FileName
    /\ alone = {"dbadmin"} => \A i \in DOMAIN made : made[i][1] # path[p]
    /\ pc[p] # "named" => snap[p] \in B!Version /\ Fresh(p)
    /\ pc[p] = "dumping" => way[p] = "dbctl" \/ B!Exists(path[p])
    /\ pc[p] \in {"dumped", "loading"} =>
         B!Exists(path[p]) /\ files[path[p]] = snap[p]

OfEach == \A v \in {pc, way, source, path, snap} : v = [p \in Process |-> v[p]]

CopyKinds ==
  /\ clock \in 0 .. MaxSecond /\ made \in Seq(B!FileName \X B!Version)
  /\ OfEach

(* The inductive invariant of runs one after another.                       *)
AloneInv ==
  alone # {} => OneByOne /\ CopyKinds /\ CopiesStay /\ \A p \in Process : Held(p)

-----------------------------------------------------------------------------
(* create_backup: the name is free; that of dbctl.sh may be taken.          *)
LEMMA NewNameIsFree ==
  ASSUME NEW prefix \in B!Prefix, NEW w, clock \in 0 .. MaxSecond, B!Room(prefix)
  PROVE  /\ B!NewName(prefix, w) \in B!FileName
         /\ w = "dbadmin" => B!NewName(prefix, w) \notin DOMAIN files
<1> DEFINE free == {n \in 0 .. MaxNumber : ~B!Exists(<<prefix, clock, n>>)}
<1>1. MaxNumber \in free /\ free \subseteq Nat
  BY ProgramsAssumption DEF B!BoundsAssumption, B!Room
<1>2. \E n \in free : \A m \in free : ~(<<m, n>> \in OpToRel(<, Nat))
  BY <1>1, WFMin, NatLessThanWellFounded
<1> HIDE DEF free
<1>3. \E n \in free : \A m \in free : n <= m
  <2>1. PICK n \in free : \A m \in free : ~(<<m, n>> \in OpToRel(<, Nat))
    BY <1>2
  <2>2. \A m \in free : ~(m < n)
    BY <1>1, <2>1 DEF OpToRel
  <2>3. \A m \in free : m \in Nat
    BY <1>1
  <2>. QED  BY <2>2, <2>3
<1> DEFINE n == CHOOSE n \in free : \A m \in free : n <= m
<1>4. n \in free
  BY <1>3
<1>5. B!NewName(prefix, w) = IF w = "dbctl" THEN <<prefix, clock, 0>>
                             ELSE <<prefix, clock, n>>
  BY DEF B!NewName, free
<1> HIDE DEF n
<1>6. n \in 0 .. MaxNumber /\ 0 \in 0 .. MaxNumber /\ <<prefix, clock, n>> \notin DOMAIN files
  BY <1>4, ProgramsAssumption DEF free, B!Exists, B!BoundsAssumption
<1>. QED  BY <1>5, <1>6 DEF B!FileName

(* Writing or removing a file that is nobody's copy leaves the copies.      *)
LEMMA CopiesKept ==
  ASSUME B!CopiesStay, made' = made, NEW f, \A i \in DOMAIN made : made[i][1] # f,
         files' = B!Without(f) \/ \E v : files' = B!WithFile(f, v)
  PROVE  B!CopiesStay'
<1>1. CASE files' = B!Without(f)
  BY <1>1 DEF B!CopiesStay, B!Exists, B!Without
<1>2. CASE \E v : files' = B!WithFile(f, v)
  BY <1>2 DEF B!CopiesStay, B!Exists, B!WithFile
<1>. QED  BY <1>1, <1>2

(* A run that stops leaves nobody running.                                  *)
LEMMA NobodyLeft ==
  ASSUME NEW p \in Process, NEW s \in {"idle", "failed", "restored"}, B!Stop(p, s),
         CopyKinds, OneByOne, ~B!Idle(p)
  PROVE  /\ OfEach'
         /\ \A q \in Process : B!Idle(q)' /\ Held(q)'
<1>1. /\ pc' = [pc EXCEPT ![p] = s] /\ way' = [way EXCEPT ![p] = None]
      /\ source' = [source EXCEPT ![p] = None] /\ path' = [path EXCEPT ![p] = None]
      /\ snap' = [snap EXCEPT ![p] = None]
  BY DEF B!Stop
<1>2. \A q \in Process \ {p} : B!Idle(q)
  BY DEF OneByOne
<1>3. \A q \in Process : B!Idle(q)'
  BY <1>1, <1>2 DEF B!Idle, CopyKinds, OfEach
<1>. QED  BY <1>1, <1>3 DEF CopyKinds, OfEach, Held

(* Of a run alone nobody else's state matters.                              *)
LEMMA OnlyOne ==
  ASSUME OneByOne', NEW p \in Process, ~B!Idle(p)', Held(p)'
  PROVE  \A q \in Process : Held(q)'
BY DEF OneByOne, Held, B!Idle

LEMMA NameAlone ==
  ASSUME NEW p \in Process, NEW prefix \in B!Prefix, NEW w, NEW file,
         B!Name(p, prefix, w, file), OneByOne', alone' = alone,
         CopyKinds, CopiesStay, \A q \in Process : Held(q)
  PROVE  CopyKinds' /\ CopiesStay' /\ \A q \in Process : Held(q)'
<1>1. /\ pc' = [pc EXCEPT ![p] = "named"] /\ way' = [way EXCEPT ![p] = w]
      /\ source' = [source EXCEPT ![p] = file]
      /\ path' = [path EXCEPT ![p] = B!NewName(prefix, w)]
      /\ UNCHANGED <<db, latest, clock, running, files, made, snap>>
      /\ B!Room(prefix)
  BY DEF B!Name
<1>2. pc'[p] = "named" /\ way'[p] = w /\ path'[p] = B!NewName(prefix, w)
  BY <1>1 DEF CopyKinds, OfEach
<1>3. ~B!Idle(p)' /\ w \in alone
  BY <1>2 DEF OneByOne, B!Idle
<1>4. /\ path'[p] \in B!FileName
      /\ alone = {"dbadmin"} => path'[p] \notin DOMAIN files
  BY <1>1, <1>2, <1>3, NewNameIsFree DEF CopyKinds, OfEach
<1>5. alone = {"dbadmin"} => \A i \in DOMAIN made' : made'[i][1] # path'[p]
  BY <1>1, <1>4 DEF CopiesStay, B!CopiesStay, B!Exists
<1>6. Held(p)'
  BY <1>2, <1>4, <1>5 DEF Held
<1>7. CopyKinds'
  BY <1>1 DEF CopyKinds, OfEach
<1>8. CopiesStay'
  BY <1>1 DEF CopiesStay, B!CopiesStay, B!Exists
<1>. QED  BY <1>3, <1>6, <1>7, <1>8, OnlyOne

-----------------------------------------------------------------------------
LEMMA InitAlone == B!Init => AloneInv
<1> SUFFICES ASSUME B!Init PROVE AloneInv
  OBVIOUS
<1>1. \A p \in Process : B!Idle(p)
  BY DEF B!Init, B!Idle
<1>2. CopyKinds
  BY ProgramsAssumption DEF B!Init, CopyKinds, OfEach, B!BoundsAssumption
<1>3. B!CopiesStay
  BY DEF B!Init, B!CopiesStay
<1>. QED  BY <1>1, <1>2, <1>3 DEF AloneInv, OneByOne, Held, CopiesStay

LEMMA NextAlone ==
  ASSUME AloneInv, WholeInv, [B!Next /\ (alone # {} => OneByOne')]_B!vars, alone' = alone
  PROVE  AloneInv' /\ (alone # {} => B!SavesReplaced)
<1> SUFFICES ASSUME alone # {}
    PROVE  /\ OneByOne' /\ CopyKinds' /\ CopiesStay' /\ \A p \in Process : Held(p)'
           /\ B!SavesReplaced
  BY DEF AloneInv
<1> DEFINE Goal == CopyKinds' /\ CopiesStay' /\ (\A p \in Process : Held(p)')
                   /\ B!SavesReplaced
<1>1. OneByOne /\ CopyKinds /\ CopiesStay /\ \A p \in Process : Held(p)
  BY DEF AloneInv
<1>2. CASE UNCHANGED B!vars
  <2>1. UNCHANGED <<db, latest, clock, running, files, made, pc, way, source, path,
                    snap, missed, alone>>
    BY <1>2 DEF B!vars, B!process
  <2>2. OneByOne'
    BY <1>1, <2>1 DEF OneByOne, B!Idle
  <2>3. \A p \in Process : Held(p)'
    BY <1>1, <2>1 DEF Held, Fresh, B!Idle, B!Exists
  <2>4. CopyKinds' /\ CopiesStay' /\ B!SavesReplaced
    BY <1>1, <2>1 DEF CopyKinds, OfEach, CopiesStay, B!CopiesStay, B!Exists,
           B!SavesReplaced, B!Replaces
  <2>. QED  BY <2>2, <2>3, <2>4
<1>3. SUFFICES ASSUME B!Next, OneByOne' PROVE Goal
  BY <1>2
<1>4. CASE B!Commit
  <2>1. /\ latest' = latest + 1 /\ db' = latest + 1
        /\ missed' = missed \cup {p \in Process : pc[p] \in {"dumping", "dumped", "loading"}}
        /\ UNCHANGED <<clock, files, made, pc, way, source, path, snap>>
    BY <1>4 DEF B!Commit
  <2>2. \A p \in Process : pc[p] \in {"dumping", "dumped", "loading"} => Fresh(p)'
    BY <2>1 DEF Fresh
  <2>3. \A p \in Process : Held(p)'
    BY <1>1, <2>1, <2>2 DEF Held, B!Idle, B!Exists
  <2>4. CopyKinds' /\ CopiesStay' /\ B!SavesReplaced
    BY <1>1, <2>1 DEF CopyKinds, OfEach, CopiesStay, B!CopiesStay, B!Exists,
           B!SavesReplaced, B!Replaces
  <2>. QED  BY <2>3, <2>4
<1>5. CASE B!Tick
  <2>1. /\ clock < MaxSecond /\ clock' = clock + 1
        /\ UNCHANGED <<db, latest, files, made, pc, way, source, path, snap, missed>>
    BY <1>5 DEF B!Tick, B!process
  <2>2. \A p \in Process : Held(p)'
    BY <1>1, <2>1 DEF Held, Fresh, B!Idle, B!Exists
  <2>3. clock' \in 0 .. MaxSecond
    BY <1>1, <2>1, ProgramsAssumption DEF CopyKinds, OfEach, B!BoundsAssumption
  <2>4. CopyKinds' /\ CopiesStay' /\ B!SavesReplaced
    BY <1>1, <2>1, <2>3 DEF CopyKinds, OfEach, CopiesStay, B!CopiesStay, B!Exists,
           B!SavesReplaced, B!Replaces
  <2>. QED  BY <2>2, <2>4
<1>6. ASSUME NEW p \in Process, B!Backup(p) \/ B!Restore(p) \/ B!RestoreLast(p)
      PROVE  Goal
  <2>1. PICK prefix \in B!Prefix : \E w, file : B!Name(p, prefix, w, file)
    BY <1>6 DEF B!Backup, B!Restore, B!RestoreLast, B!Prefix
  <2>2. CopyKinds' /\ CopiesStay' /\ \A q \in Process : Held(q)'
    BY <1>1, <1>3, <2>1, NameAlone
  <2>3. pc' = [pc EXCEPT ![p] = "named"]
    BY <2>1 DEF B!Name
  <2>4. B!SavesReplaced
    BY <1>1, <2>3 DEF CopyKinds, OfEach, B!SavesReplaced, B!Replaces
  <2>. QED  BY <2>2, <2>4
<1>7. ASSUME NEW p \in Process, B!Open(p)
      PROVE  Goal
  <2>1. /\ pc[p] = "named" /\ pc' = [pc EXCEPT ![p] = "dumping"]
        /\ snap' = [snap EXCEPT ![p] = db]
        /\ files' = IF way[p] = "dbctl" THEN files ELSE B!WithFile(path[p], B!Partial)
        /\ UNCHANGED <<db, latest, clock, made, way, source, path, missed>>
    BY <1>7 DEF B!Open
  <2>2. ~B!Idle(p) /\ pc'[p] = "dumping" /\ snap'[p] = db
    BY <1>1, <2>1 DEF CopyKinds, OfEach, B!Idle
  <2>3. Held(p) /\ db \in B!Version
    BY <1>1, ProgramsAssumption DEF WholeInv, B!Version, B!BoundsAssumption
  <2>4. way[p] = "dbctl" \/ B!Exists(path[p])'
    BY <2>1 DEF B!Exists, B!WithFile
  <2>5. Held(p)' /\ ~B!Idle(p)'
    BY <2>1, <2>2, <2>3, <2>4 DEF Held, Fresh, B!Idle
  <2>6. CopiesStay'
    <3>1. CASE files' = files
      BY <1>1, <2>1, <3>1 DEF CopiesStay, B!CopiesStay, B!Exists
    <3>2. CASE files' = B!WithFile(path[p], B!Partial)
      BY <1>1, <2>1, <2>2, <2>3, <3>2, CopiesKept DEF Held, CopiesStay
    <3>. QED  BY <2>1, <3>1, <3>2
  <2>7. CopyKinds' /\ B!SavesReplaced
    BY <1>1, <2>1 DEF CopyKinds, OfEach, B!SavesReplaced, B!Replaces
  <2>. QED  BY <1>3, <2>5, <2>6, <2>7, OnlyOne
<1>8. ASSUME NEW p \in Process, B!Finish(p)
      PROVE  Goal
  <2>1. /\ pc[p] = "dumping" /\ pc' = [pc EXCEPT ![p] = "dumped"]
        /\ UNCHANGED <<db, latest, clock, made, way, source, path, snap, missed>>
    BY <1>8 DEF B!Finish
  <2>2. ~B!Idle(p) /\ pc'[p] = "dumped"
    BY <1>1, <2>1 DEF CopyKinds, OfEach, B!Idle
  <2>3. \A q \in Process \ {p} : pc[q] # "dumping"
    BY <1>1, <2>2 DEF OneByOne, B!Idle
  <2>4. Held(p) /\ (way[p] = "dbctl" \/ B!Exists(path[p]))
    BY <1>1, <2>1, <2>2 DEF Held
  <2>5. files' = B!WithFile(path[p], snap[p])
    BY <1>8, <2>3, <2>4 DEF B!Finish
  <2>6. B!Exists(path[p])' /\ files'[path[p]] = snap[p]
    BY <2>1, <2>5 DEF B!Exists, B!WithFile
  <2>7. Held(p)' /\ ~B!Idle(p)'
    BY <2>1, <2>2, <2>4, <2>6 DEF Held, Fresh, B!Idle, B!Exists
  <2>8. CopiesStay'
    BY <1>1, <2>1, <2>2, <2>4, <2>5, CopiesKept DEF Held, CopiesStay
  <2>9. CopyKinds' /\ B!SavesReplaced
    BY <1>1, <2>1 DEF CopyKinds, OfEach, B!SavesReplaced, B!Replaces
  <2>. QED  BY <1>3, <2>7, <2>8, <2>9, OnlyOne
<1>9. ASSUME NEW p \in Process, B!Check(p)
      PROVE  Goal
  <2>1. /\ pc[p] = "dumped" /\ UNCHANGED <<db, latest, clock, files>>
    BY <1>9 DEF B!Check
  <2>2. /\ ~B!Idle(p) /\ B!Exists(path[p]) /\ files[path[p]] = snap[p]
        /\ path[p] \in B!FileName /\ snap[p] \in B!Version /\ Fresh(p)
        /\ alone = {"dbadmin"} => \A i \in DOMAIN made : made[i][1] # path[p]
    BY <1>1, <2>1 DEF Held, B!Idle
  <2>3. CASE B!Restoring(p)
    <3>1. /\ pc' = [pc EXCEPT ![p] = "loading"]
          /\ UNCHANGED <<made, way, source, path, snap, missed>>
      BY <1>9, <2>3 DEF B!Check
    <3>2. pc'[p] = "loading"
      BY <1>1, <3>1 DEF CopyKinds, OfEach
    <3>3. Held(p)' /\ ~B!Idle(p)'
      BY <2>1, <2>2, <3>1, <3>2 DEF Held, Fresh, B!Idle, B!Exists
    <3>4. CopyKinds' /\ B!SavesReplaced /\ CopiesStay'
      BY <1>1, <2>1, <3>1 DEF CopyKinds, OfEach, B!SavesReplaced, B!Replaces,
             CopiesStay, B!CopiesStay, B!Exists
    <3>. QED  BY <1>3, <3>3, <3>4, OnlyOne
  <2>4. CASE ~B!Restoring(p)
    <3> DEFINE copy == <<path[p], snap[p]>>
    <3>1. made' = Append(made, copy) /\ B!Stop(p, "idle")
      BY <1>9, <2>4 DEF B!Check
    <3>2. copy \in B!FileName \X B!Version
      BY <2>2
    <3>3. /\ made' \in Seq(B!FileName \X B!Version)
          /\ \A i \in DOMAIN made' : made'[i] = copy \/ (i \in DOMAIN made /\ made'[i] = made[i])
      BY <1>1, <3>1, <3>2 DEF CopyKinds, OfEach
    <3>4. CopiesStay'
      BY <1>1, <2>1, <2>2, <3>3 DEF CopiesStay, B!CopiesStay, B!Exists
    <3>5. CopyKinds' /\ \A q \in Process : B!Idle(q)' /\ Held(q)'
      BY <1>1, <2>1, <2>2, <3>1, <3>3, NobodyLeft DEF CopyKinds, OfEach
    <3>6. B!SavesReplaced
      BY <1>1, <2>1, <2>2, <3>1
         DEF B!SavesReplaced, B!Replaces, B!Stop, CopyKinds, OfEach
    <3>. QED  BY <3>4, <3>5, <3>6
  <2>. QED  BY <2>3, <2>4
<1>10. ASSUME NEW p \in Process, B!Fail(p)
       PROVE  Goal
  <2>1. /\ pc[p] \in {"dumping", "dumped"} /\ B!Stop(p, "failed")
        /\ files' = IF way[p] = "dbctl" THEN files ELSE B!Without(path[p])
        /\ UNCHANGED <<db, clock, made>>
    BY <1>10 DEF B!Fail
  <2>2. /\ ~B!Idle(p)
        /\ alone = {"dbadmin"} => \A i \in DOMAIN made : made[i][1] # path[p]
    BY <1>1, <2>1 DEF B!Idle, Held
  <2>3. CopiesStay'
    <3>1. CASE files' = files
      BY <1>1, <2>1, <3>1 DEF CopiesStay, B!CopiesStay, B!Exists
    <3>2. CASE files' = B!Without(path[p])
      BY <1>1, <2>1, <2>2, <3>2, CopiesKept DEF CopiesStay
    <3>. QED  BY <2>1, <3>1, <3>2
  <2>4. CopyKinds' /\ \A q \in Process : B!Idle(q)' /\ Held(q)'
    BY <1>1, <2>1, <2>2, NobodyLeft DEF CopyKinds, OfEach
  <2>5. B!SavesReplaced
    BY <1>1, <2>1 DEF B!SavesReplaced, B!Replaces, B!Stop, CopyKinds, OfEach
  <2>. QED  BY <2>3, <2>4, <2>5
<1>11. ASSUME NEW p \in Process, B!Load(p)
       PROVE  Goal
  <2>1. /\ pc[p] = "loading" /\ UNCHANGED <<clock, files, made>>
        /\ \E s \in {"restored", "failed"} : B!Stop(p, s)
    BY <1>11 DEF B!Load
  <2>2. ~B!Idle(p) /\ B!Exists(path[p]) /\ files[path[p]] = snap[p] /\ Fresh(p)
    BY <1>1, <2>1 DEF B!Idle, Held
  <2>3. CopiesStay'
    BY <1>1, <2>1 DEF CopiesStay, B!CopiesStay, B!Exists
  <2>4. CopyKinds' /\ \A q \in Process : B!Idle(q)' /\ Held(q)'
    BY <1>1, <2>1, <2>2, NobodyLeft DEF CopyKinds, OfEach
  <2>5. \A q \in Process \ {p} : pc[q] # "loading"
    BY <1>1, <2>2 DEF OneByOne, B!Idle
  <2>6. B!SavesReplaced
    BY <2>2, <2>5 DEF B!SavesReplaced, B!Replaces, Fresh
  <2>. QED  BY <2>3, <2>4, <2>6
<1>12. ASSUME NEW p \in Process, B!Kill(p)
       PROVE  Goal
  <2>1. /\ ~B!Idle(p) /\ B!Stop(p, "failed") /\ UNCHANGED <<db, clock, files, made>>
    BY <1>12 DEF B!Kill
  <2>2. CopiesStay'
    BY <1>1, <2>1 DEF CopiesStay, B!CopiesStay, B!Exists
  <2>3. CopyKinds' /\ \A q \in Process : B!Idle(q)' /\ Held(q)'
    BY <1>1, <2>1, NobodyLeft DEF CopyKinds, OfEach
  <2>4. B!SavesReplaced
    BY <1>1, <2>1 DEF B!SavesReplaced, B!Replaces, B!Stop, CopyKinds, OfEach
  <2>. QED  BY <2>2, <2>3, <2>4
<1>. QED  BY <1>3, <1>4, <1>5, <1>6, <1>7, <1>8, <1>9, <1>10, <1>11, <1>12 DEF B!Next

LEMMA CopiesInductive == AllSpec => [](WholeInv /\ AloneInv)
<1>1. AllInit => WholeInv /\ AloneInv
  BY InitWhole, InitAlone, ProgramsAssumption DEF AllInit
<1>2. WholeInv /\ AloneInv /\ [AllNext]_allVars => (WholeInv /\ AloneInv)'
  BY AllStep, NextWhole, NextAlone, ProgramsAssumption
<1>. QED  BY <1>1, <1>2, PTL DEF AllSpec

(* dbadmin.py: a copy reported to its user is there and holds what it was   *)
(* reported to hold, whatever runs of dbadmin come after it.                *)
THEOREM CopiesAreKept == AllSpec => []CopiesStay
<1>1. AloneInv => CopiesStay
  BY DEF AloneInv, CopiesStay
<1>. QED  BY <1>1, CopiesInductive, PTL

(* README.md:117-119: a restoration of dbadmin or dbctl.sh first saves the  *)
(* state of the database: the safety copy is whole and of the moment its    *)
(* pg_dump began, and a state replaced that it does not hold is one the     *)
(* application committed after that.                                        *)
THEOREM RestorationSaves == AllSpec => ReplacedStateIsSaved
<1>1. WholeInv /\ AloneInv /\ [AllNext]_allVars => [alone # {} => B!SavesReplaced]_allVars
  BY AllStep, NextAlone
<1>. QED  BY <1>1, CopiesInductive, PTL DEF AllSpec, ReplacedStateIsSaved

-----------------------------------------------------------------------------
(* The run of the guard for the request to merge b, and what came of it.    *)
Request(b) == started[b]["pull_request"]
Verdict(b) == result[b]["pull_request"]

Kinds ==
  /\ master \in G!Project /\ current \subseteq Branch
  /\ base \in [Branch -> G!Project] /\ head \in [Branch -> G!Project]
  /\ label \in [Branch -> BOOLEAN]
  /\ started = [b \in Branch |-> started[b]] /\ result = [b \in Branch |-> result[b]]
  /\ \A b \in Branch : DOMAIN started[b] = G!Event /\ DOMAIN result[b] = G!Event

(* Of a branch that is up to date and not merged yet: what is being checked *)
(* is what would be merged, under the label it has now.                     *)
IsFresh(b) ==
  b \in current /\ head[b] # master /\ Verdict(b) \in {"running", "passed"} =>
    Request(b) = [base |-> master, head |-> head[b], ok |-> label[b]]

WasPassed(b) ==
  Verdict(b) = "passed" => G!Passes(Request(b).base, Request(b).head, Request(b).ok)

(* The inductive invariant.  The guard's verdict is of a moment; it is good *)
(* for a merge because every step that changes what is merged or the label  *)
(* begins another run, and every step that moves master takes the others    *)
(* out of current.                                                          *)
FreshInv ==
  /\ Kinds
  /\ \A b \in current : base[b] = master
  /\ \A b \in Branch : IsFresh(b) /\ WasPassed(b)

-----------------------------------------------------------------------------
(* git: a branch up to date merges to itself.                               *)
LEMMA UpToDate ==
  ASSUME NEW x \in G!Project, NEW old \in G!Project
  PROVE  G!Merged(old, x, old) = x
<1>1. /\ G!Both(old.tests, x.tests, old.tests) = x.tests
      /\ G!Both(old.checks, x.checks, old.checks) = x.checks
      /\ G!Both(old.must, x.must, old.must) = x.must
      /\ G!Both(old.may, x.may, old.may) = x.may
  BY DEF G!Both
<1>2. /\ G!Either(old.floor, x.floor, old.floor) = x.floor
      /\ G!Either(old.threshold, x.threshold, old.threshold) = x.threshold
  BY DEF G!Either
<1>3. x = [tests |-> x.tests, checks |-> x.checks, must |-> x.must, may |-> x.may,
           floor |-> x.floor, threshold |-> x.threshold, broken |-> x.broken]
  BY DEF G!Project
<1>. QED  BY <1>1, <1>2, <1>3 DEF G!Merged

LEMMA MergedIsProject ==
  ASSUME NEW old \in G!Project, NEW x \in G!Project, NEW y \in G!Project
  PROVE  G!Merged(old, x, y) \in G!Project
<1>1. /\ G!Both(old.tests, x.tests, y.tests) \in SUBSET Tests
      /\ G!Both(old.checks, x.checks, y.checks) \in SUBSET Checks
      /\ G!Both(old.must, x.must, y.must) \in SUBSET Entries
      /\ G!Both(old.may, x.may, y.may) \in SUBSET Entries
  BY DEF G!Both, G!Project
<1>2. /\ G!Either(old.floor, x.floor, y.floor) \in Levels
      /\ G!Either(old.threshold, x.threshold, y.threshold) \in Levels
  BY DEF G!Either, G!Project
<1>3. x.broken \in BOOLEAN
  BY DEF G!Project
<1>. QED  BY <1>1, <1>2, <1>3 DEF G!Merged, G!Project

LEMMA ChangesAreProjects ==
  ASSUME NEW p \in G!Project, NEW new \in G!Changes(p)
  PROVE  new \in G!Project
<1>1. /\ p.tests \in SUBSET Tests /\ p.checks \in SUBSET Checks
      /\ p.must \in SUBSET Entries /\ p.may \in SUBSET Entries
      /\ p.floor \in Levels /\ p.threshold \in Levels /\ p.broken \in BOOLEAN
  BY DEF G!Project
<1>2. CASE \E t \in Tests : new = [p EXCEPT !.tests = @ \cup {t}]
  BY <1>1, <1>2 DEF G!Project
<1>3. CASE \E t \in Tests : new = [p EXCEPT !.tests = @ \ {t},
                                          !.checks = {c \in @ : c[1] # t}]
  <2>1. PICK t \in Tests : new = [p EXCEPT !.tests = @ \ {t},
                                          !.checks = {c \in @ : c[1] # t}]
    BY <1>3
  <2> DEFINE left == {c \in p.checks : c[1] # t}
  <2>2. left \in SUBSET Checks
    BY <1>1
  <2>3. new = [p EXCEPT !.tests = @ \ {t}, !.checks = left]
    BY <2>1
  <2> HIDE DEF left
  <2>. QED  BY <1>1, <2>2, <2>3 DEF G!Project
<1>4. CASE \E c \in Checks : \/ new = [p EXCEPT !.checks = @ \cup {c}]
                             \/ new = [p EXCEPT !.checks = @ \ {c}]
  BY <1>1, <1>4 DEF G!Project
<1>5. CASE \E n \in Entries : \/ new = [p EXCEPT !.must = @ \cup {n}]
                              \/ new = [p EXCEPT !.must = @ \ {n}]
  BY <1>1, <1>5 DEF G!Project
<1>6. CASE \E n \in Entries : \/ new = [p EXCEPT !.may = @ \cup {n}]
                              \/ new = [p EXCEPT !.may = @ \ {n}]
  BY <1>1, <1>6 DEF G!Project
<1>7. CASE \E n \in Levels : \/ new = [p EXCEPT !.floor = n]
                             \/ new = [p EXCEPT !.threshold = n]
  BY <1>1, <1>7 DEF G!Project
<1>8. CASE new = [p EXCEPT !.broken = ~@]
  BY <1>1, <1>8 DEF G!Project
<1>. QED  BY <1>2, <1>3, <1>4, <1>5, <1>6, <1>7, <1>8 DEF G!Changes

-----------------------------------------------------------------------------
(* A step that begins the run of b anew leaves b fresh, and the others as   *)
(* they were.                                                               *)
LEMMA BeganAnew ==
  ASSUME FreshInv, NEW b \in Branch, Kinds',
         master' = master, current' \subseteq current \cup {b},
         b \in current' => base'[b] = master,
         \A c \in Branch \ {b} : /\ head'[c] = head[c] /\ label'[c] = label[c]
                                 /\ started'[c] = started[c] /\ result'[c] = result[c],
         started'[b]["pull_request"] = G!OnRequest(b),
         result'[b]["pull_request"] = G!Runs(b)
  PROVE  \A c \in Branch : (IsFresh(c) /\ WasPassed(c))'
<1>1. ASSUME NEW c \in Branch, c # b
      PROVE  (IsFresh(c) /\ WasPassed(c))'
  <2>1. IsFresh(c) /\ WasPassed(c)
    BY DEF FreshInv
  <2>2. c \in current' => c \in current
    BY <1>1
  <2>. QED  BY <1>1, <2>1, <2>2 DEF IsFresh, WasPassed, Request, Verdict
<1>2. IsFresh(b)'
  <2> SUFFICES ASSUME b \in current'
      PROVE  G!OnRequest(b) = [base |-> master', head |-> head'[b], ok |-> label'[b]]
    BY DEF IsFresh, Request, Verdict
  <2>1. head'[b] \in G!Project /\ master \in G!Project
    BY DEF Kinds, FreshInv
  <2>2. G!Merged(base'[b], head'[b], master) = head'[b]
    BY <2>1, UpToDate
  <2>. QED  BY <2>2 DEF G!OnRequest
<1>3. WasPassed(b)'
  BY DEF WasPassed, Verdict, G!Runs
<1>. QED  BY <1>1, <1>2, <1>3

LEMMA PushedBegins ==
  ASSUME Kinds, NEW b \in Branch, G!Pushed(b)
  PROVE  /\ started'[b]["pull_request"] = G!OnRequest(b)
         /\ result'[b]["pull_request"] = G!Runs(b)
         /\ \A c \in Branch \ {b} : started'[c] = started[c] /\ result'[c] = result[c]
         /\ started' = [c \in Branch |-> started'[c]]
         /\ result' = [c \in Branch |-> result'[c]]
         /\ \A c \in Branch : DOMAIN started'[c] = G!Event /\ DOMAIN result'[c] = G!Event
<1> DEFINE s == [push |-> [base |-> G!MergeBase(b), head |-> head'[b], ok |-> FALSE],
                 pull_request |-> G!OnRequest(b)]
           r == [push |-> "running", pull_request |-> G!Runs(b)]
<1>1. started' = [started EXCEPT ![b] = s] /\ result' = [result EXCEPT ![b] = r]
  BY DEF G!Pushed
<1>2. /\ s["pull_request"] = G!OnRequest(b) /\ r["pull_request"] = G!Runs(b)
      /\ DOMAIN s = G!Event /\ DOMAIN r = G!Event
  BY DEF G!Event
<1> HIDE DEF s, r
<1>. QED  BY <1>1, <1>2 DEF Kinds

LEMMA LabelledBegins ==
  ASSUME Kinds, NEW b \in Branch, G!Labelled(b)
  PROVE  /\ started'[b]["pull_request"] = G!OnRequest(b)
         /\ result'[b]["pull_request"] = G!Runs(b)
         /\ \A c \in Branch \ {b} : started'[c] = started[c] /\ result'[c] = result[c]
         /\ started' = [c \in Branch |-> started'[c]]
         /\ result' = [c \in Branch |-> result'[c]]
         /\ \A c \in Branch : DOMAIN started'[c] = G!Event /\ DOMAIN result'[c] = G!Event
<1> DEFINE s == [started[b] EXCEPT !["pull_request"] = G!OnRequest(b)]
           r == [result[b] EXCEPT !["pull_request"] = G!Runs(b)]
<1>1. started' = [started EXCEPT ![b] = s] /\ result' = [result EXCEPT ![b] = r]
  BY DEF G!Labelled, G!Relabelled
<1>2. /\ s["pull_request"] = G!OnRequest(b) /\ r["pull_request"] = G!Runs(b)
      /\ DOMAIN s = G!Event /\ DOMAIN r = G!Event
  BY DEF G!Event, Kinds
<1> HIDE DEF s, r
<1>. QED  BY <1>1, <1>2 DEF Kinds

-----------------------------------------------------------------------------
LEMMA InitFresh ==
  ASSUME G!GuardAssumption
  PROVE  G!Init => FreshInv
<1> SUFFICES ASSUME G!Init PROVE FreshInv
  OBVIOUS
<1>1. Kinds
  BY DEF G!Init, Kinds, G!GuardAssumption
<1>2. \A b \in Branch : Verdict(b) = "none" /\ base[b] = master
  BY DEF G!Init, Verdict, G!Event
<1>. QED  BY <1>1, <1>2 DEF FreshInv, IsFresh, WasPassed, Kinds

LEMMA NextFresh == FreshInv /\ [G!Next]_G!vars => FreshInv' /\ G!NoWeakerStep
<1> SUFFICES ASSUME FreshInv, [G!Next]_G!vars PROVE FreshInv' /\ G!NoWeakerStep
  OBVIOUS
<1>0. Kinds
  BY DEF FreshInv
<1>1. ASSUME NEW b \in Branch, NEW new \in G!Changes(head[b]), G!Edit(b, new)
      PROVE  FreshInv' /\ G!NoWeakerStep
  <2>1. /\ head' = [head EXCEPT ![b] = new] /\ G!Pushed(b)
        /\ UNCHANGED <<master, current, base, label>>
    BY <1>1 DEF G!Edit
  <2>2. new \in G!Project
    BY <1>0, <1>1, ChangesAreProjects DEF Kinds
  <2>3. Kinds'
    BY <1>0, <2>1, <2>2, PushedBegins DEF Kinds
  <2>4. \A c \in Branch \ {b} : head'[c] = head[c]
    BY <1>0, <2>1 DEF Kinds
  <2>5. \A c \in Branch : (IsFresh(c) /\ WasPassed(c))'
    BY <1>0, <2>1, <2>3, <2>4, PushedBegins, BeganAnew DEF FreshInv
  <2>. QED  BY <2>1, <2>3, <2>5 DEF FreshInv, G!NoWeakerStep
<1>2. ASSUME NEW b \in Branch, G!Update(b)
      PROVE  FreshInv' /\ G!NoWeakerStep
  <2>1. /\ current' = current \cup {b} /\ base' = [base EXCEPT ![b] = master]
        /\ head' = [head EXCEPT ![b] = G!Merged(base[b], head[b], master)]
        /\ G!Pushed(b) /\ UNCHANGED <<master, label>>
    BY <1>2 DEF G!Update
  <2>2. G!Merged(base[b], head[b], master) \in G!Project
    BY <1>0, MergedIsProject DEF Kinds
  <2>3. Kinds'
    BY <1>0, <2>1, <2>2, PushedBegins DEF Kinds
  <2>4. /\ \A c \in Branch \ {b} : head'[c] = head[c] /\ base'[c] = base[c]
        /\ base'[b] = master
    BY <1>0, <2>1 DEF Kinds
  <2>5. \A c \in Branch : (IsFresh(c) /\ WasPassed(c))'
    BY <1>0, <2>1, <2>3, <2>4, PushedBegins, BeganAnew
  <2>6. \A c \in current' : base'[c] = master'
    BY <1>0, <2>1, <2>4 DEF FreshInv, Kinds
  <2>. QED  BY <2>1, <2>3, <2>5, <2>6 DEF FreshInv, G!NoWeakerStep
<1>3. ASSUME NEW b \in Branch, G!Label(b)
      PROVE  FreshInv' /\ G!NoWeakerStep
  <2>1. /\ label' = [label EXCEPT ![b] = ~@] /\ G!Labelled(b)
        /\ UNCHANGED <<master, current, base, head>>
    BY <1>3 DEF G!Label
  <2>2. label' \in [Branch -> BOOLEAN] /\ \A c \in Branch \ {b} : label'[c] = label[c]
    BY <1>0, <2>1 DEF Kinds
  <2>3. Kinds'
    BY <1>0, <2>1, <2>2, LabelledBegins DEF Kinds
  <2>4. \A c \in Branch : (IsFresh(c) /\ WasPassed(c))'
    BY <1>0, <2>1, <2>2, <2>3, LabelledBegins, BeganAnew DEF FreshInv
  <2>. QED  BY <2>1, <2>3, <2>4 DEF FreshInv, G!NoWeakerStep
<1>4. ASSUME NEW b \in Branch, NEW e \in G!Event, G!Guarded(b, e)
      PROVE  FreshInv' /\ G!NoWeakerStep
  <2> DEFINE v == IF G!Passes(started[b][e].base, started[b][e].head, started[b][e].ok)
                  THEN "passed" ELSE "failed"
             r == [result[b] EXCEPT ![e] = v]
  <2>1. /\ result' = [result EXCEPT ![b] = r] /\ result[b][e] = "running"
        /\ UNCHANGED <<master, current, base, head, label, started>>
    BY <1>4 DEF G!Guarded
  <2>2. /\ DOMAIN r = G!Event /\ r[e] = v
        /\ \A x \in G!Event \ {e} : r[x] = result[b][x]
    BY <1>0 DEF Kinds
  <2>3. v = "passed" => G!Passes(started[b][e].base, started[b][e].head, started[b][e].ok)
    OBVIOUS
  <2> HIDE DEF r, v
  <2>4. /\ result' = [c \in Branch |-> result'[c]] /\ result'[b] = r
        /\ \A c \in Branch \ {b} : result'[c] = result[c]
    BY <1>0, <2>1 DEF Kinds
  <2>5. Kinds'
    BY <1>0, <2>1, <2>2, <2>4 DEF Kinds
  <2>6. ASSUME NEW c \in Branch
        PROVE  (IsFresh(c) /\ WasPassed(c))'
    <3>1. IsFresh(c) /\ WasPassed(c)
      BY DEF FreshInv
    <3>2. CASE c = b /\ e = "pull_request"
      BY <2>1, <2>2, <2>3, <2>4, <3>1, <3>2 DEF IsFresh, WasPassed, Verdict, Request
    <3>3. CASE ~(c = b /\ e = "pull_request")
      <4>1. Verdict(c)' = Verdict(c)
        BY <2>2, <2>4, <3>3 DEF Verdict, G!Event
      <4>. QED  BY <2>1, <3>1, <4>1 DEF IsFresh, WasPassed, Request
    <3>. QED  BY <3>2, <3>3
  <2>. QED  BY <2>1, <2>5, <2>6 DEF FreshInv, G!NoWeakerStep
<1>5. ASSUME NEW b \in Branch, G!Merge(b)
      PROVE  FreshInv' /\ G!NoWeakerStep
  <2>1. /\ Verdict(b) = "passed" /\ b \in current /\ head[b] # master
        /\ master' = head[b] /\ current' = {b} /\ base' = [base EXCEPT ![b] = head[b]]
        /\ UNCHANGED <<head, label, started, result>>
    BY <1>5 DEF G!Merge, Verdict
  <2>2. Request(b) = [base |-> master, head |-> head[b], ok |-> label[b]]
    BY <2>1 DEF FreshInv, IsFresh
  <2>3. G!Passes(master, head[b], label[b])
    BY <2>1, <2>2 DEF FreshInv, WasPassed
  <2>4. G!NoWeakerStep
    BY <1>5, <2>1, <2>3 DEF G!NoWeakerStep, G!Passes
  <2>5. Kinds'
    BY <1>0, <2>1 DEF Kinds
  <2>6. \A c \in current' : base'[c] = master'
    BY <1>0, <2>1 DEF Kinds
  <2>7. \A c \in Branch : (IsFresh(c) /\ WasPassed(c))'
    BY <2>1 DEF FreshInv, IsFresh, WasPassed, Verdict, Request
  <2>. QED  BY <2>4, <2>5, <2>6, <2>7 DEF FreshInv
<1>6. CASE UNCHANGED G!vars
  BY <1>6 DEF G!vars, FreshInv, G!NoWeakerStep, Kinds, IsFresh, WasPassed, Verdict, Request
<1>. QED  BY <1>1, <1>2, <1>3, <1>4, <1>5, <1>6 DEF G!Next

(* ci_guard.py:15-18: the main branch never has fewer tests or checks,      *)
(* weaker rules or more exceptions than before, unless the request that     *)
(* brings the change has the label when it is merged; a rule of the current *)
(* state is never broken.                                                   *)
THEOREM MasterIsGuarded == AllSpec => MasterGrowsNoWeaker
<1>1. AllInit => FreshInv
  BY InitFresh, ProgramsAssumption DEF AllInit
<1>2. FreshInv /\ [AllNext]_allVars => FreshInv' /\ [G!NoWeakerStep]_allVars
  BY AllStep, NextFresh, ProgramsAssumption
<1>. QED  BY <1>1, <1>2, PTL DEF AllSpec, MasterGrowsNoWeaker

-----------------------------------------------------------------------------
(* A project that takes nothing of another away, and breaks no rule.        *)
Grows(old, new) ==
  /\ {old, new} \subseteq G!Project /\ ~new.broken
  /\ old.tests \subseteq new.tests /\ old.checks \subseteq new.checks
  /\ old.must \subseteq new.must /\ new.may \subseteq old.may
  /\ old.floor <= new.floor /\ old.threshold <= new.threshold

(* The inductive invariant.  A branch nobody made weaker takes nothing away *)
(* from the state of master it contains, and what the guard is run on is    *)
(* such a pair: it is compared with that state, and not with master's tip.  *)
GrowsInv ==
  /\ Kinds
  /\ \A b \in Branch \ weakened :
       /\ Grows(base[b], head[b])
       /\ \A e \in G!Event :
            /\ result[b][e] # "failed"
            /\ result[b][e] = "running" => Grows(started[b][e].base, started[b][e].head)

(* FiniteSets is one module, whoever takes it.                              *)
LEMMA GuardCounts ==
  /\ \A S : G!IsFiniteSet(S) <=> IsFiniteSet(S)
  /\ \A S : G!Cardinality(S) = Cardinality(S)
BY Zenon DEF G!IsFiniteSet, IsFiniteSet, G!Cardinality, Cardinality

LEMMA GrowsTypes ==
  ASSUME NEW old, NEW new, Grows(old, new)
  PROVE  /\ IsFiniteSet(old.checks) /\ IsFiniteSet(new.checks)
         /\ old.floor \in Int /\ old.threshold \in Int
         /\ new.floor \in Int /\ new.threshold \in Int
<1>1. /\ IsFiniteSet(Checks) /\ Levels \subseteq Int
      /\ old \in G!Project /\ new \in G!Project
  BY ProgramsAssumption, GuardCounts DEF G!GuardAssumption, Grows
<1>2. old.checks \subseteq Checks /\ new.checks \subseteq Checks
  BY <1>1 DEF G!Project
<1>3. IsFiniteSet(old.checks) /\ IsFiniteSet(new.checks)
  BY <1>1, <1>2, FS_Subset
<1>. QED  BY <1>1, <1>3 DEF G!Project

LEMMA GrowsIsStrong ==
  ASSUME NEW old, NEW new, NEW ok, Grows(old, new)
  PROVE  G!Passes(old, new, ok)
<1>1. /\ Cardinality(old.checks) <= Cardinality(new.checks)
      /\ Cardinality(old.checks) \in Nat /\ Cardinality(new.checks) \in Nat
  BY GrowsTypes, FS_Subset, FS_CardinalityType DEF Grows
<1>2. ~G!FewerTests(old, new)
  BY <1>1, GuardCounts DEF Grows, G!FewerTests
<1>3. ~G!LowerFloors(old, new)
  BY GrowsTypes DEF Grows, G!LowerFloors
<1>. QED  BY <1>2, <1>3 DEF Grows, G!Passes, G!IsWeaker, G!FewerRules, G!MoreExceptions

(* git: what takes nothing away takes nothing away of what it is merged     *)
(* with.                                                                    *)
LEMMA MergedGrows ==
  ASSUME NEW old, NEW x, NEW y \in G!Project, Grows(old, x), ~G!Conflict(old, x, y)
  PROVE  Grows(y, G!Merged(old, x, y))
<1> DEFINE m == G!Merged(old, x, y)
<1>1. m \in G!Project
  BY MergedIsProject DEF Grows
<1>2. /\ m.tests = G!Both(old.tests, x.tests, y.tests)
      /\ m.checks = G!Both(old.checks, x.checks, y.checks)
      /\ m.must = G!Both(old.must, x.must, y.must)
      /\ m.may = G!Both(old.may, x.may, y.may)
      /\ m.floor = G!Either(old.floor, x.floor, y.floor)
      /\ m.threshold = G!Either(old.threshold, x.threshold, y.threshold)
      /\ m.broken = x.broken
  BY DEF G!Merged
<1>3. /\ old.floor \in Int /\ x.floor \in Int /\ y.floor \in Int
      /\ old.threshold \in Int /\ x.threshold \in Int /\ y.threshold \in Int
  BY GrowsTypes, ProgramsAssumption DEF G!GuardAssumption, G!Project
<1> HIDE DEF m
<1>4. /\ y.tests \subseteq m.tests /\ y.checks \subseteq m.checks
      /\ y.must \subseteq m.must /\ m.may \subseteq y.may
  BY <1>2 DEF Grows, G!Both
<1>5. y.floor <= m.floor /\ y.threshold <= m.threshold
  BY <1>2, <1>3 DEF Grows, G!Conflict, G!Either
<1>. QED  BY <1>1, <1>2, <1>4, <1>5 DEF Grows, m

(* One change either adds checks or takes some away.                        *)
LEMMA ChangesOneWay ==
  ASSUME NEW p \in G!Project, NEW new \in G!Changes(p)
  PROVE  p.checks \subseteq new.checks \/ new.checks \subseteq p.checks
<1>1. p = [tests |-> p.tests, checks |-> p.checks, must |-> p.must, may |-> p.may,
           floor |-> p.floor, threshold |-> p.threshold, broken |-> p.broken]
  BY DEF G!Project
<1>2. CASE \E t \in Tests : new = [p EXCEPT !.tests = @ \ {t},
                                          !.checks = {c \in @ : c[1] # t}]
  <2>1. PICK t \in Tests : new = [p EXCEPT !.tests = @ \ {t},
                                          !.checks = {c \in @ : c[1] # t}]
    BY <1>2
  <2> DEFINE left == {c \in p.checks : c[1] # t}
  <2>2. left \subseteq p.checks
    OBVIOUS
  <2>3. new = [p EXCEPT !.tests = @ \ {t}, !.checks = left]
    BY <2>1
  <2> HIDE DEF left
  <2>. QED  BY <1>1, <2>2, <2>3
<1>3. CASE \E c \in Checks : \/ new = [p EXCEPT !.checks = @ \cup {c}]
                             \/ new = [p EXCEPT !.checks = @ \ {c}]
  BY <1>1, <1>3
<1>4. CASE new.checks = p.checks
  BY <1>4
<1>5. \/ \E t \in Tests : new = [p EXCEPT !.tests = @ \cup {t}]
      \/ \E n \in Entries : \/ new = [p EXCEPT !.must = @ \cup {n}]
                            \/ new = [p EXCEPT !.must = @ \ {n}]
      \/ \E n \in Entries : \/ new = [p EXCEPT !.may = @ \cup {n}]
                            \/ new = [p EXCEPT !.may = @ \ {n}]
      \/ \E n \in Levels : \/ new = [p EXCEPT !.floor = n]
                           \/ new = [p EXCEPT !.threshold = n]
      \/ new = [p EXCEPT !.broken = ~@]
      => new.checks = p.checks
  BY <1>1
<1>. QED  BY <1>2, <1>3, <1>4, <1>5 DEF G!Changes

(* A change that does not count as weaker takes nothing away.               *)
LEMMA EditGrows ==
  ASSUME NEW old, NEW p, NEW new \in G!Changes(p), Grows(old, p),
         ~G!IsWeaker(p, new), ~new.broken
  PROVE  Grows(old, new)
<1>1. p \in G!Project /\ new \in G!Project
  BY ChangesAreProjects DEF Grows
<1>2. /\ p.tests \subseteq new.tests /\ p.must \subseteq new.must /\ new.may \subseteq p.may
      /\ ~(new.floor < p.floor) /\ ~(new.threshold < p.threshold)
      /\ ~(Cardinality(new.checks) < Cardinality(p.checks))
  BY GuardCounts DEF G!IsWeaker, G!FewerTests, G!LowerFloors, G!FewerRules, G!MoreExceptions
<1>3. /\ IsFiniteSet(p.checks)
      /\ old.floor \in Int /\ p.floor \in Int /\ new.floor \in Int
      /\ old.threshold \in Int /\ p.threshold \in Int /\ new.threshold \in Int
  BY <1>1, GrowsTypes, ProgramsAssumption DEF G!GuardAssumption, G!Project
<1>4. p.checks \subseteq new.checks
  <2> SUFFICES ASSUME new.checks \subseteq p.checks, new.checks # p.checks PROVE FALSE
    BY <1>1, ChangesOneWay
  <2>1. /\ Cardinality(new.checks) <= Cardinality(p.checks)
        /\ Cardinality(new.checks) # Cardinality(p.checks)
        /\ Cardinality(new.checks) \in Nat /\ Cardinality(p.checks) \in Nat
    BY <1>3, FS_Subset, FS_CardinalityType
  <2>. QED  BY <1>2, <2>1
<1>5. old.floor <= new.floor /\ old.threshold <= new.threshold
  BY <1>2, <1>3 DEF Grows
<1>. QED  BY <1>1, <1>2, <1>4, <1>5 DEF Grows

-----------------------------------------------------------------------------
(* The runs a step of b begins are on such pairs too.                       *)
LEMMA RequestGrows ==
  ASSUME NEW b \in Branch, master \in G!Project, Grows(base'[b], head'[b]),
         G!Runs(b) = "running"
  PROVE  Grows(G!OnRequest(b).base, G!OnRequest(b).head)
<1>1. ~G!Conflict(base'[b], head'[b], master)
  BY DEF G!Runs
<1>2. Grows(master, G!Merged(base'[b], head'[b], master))
  BY <1>1, MergedGrows
<1>. QED  BY <1>2 DEF G!OnRequest

LEMMA PushedGrows ==
  ASSUME Kinds, NEW b \in Branch, G!Pushed(b), Grows(base'[b], head'[b])
  PROVE  \A e \in G!Event :
           /\ result'[b][e] # "failed"
           /\ result'[b][e] = "running" => Grows(started'[b][e].base, started'[b][e].head)
<1>1. /\ started'[b] = [push |-> [base |-> G!MergeBase(b), head |-> head'[b], ok |-> FALSE],
                        pull_request |-> G!OnRequest(b)]
      /\ result'[b] = [push |-> "running", pull_request |-> G!Runs(b)]
  BY DEF G!Pushed, Kinds
<1>2. /\ result'[b]["pull_request"] = G!Runs(b) /\ result'[b]["push"] = "running"
      /\ started'[b]["pull_request"] = G!OnRequest(b)
      /\ started'[b]["push"].base = base'[b] /\ started'[b]["push"].head = head'[b]
  BY <1>1 DEF G!MergeBase
<1>3. G!Runs(b) = "running" => Grows(G!OnRequest(b).base, G!OnRequest(b).head)
  BY RequestGrows DEF Kinds
<1>4. G!Runs(b) # "failed"
  BY DEF G!Runs
<1>. QED  BY <1>2, <1>3, <1>4 DEF G!Event

LEMMA LabelledGrows ==
  ASSUME GrowsInv, NEW b \in Branch, b \notin weakened, G!Labelled(b), Grows(base'[b], head'[b])
  PROVE  \A e \in G!Event :
           /\ result'[b][e] # "failed"
           /\ result'[b][e] = "running" => Grows(started'[b][e].base, started'[b][e].head)
<1> DEFINE s == [started[b] EXCEPT !["pull_request"] = G!OnRequest(b)]
           r == [result[b] EXCEPT !["pull_request"] = G!Runs(b)]
<1>0. Kinds
  BY DEF GrowsInv
<1>1. started'[b] = s /\ result'[b] = r
  BY <1>0 DEF G!Labelled, G!Relabelled, Kinds
<1>2. /\ s["pull_request"] = G!OnRequest(b) /\ r["pull_request"] = G!Runs(b)
      /\ s["push"] = started[b]["push"] /\ r["push"] = result[b]["push"]
  BY <1>0 DEF G!Event, Kinds
<1> HIDE DEF s, r
<1>3. G!Runs(b) = "running" => Grows(G!OnRequest(b).base, G!OnRequest(b).head)
  BY <1>0, RequestGrows DEF Kinds
<1>4. G!Runs(b) # "failed"
  BY DEF G!Runs
<1>. QED  BY <1>1, <1>2, <1>3, <1>4 DEF G!Event, GrowsInv

-----------------------------------------------------------------------------
LEMMA InitGrows == G!Init => GrowsInv
<1> SUFFICES ASSUME G!Init PROVE GrowsInv
  OBVIOUS
<1>1. Kinds
  BY ProgramsAssumption DEF G!Init, Kinds, G!GuardAssumption
<1>2. \A b \in Branch : /\ base[b] = Main /\ head[b] = Main
                        /\ \A e \in G!Event : result[b][e] = "none"
  BY DEF G!Init
<1>3. Main \in G!Project /\ ~Main.broken /\ Main.floor \in Int /\ Main.threshold \in Int
  BY ProgramsAssumption DEF G!GuardAssumption, G!Project
<1>. QED  BY <1>1, <1>2, <1>3 DEF GrowsInv, Grows

LEMMA NextGrows == GrowsInv /\ FreshInv' /\ [G!Next]_G!vars => GrowsInv'
<1> SUFFICES ASSUME GrowsInv, FreshInv', [G!Next]_G!vars PROVE GrowsInv'
  OBVIOUS
<1>0. Kinds /\ Kinds'
  BY DEF GrowsInv, FreshInv
<1> DEFINE Good(b) ==
      /\ Grows(base[b], head[b])
      /\ \A e \in G!Event :
           /\ result[b][e] # "failed"
           /\ result[b][e] = "running" => Grows(started[b][e].base, started[b][e].head)
<1>1. \A b \in Branch \ weakened : Good(b)
  BY DEF GrowsInv
<1>2. SUFFICES \A c \in Branch \ weakened' : Good(c)'
  BY <1>0 DEF GrowsInv
<1>3. ASSUME NEW b \in Branch, NEW new \in G!Changes(head[b]), G!Edit(b, new)
      PROVE  \A c \in Branch \ weakened' : Good(c)'
  <2>1. /\ head'[b] = new /\ G!Pushed(b) /\ base' = base
        /\ weakened' = IF G!IsWeaker(head[b], new) \/ new.broken
                       THEN weakened \cup {b} ELSE weakened
        /\ \A c \in Branch \ {b} : head'[c] = head[c]
    BY <1>0, <1>3 DEF G!Edit, Kinds
  <2>2. \A c \in Branch \ {b} : started'[c] = started[c] /\ result'[c] = result[c]
    BY <1>0, <2>1, PushedBegins
  <2>3. ASSUME b \notin weakened' PROVE Good(b)'
    <3>1. /\ b \in Branch \ weakened /\ ~G!IsWeaker(head[b], new) /\ ~new.broken
      BY <2>1, <2>3
    <3>2. Grows(base'[b], head'[b])
      BY <1>1, <1>3, <2>1, <3>1, EditGrows
    <3>. QED  BY <1>0, <2>1, <3>2, PushedGrows
  <2>4. \A c \in Branch \ weakened' : c # b => Good(c)'
    BY <1>1, <2>1, <2>2
  <2>. QED  BY <2>3, <2>4
<1>4. ASSUME NEW b \in Branch, G!Update(b)
      PROVE  \A c \in Branch \ weakened' : Good(c)'
  <2>1. /\ head'[b] = G!Merged(base[b], head[b], master) /\ base'[b] = master
        /\ ~G!Conflict(base[b], head[b], master)
        /\ G!Pushed(b) /\ weakened' = weakened
        /\ \A c \in Branch \ {b} : head'[c] = head[c] /\ base'[c] = base[c]
    BY <1>0, <1>4 DEF G!Update, Kinds
  <2>2. \A c \in Branch \ {b} : started'[c] = started[c] /\ result'[c] = result[c]
    BY <1>0, <2>1, PushedBegins
  <2>3. ASSUME b \notin weakened' PROVE Good(b)'
    <3>1. Grows(base'[b], head'[b])
      BY <1>0, <1>1, <2>1, <2>3, MergedGrows DEF Kinds
    <3>. QED  BY <1>0, <2>1, <3>1, PushedGrows
  <2>4. \A c \in Branch \ weakened' : c # b => Good(c)'
    BY <1>1, <2>1, <2>2
  <2>. QED  BY <2>3, <2>4
<1>5. ASSUME NEW b \in Branch, G!Label(b)
      PROVE  \A c \in Branch \ weakened' : Good(c)'
  <2>1. G!Labelled(b) /\ UNCHANGED <<base, head, weakened>>
    BY <1>5 DEF G!Label
  <2>2. \A c \in Branch \ {b} : started'[c] = started[c] /\ result'[c] = result[c]
    BY <1>0, <2>1, LabelledBegins
  <2>3. b \notin weakened' => Good(b)'
    BY <1>1, <2>1, LabelledGrows
  <2>4. \A c \in Branch \ weakened' : c # b => Good(c)'
    BY <1>1, <2>1, <2>2
  <2>. QED  BY <2>3, <2>4
<1>6. ASSUME NEW b \in Branch, NEW e \in G!Event, G!Guarded(b, e)
      PROVE  \A c \in Branch \ weakened' : Good(c)'
  <2> DEFINE v == IF G!Passes(started[b][e].base, started[b][e].head, started[b][e].ok)
                  THEN "passed" ELSE "failed"
             r == [result[b] EXCEPT ![e] = v]
  <2>1. /\ result' = [result EXCEPT ![b] = r] /\ result[b][e] = "running"
        /\ UNCHANGED <<base, head, started, weakened>>
    BY <1>6 DEF G!Guarded
  <2>2. b \notin weakened => v = "passed"
    BY <1>1, <2>1, GrowsIsStrong
  <2>3. r[e] = v /\ \A x \in G!Event \ {e} : r[x] = result[b][x]
    BY <1>0 DEF Kinds
  <2> HIDE DEF r, v
  <2>4. result'[b] = r /\ \A c \in Branch \ {b} : result'[c] = result[c]
    BY <1>0, <2>1 DEF Kinds
  <2>. QED  BY <1>1, <2>1, <2>2, <2>3, <2>4
<1>7. ASSUME NEW b \in Branch, G!Merge(b)
      PROVE  \A c \in Branch \ weakened' : Good(c)'
  <2>1. /\ base'[b] = head[b] /\ \A c \in Branch \ {b} : base'[c] = base[c]
        /\ UNCHANGED <<head, started, result, weakened>>
    BY <1>0, <1>7 DEF G!Merge, Kinds
  <2>2. ASSUME b \notin weakened PROVE Grows(head[b], head[b])
    <3>1. Grows(base[b], head[b]) /\ head[b].floor \in Int /\ head[b].threshold \in Int
      BY <1>1, <2>2, ProgramsAssumption DEF Grows, G!GuardAssumption, G!Project
    <3>. QED  BY <3>1 DEF Grows
  <2>. QED  BY <1>1, <2>1, <2>2
<1>8. CASE UNCHANGED G!vars
  BY <1>1, <1>8 DEF G!vars
<1>. QED  BY <1>3, <1>4, <1>5, <1>6, <1>7, <1>8 DEF G!Next

(* ci_guard.merge_base: a branch nobody made weaker is not refused because  *)
(* master or another branch has moved on since it left master.              *)
THEOREM GuardIsFair == AllSpec => []NoFalseAlarm
<1>1. AllInit => FreshInv /\ GrowsInv
  BY InitFresh, InitGrows, ProgramsAssumption DEF AllInit
<1>2. FreshInv /\ GrowsInv /\ [AllNext]_allVars => (FreshInv /\ GrowsInv)'
  BY AllStep, NextFresh, NextGrows, ProgramsAssumption
<1>3. GrowsInv => NoFalseAlarm
  BY DEF GrowsInv, NoFalseAlarm, G!NoFalseAlarm
<1>. QED  BY <1>1, <1>2, <1>3, PTL DEF AllSpec

-----------------------------------------------------------------------------
(* The rows demo_seed inserts: of its partners and their units first, then  *)
(* of its receipts.                                                         *)
InvoiceRows == {D!Invoice(n) : n \in 1 .. Receipts}
OfPartner(x) == D!IsPartner(x) /\ \A v \in x : v[1] # "invoice"

SeedKinds ==
  /\ stage = [r \in D!Run |-> stage[r]] /\ pending = [r \in D!Run |-> pending[r]]
  /\ todo = [r \in D!Run |-> todo[r]]

(* A row that waits for its commit shares no value with another run's, or   *)
(* with a committed one.                                                    *)
IsNew(r, x) ==
  x \cap D!Committed = {} /\ \A q \in D!Run \ {r} : ~D!HoldsPart(q, x)

ApartInv == \A r \in D!Run : \A x \in pending[r] : IsNew(r, x)

InsertsPartner(r) ==
  /\ \A x \in pending[r] : OfPartner(x)
  /\ \E S : todo[r] \in Seq(S) /\ \A x \in S : OfPartner(x)

InsertsReceipt(r) ==
  /\ pending[r] \subseteq InvoiceRows
  /\ \/ todo[r] = <<>> /\ pending[r] # {}
     \/ \E x \in InvoiceRows : todo[r] = <<x>>

(* What demo_seed has inserted, and not committed yet, where it is.         *)
DemoInv(r) ==
  /\ stage[r] \in D!Ended \cup {"count", "partners", "receipts", "insert"}
  /\ stage[r] \in D!Ended \cup {"count"} => pending[r] = {}
  /\ stage[r] = "partners" => \A x \in pending[r] : OfPartner(x)
  /\ stage[r] = "receipts" => pending[r] \subseteq InvoiceRows
  /\ stage[r] = "insert" => InsertsPartner(r) \/ InsertsReceipt(r)

(* The inductive invariant.  A run that has all the receipts waiting for    *)
(* its commit proves that none of any other run is committed: that is what  *)
(* makes them created once, the count before them does not.                 *)
SeedInv ==
  /\ SeedKinds /\ ApartInv /\ \A r \in Demo : DemoInv(r)
  /\ \A row \in D!DemoReceipts : row.values \in InvoiceRows
  /\ D!CreatedOnce

-----------------------------------------------------------------------------
LEMMA RowKinds ==
  /\ \A u : OfPartner(D!UnitRow(u)) /\ OfPartner(D!PartnerRow(u))
  /\ \A x \in InvoiceRows : ~D!IsPartner(x) /\ x # {} /\ \E v \in x : v[1] = "invoice"
<1>1. \A u : OfPartner(D!UnitRow(u)) /\ OfPartner(D!PartnerRow(u))
  BY DEF OfPartner, D!IsPartner, D!UnitRow, D!Okei, D!Code, D!PartnerRow
<1>2. ASSUME NEW n \in 1 .. Receipts
      PROVE  LET x == D!Invoice(n) IN
             ~D!IsPartner(x) /\ x # {} /\ \E v \in x : v[1] = "invoice"
  BY DEF D!Invoice, D!IsPartner
<1>. QED  BY <1>1, <1>2 DEF InvoiceRows

LEMMA InvoicesDiffer ==
  ASSUME NEW m \in 1 .. Receipts, NEW n \in 1 .. Receipts, D!Invoice(m) = D!Invoice(n)
  PROVE  m = n
<1>1. <<"invoice", m>> \in D!Invoice(n)
  BY DEF D!Invoice
<1>2. <<"invoice", m>> = <<"invoice", n>>
  BY <1>1 DEF D!Invoice
<1>. QED  BY <1>2

(* FiniteSets is one module, whoever takes it.                              *)
LEMMA SeedCounts == \A S : D!Cardinality(S) = Cardinality(S)
BY Zenon DEF D!Cardinality, Cardinality

LEMMA ReceiptsAreFinite ==
  Receipts \in Nat /\ IsFiniteSet(1 .. Receipts) /\ Cardinality(1 .. Receipts) = Receipts
<1>1. Receipts \in Nat
  BY ProgramsAssumption DEF D!SeedingAssumption
<1>. QED  BY <1>1, FS_Interval

(* Number is beyond the last when every receipt is there.                   *)
LEMMA AllThere ==
  ASSUME NEW r, pending[r] \subseteq InvoiceRows, D!Number(r) > Receipts
  PROVE  pending[r] = InvoiceRows
<1> DEFINE S == {n \in 1 .. Receipts : D!Invoice(n) \in pending[r]}
<1>1. Receipts \in Nat
  BY ReceiptsAreFinite
<1>2. IsFiniteSet(1 .. Receipts) /\ Cardinality(1 .. Receipts) = Receipts
  BY ReceiptsAreFinite
<1>3. S \in SUBSET (1 .. Receipts)
  OBVIOUS
<1>4. 1 + Cardinality(S) > Receipts
  BY SeedCounts DEF D!Number
<1> HIDE DEF S
<1>5. S = 1 .. Receipts
  <2>1. /\ Cardinality(S) \in Nat /\ Cardinality(S) <= Receipts
        /\ Cardinality(1 .. Receipts) = Cardinality(S) => S = 1 .. Receipts
    BY <1>2, <1>3, FS_Subset, FS_CardinalityType
  <2>. QED  BY <1>1, <1>2, <1>4, <2>1
<1>. QED  BY <1>5 DEF S, InvoiceRows

(* Stored by one run, they are as many rows as there are receipts.          *)
LEMMA StoredAreAll ==
  ASSUME NEW r
  PROVE  Cardinality({[values |-> x, by |-> r] : x \in InvoiceRows}) = Receipts
<1> DEFINE T == {[values |-> x, by |-> r] : x \in InvoiceRows}
           f == [n \in 1 .. Receipts |-> [values |-> D!Invoice(n), by |-> r]]
<1>1. IsFiniteSet(1 .. Receipts) /\ Cardinality(1 .. Receipts) = Receipts
  BY ReceiptsAreFinite
<1>2. f \in [1 .. Receipts -> T]
  BY DEF InvoiceRows
<1>3. \A t \in T : \E n \in 1 .. Receipts : f[n] = t
  BY DEF InvoiceRows
<1>4. \A m, n \in 1 .. Receipts : f[m] = f[n] => m = n
  <2> SUFFICES ASSUME NEW m \in 1 .. Receipts, NEW n \in 1 .. Receipts, f[m] = f[n]
      PROVE  m = n
    OBVIOUS
  <2>1. f[m].values = D!Invoice(m) /\ f[n].values = D!Invoice(n)
    OBVIOUS
  <2>. QED  BY <2>1, InvoicesDiffer
<1> HIDE DEF f, T
<1>5. f \in Surjection(1 .. Receipts, T) /\ f \in Injection(1 .. Receipts, T)
  BY <1>2, <1>3, <1>4 DEF Surjection, Injection, IsInjective
<1>. QED  BY <1>1, <1>5, FS_Surjection DEF T

-----------------------------------------------------------------------------
(* A step of one run leaves what the others are at.                         *)
Moves(r, s, p, t) ==
  /\ stage' = [stage EXCEPT ![r] = s] /\ pending' = [pending EXCEPT ![r] = p]
  /\ todo' = [todo EXCEPT ![r] = t]

LEMMA OthersKeep ==
  ASSUME SeedKinds, NEW r \in D!Run, NEW s, NEW p, NEW t, Moves(r, s, p, t)
  PROVE  /\ SeedKinds' /\ stage'[r] = s /\ pending'[r] = p /\ todo'[r] = t
         /\ \A q \in D!Run \ {r} : pending'[q] = pending[q]
         /\ \A q \in Demo \ {r} : DemoInv(q) => DemoInv(q)'
<1>1. /\ SeedKinds' /\ stage'[r] = s /\ pending'[r] = p /\ todo'[r] = t
      /\ \A q \in D!Run \ {r} : /\ stage'[q] = stage[q] /\ pending'[q] = pending[q]
                                /\ todo'[q] = todo[q]
  BY DEF Moves, SeedKinds
<1>2. \A q \in Demo \ {r} : DemoInv(q) => DemoInv(q)'
  BY <1>1 DEF DemoInv, InsertsPartner, InsertsReceipt, D!Run
<1>. QED  BY <1>1, <1>2

(* What waits for its commit stays apart from a row that is new.            *)
LEMMA ApartKept ==
  ASSUME ApartInv, NEW r \in D!Run, D!Committed' \subseteq D!Committed,
         \A q \in D!Run \ {r} : pending'[q] = pending[q],
         \A x \in pending'[r] : x \in pending[r] \/ IsNew(r, x)
  PROVE  ApartInv'
<1> SUFFICES ASSUME NEW q \in D!Run, NEW x \in pending'[q] PROVE IsNew(q, x)'
  BY DEF ApartInv
<1>1. IsNew(q, x)
  BY DEF ApartInv
<1>2. x \cap D!Committed' = {}
  BY <1>1 DEF IsNew
<1>3. ASSUME NEW o \in D!Run \ {q}, NEW y \in pending'[o], y \cap x # {}
      PROVE  FALSE
  <2>1. CASE o # r
    BY <1>1, <1>3, <2>1 DEF IsNew, D!HoldsPart
  <2>2. CASE o = r
    <3>1. IsNew(r, y)
      BY <1>3, <2>2 DEF ApartInv
    <3>. QED  BY <1>3, <2>2, <3>1 DEF IsNew, D!HoldsPart
  <2>. QED  BY <2>1, <2>2
<1>. QED  BY <1>2, <1>3 DEF IsNew, D!HoldsPart

(* A step of one run that commits nothing.                                  *)
LEMMA QuietStep ==
  ASSUME SeedInv, NEW r \in D!Run, NEW s, NEW p, NEW t, Moves(r, s, p, t), rows' = rows,
         \A x \in p : x \in pending[r] \/ IsNew(r, x),
         r \in Demo => DemoInv(r)'
  PROVE  SeedInv' /\ D!WholeStep
<1>1. SeedKinds' /\ ApartInv' /\ \A q \in Demo : DemoInv(q)'
  BY OthersKeep, ApartKept DEF SeedInv, D!Committed
<1>2. D!DemoReceipts' = D!DemoReceipts
  BY DEF D!DemoReceipts, D!IsReceipt
<1>3. D!WholeStep
  BY DEF D!WholeStep
<1>. QED  BY <1>1, <1>2, <1>3 DEF SeedInv, D!CreatedOnce

(* A commit.                                                                *)
LEMMA CommitStep ==
  ASSUME SeedInv, NEW r \in D!Run, NEW s, NEW t, Moves(r, s, {}, t), rows' = D!Stored(r),
         r \in Demo => DemoInv(r)'
  PROVE  SeedKinds' /\ ApartInv' /\ \A q \in Demo : DemoInv(q)'
<1>1. D!Committed' = D!Committed \cup UNION pending[r]
  <2>1. D!Committed' \subseteq D!Committed \cup UNION pending[r]
    BY DEF D!Committed, D!Stored
  <2>2. D!Committed \cup UNION pending[r] \subseteq D!Committed'
    <3>0. \A x \in pending[r] : [values |-> x, by |-> r] \in rows'
      BY DEF D!Stored
    <3>1. \A x \in pending[r] : \E row \in rows' : row.values = x
      BY <3>0
    <3>2. UNION pending[r] \subseteq D!Committed'
      BY <3>1 DEF D!Committed
    <3>. QED  BY <3>2 DEF D!Committed, D!Stored
  <2>. QED  BY <2>1, <2>2
<1>2. /\ SeedKinds' /\ pending'[r] = {} /\ \A q \in D!Run \ {r} : pending'[q] = pending[q]
      /\ \A q \in Demo : DemoInv(q)'
  BY OthersKeep DEF SeedInv
<1>3. ASSUME NEW q \in D!Run, NEW x \in pending'[q]
      PROVE  IsNew(q, x)'
  <2>1. q # r /\ x \in pending[q]
    BY <1>2, <1>3
  <2>2. IsNew(q, x)
    BY <2>1 DEF SeedInv, ApartInv
  <2>3. \A y \in pending[r] : y \cap x = {}
    BY <2>1, <2>2 DEF IsNew, D!HoldsPart
  <2>4. x \cap D!Committed' = {}
    BY <1>1, <2>2, <2>3 DEF IsNew
  <2>. QED  BY <1>2, <2>2, <2>4 DEF IsNew, D!HoldsPart
<1>. QED  BY <1>2, <1>3 DEF ApartInv

(* A commit of what is no receipt leaves those there are.                   *)
LEMMA NoReceiptStored ==
  ASSUME SeedInv, NEW r \in D!Run, rows' = D!Stored(r),
         r \in Demo => \A x \in pending[r] : OfPartner(x)
  PROVE  /\ D!DemoReceipts' = D!DemoReceipts
         /\ D!WholeStep
<1>1. \A row \in rows' \ rows : row.by \in Demo => ~D!IsReceipt(row)
  BY DEF D!Stored, D!IsReceipt, OfPartner
<1>2. rows \subseteq rows'
  BY DEF D!Stored
<1>3. D!DemoReceipts' = D!DemoReceipts
  BY <1>1, <1>2 DEF D!DemoReceipts, D!IsReceipt
<1>4. D!WholeStep
  BY <1>1 DEF D!WholeStep
<1>. QED  BY <1>3, <1>4

(* All the receipts of a run at once: nobody else's are there.              *)
LEMMA ReceiptsStored ==
  ASSUME SeedInv, NEW r \in Demo, rows' = D!Stored(r), pending[r] = InvoiceRows
  PROVE  /\ \A row \in D!DemoReceipts' : row.values \in InvoiceRows
         /\ D!CreatedOnce' /\ D!WholeStep
<1> DEFINE new == {[values |-> x, by |-> r] : x \in InvoiceRows}
<1>1. r \in D!Run
  BY DEF D!Run
<1>2. \A row \in rows : row.values \notin InvoiceRows
  <2> SUFFICES ASSUME NEW row \in rows, row.values \in InvoiceRows PROVE FALSE
    OBVIOUS
  <2>1. row.values \cap D!Committed = {} /\ row.values # {}
    BY <1>1, RowKinds DEF SeedInv, ApartInv, IsNew
  <2>. QED  BY <2>1 DEF D!Committed
<1>3. D!DemoReceipts = {}
  BY <1>2 DEF SeedInv, D!DemoReceipts
<1>4. rows' = rows \cup new
  BY DEF D!Stored
<1>5. \A row \in new : row.by = r /\ row.values \in InvoiceRows /\ D!IsReceipt(row)
  BY RowKinds DEF D!IsReceipt
<1>6. new \cap rows = {}
  BY <1>2, <1>5
<1>7. Cardinality(new) = Receipts
  BY StoredAreAll
<1> HIDE DEF new
<1>8. D!DemoReceipts' = new
  BY <1>3, <1>4, <1>5 DEF D!DemoReceipts, D!IsReceipt
<1>9. D!WholeStep
  <2> SUFFICES ASSUME NEW q \in Demo
      PROVE  LET S == {row \in rows' \ rows : row.by = q /\ D!IsReceipt(row)} IN
             S = {} \/ D!Cardinality(S) = Receipts
    BY DEF D!WholeStep
  <2> DEFINE S == {row \in rows' \ rows : row.by = q /\ D!IsReceipt(row)}
  <2>1. S = IF q = r THEN new ELSE {}
    BY <1>4, <1>5, <1>6
  <2>. QED  BY <1>7, <2>1, SeedCounts
<1>. QED  BY <1>5, <1>8, <1>9 DEF D!CreatedOnce

(* What users do leaves no receipt of demo_seed that was not there.         *)
LEMMA UserStep ==
  ASSUME SeedInv, UNCHANGED <<pending, stage, todo>>, ApartInv',
         \A row \in rows' \ rows : row.by \notin D!Run
  PROVE  SeedInv' /\ D!WholeStep
<1>1. SeedKinds' /\ \A r \in Demo : DemoInv(r)'
  BY DEF SeedInv, SeedKinds, DemoInv, InsertsPartner, InsertsReceipt
<1>2. D!DemoReceipts' \subseteq D!DemoReceipts
  BY DEF D!DemoReceipts, D!IsReceipt, D!Run
<1>3. D!WholeStep
  BY DEF D!WholeStep, D!Run
<1>. QED  BY <1>1, <1>2, <1>3 DEF SeedInv, D!CreatedOnce

-----------------------------------------------------------------------------
(* The exit of a program.                                                   *)
LEMMA ExitStep ==
  ASSUME SeedInv, NEW r \in D!Run, NEW s \in D!Ended, D!Exit(r, s), rows' = rows
  PROVE  SeedInv' /\ D!WholeStep
<1>1. Moves(r, s, {}, <<>>)
  BY DEF Moves, D!Exit, D!Move
<1>2. stage'[r] = s /\ pending'[r] = {}
  BY <1>1, OthersKeep DEF SeedInv
<1>3. DemoInv(r)'
  BY <1>2 DEF DemoInv, D!Ended
<1>. QED  BY <1>1, <1>3, QuietStep

(* A step that only goes on to another stage.                               *)
LEMMA GoOn ==
  ASSUME SeedInv, NEW r \in D!Run, NEW s, D!Move(r, s), UNCHANGED <<rows, pending, todo>>,
         r \in Demo => DemoInv(r)'
  PROVE  SeedInv' /\ D!WholeStep
<1>1. Moves(r, s, pending[r], todo[r])
  BY DEF Moves, D!Move, SeedInv, SeedKinds
<1>. QED  BY <1>1, QuietStep

LEMMA BeginStep ==
  ASSUME SeedInv, NEW r \in D!Run, D!Begin(r)
  PROVE  SeedInv' /\ D!WholeStep
<1>1. stage[r] = "none" /\ UNCHANGED <<rows, pending>>
  BY DEF D!Begin
<1>2. CASE r \in Seeder
  <2>1. PICK t : todo' = [todo EXCEPT ![r] = t] /\ D!Move(r, "insert")
    BY <1>2 DEF D!Begin
  <2>2. Moves(r, "insert", pending[r], t)
    BY <1>1, <2>1 DEF Moves, D!Move, SeedInv, SeedKinds
  <2>3. r \notin Demo
    BY <1>2, ProgramsAssumption DEF D!SeedingAssumption
  <2>. QED  BY <1>1, <2>2, <2>3, QuietStep
<1>3. CASE r \notin Seeder
  <2>1. PICK s \in {"partners", "no admin"} : D!Move(r, s)
    BY <1>3 DEF D!Begin
  <2>2. r \in Demo /\ todo' = todo
    BY <1>3 DEF D!Begin, D!Run
  <2>3. stage'[r] = s /\ pending'[r] = {}
    BY <1>1, <2>1, <2>2 DEF SeedInv, SeedKinds, DemoInv, D!Ended, D!Move
  <2>4. DemoInv(r)'
    BY <2>3 DEF DemoInv, D!Ended
  <2>. QED  BY <1>1, <2>1, <2>2, <2>4, GoOn
<1>. QED  BY <1>2, <1>3

LEMMA InsertStep ==
  ASSUME SeedInv, NEW r \in D!Run, D!Insert(r)
  PROVE  SeedInv' /\ D!WholeStep
<1> DEFINE x == Head(todo[r])
<1>1. stage[r] = "insert" /\ todo[r] # <<>> /\ rows' = rows
  BY DEF D!Insert
<1>2. CASE D!Exit(r, "exit 1")
  BY <1>1, <1>2, ExitStep DEF D!Ended
<1>3. CASE /\ ~D!Clashes(x) /\ \A q \in D!Run \ {r} : ~D!HoldsPart(q, x)
           /\ pending' = [pending EXCEPT ![r] = @ \cup {x}]
           /\ todo' = [todo EXCEPT ![r] = Tail(@)] /\ UNCHANGED stage
  <2>1. Moves(r, "insert", pending[r] \cup {x}, Tail(todo[r]))
    BY <1>1, <1>3 DEF Moves, SeedInv, SeedKinds
  <2>2. IsNew(r, x)
    BY <1>3 DEF IsNew, D!Clashes
  <2>3. /\ stage'[r] = "insert" /\ pending'[r] = pending[r] \cup {x}
        /\ todo'[r] = Tail(todo[r])
    BY <2>1, OthersKeep DEF SeedInv
  <2>4. ASSUME r \in Demo, InsertsPartner(r) PROVE DemoInv(r)'
    <3>1. PICK S : todo[r] \in Seq(S) /\ \A y \in S : OfPartner(y)
      BY <2>4 DEF InsertsPartner
    <3>2. x \in S /\ Tail(todo[r]) \in Seq(S)
      BY <1>1, <3>1
    <3>. HIDE DEF x
    <3>3. InsertsPartner(r)'
      BY <2>3, <2>4, <3>1, <3>2 DEF InsertsPartner, OfPartner, D!IsPartner
    <3>. QED  BY <2>3, <3>3 DEF DemoInv, D!Ended
  <2>5. ASSUME r \in Demo, InsertsReceipt(r) PROVE DemoInv(r)'
    <3>1. PICK y \in InvoiceRows : todo[r] = <<y>>
      BY <1>1, <2>5 DEF InsertsReceipt
    <3>2. x = y /\ Tail(todo[r]) = <<>>
      BY <3>1
    <3>. HIDE DEF x
    <3>3. pending'[r] \subseteq InvoiceRows /\ pending'[r] # {} /\ todo'[r] = <<>>
      BY <2>3, <2>5, <3>2 DEF InsertsReceipt
    <3>4. InsertsReceipt(r)'
      BY <3>3 DEF InsertsReceipt, InvoiceRows, D!Invoice
    <3>. QED  BY <2>3, <3>4 DEF DemoInv, D!Ended
  <2>6. r \in Demo => DemoInv(r)'
    BY <1>1, <2>4, <2>5 DEF SeedInv, DemoInv
  <2>. HIDE DEF x
  <2>. QED  BY <1>1, <2>1, <2>2, <2>6, QuietStep
<1> HIDE DEF x
<1>4. \/ D!Exit(r, "exit 1")
      \/ /\ ~D!Clashes(x) /\ \A q \in D!Run \ {r} : ~D!HoldsPart(q, x)
         /\ pending' = [pending EXCEPT ![r] = @ \cup {x}]
         /\ todo' = [todo EXCEPT ![r] = Tail(@)] /\ UNCHANGED stage
  BY DEF D!Insert, x
<1>. QED  BY <1>2, <1>3, <1>4

LEMMA AskAdminStep ==
  ASSUME SeedInv, NEW r \in D!Run, D!AskAdmin(r)
  PROVE  SeedInv' /\ D!WholeStep
<1>1. r \notin Demo /\ UNCHANGED <<rows, pending>>
  BY ProgramsAssumption DEF D!AskAdmin, D!SeedingAssumption
<1>2. CASE D!Move(r, "commit") /\ UNCHANGED todo
  BY <1>1, <1>2, GoOn
<1>3. CASE todo' = [todo EXCEPT ![r] = <<D!Admin>>] /\ UNCHANGED stage
  <2>1. Moves(r, stage[r], pending[r], <<D!Admin>>)
    BY <1>1, <1>3 DEF Moves, SeedInv, SeedKinds
  <2>. QED  BY <1>1, <2>1, QuietStep
<1>. QED  BY <1>2, <1>3 DEF D!AskAdmin

LEMMA CommitSeedStep ==
  ASSUME SeedInv, NEW r \in D!Run, D!CommitSeed(r)
  PROVE  SeedInv' /\ D!WholeStep
<1>1. r \notin Demo /\ rows' = D!Stored(r) /\ Moves(r, "exit 0", {}, <<>>)
  BY ProgramsAssumption DEF D!CommitSeed, D!SeedingAssumption, D!Exit, D!Move, Moves
<1>2. SeedKinds' /\ ApartInv' /\ \A q \in Demo : DemoInv(q)'
  BY <1>1, CommitStep
<1>. QED  BY <1>1, <1>2, NoReceiptStored DEF SeedInv, D!CreatedOnce

LEMMA NextPartnerStep ==
  ASSUME SeedInv, NEW r \in D!Run, D!NextPartner(r)
  PROVE  SeedInv' /\ D!WholeStep
<1> DEFINE k == Partners[Len(kept[r]) + 1]
           t == D!ToSave(r, k)
           S == {D!UnitRow(UnitOf[k]), D!PartnerRow(k)}
<1>0. CASE UNCHANGED <<stage, todo>>
  <2>1. UNCHANGED <<rows, pending>>
    BY DEF D!NextPartner
  <2>2. ApartInv'
    BY <2>1 DEF SeedInv, ApartInv, IsNew, D!HoldsPart, D!Committed
  <2>. QED  BY <1>0, <2>1, <2>2, UserStep
<1> SUFFICES ASSUME ~UNCHANGED <<stage, todo>>
             PROVE  SeedInv' /\ D!WholeStep
  BY <1>0
<1>1. /\ stage[r] = "partners" /\ UNCHANGED <<rows, pending>>
      /\ Moves(r, "insert", pending[r], t)
  BY DEF D!NextPartner, D!Move, Moves, SeedInv, SeedKinds
<1>2. t \in Seq(S)
  <2> HIDE DEF k
  <2> DEFINE u == D!UnitRow(UnitOf[k])
             p == D!PartnerRow(k)
  <2>1. PICK f \in {<<>>, <<u>>} : t = f \o <<p>>
    BY DEF D!ToSave
  <2> HIDE DEF u, p, t
  <2>2. /\ <<>> \in Seq({u, p}) /\ <<u>> \in Seq({u, p}) /\ <<p>> \in Seq({u, p})
        /\ f = <<>> \/ f = <<u>>
    BY <2>1
  <2>3. f \in Seq({u, p})
    BY <2>2
  <2>4. \A Q : \A a, b \in Seq(Q) : a \o b \in Seq(Q)
    OBVIOUS
  <2>5. t \in Seq({u, p})
    BY <2>1, <2>2, <2>3, <2>4
  <2>. QED  BY <2>5 DEF u, p
<1>3. \A x \in S : OfPartner(x)
  BY RowKinds
<1> HIDE DEF t, S
<1>4. stage'[r] = "insert" /\ pending'[r] = pending[r] /\ todo'[r] = t
  BY <1>1, OthersKeep DEF SeedInv
<1>5. ASSUME r \in Demo PROVE DemoInv(r)'
  <2>1. \A x \in pending[r] : OfPartner(x)
    BY <1>1, <1>5 DEF SeedInv, DemoInv
  <2>2. InsertsPartner(r)'
    BY <1>2, <1>3, <1>4, <2>1 DEF InsertsPartner, OfPartner, D!IsPartner
  <2>. QED  BY <1>4, <2>2 DEF DemoInv, D!Ended
<1>. QED  BY <1>1, <1>5, QuietStep

LEMMA SavedStep ==
  ASSUME SeedInv, NEW r \in D!Run, D!Saved(r)
  PROVE  SeedInv' /\ D!WholeStep
<1> DEFINE s == IF \A x \in pending[r] : D!IsPartner(x) THEN "partners" ELSE "receipts"
<1>1. /\ stage[r] = "insert" /\ todo[r] = <<>> /\ r \in Demo
      /\ D!Move(r, s) /\ UNCHANGED <<rows, pending, todo>>
  BY DEF D!Saved
<1>2. stage'[r] = s /\ pending'[r] = pending[r]
  BY <1>1 DEF SeedInv, SeedKinds, D!Move
<1>3. CASE InsertsPartner(r)
  <2>1. s = "partners" /\ \A x \in pending[r] : OfPartner(x)
    BY <1>3 DEF InsertsPartner, OfPartner
  <2>. QED  BY <1>2, <2>1, <1>1, GoOn DEF DemoInv, D!Ended, OfPartner, D!IsPartner
<1>4. CASE InsertsReceipt(r)
  <2>1. pending[r] # {} /\ pending[r] \subseteq InvoiceRows
    BY <1>1, <1>4 DEF InsertsReceipt
  <2>2. s = "receipts"
    BY <2>1, RowKinds
  <2>3. DemoInv(r)'
    BY <1>2, <2>1, <2>2 DEF DemoInv, D!Ended, InvoiceRows, D!Invoice
  <2>. QED  BY <1>1, <2>3, GoOn
<1>. QED  BY <1>1, <1>3, <1>4 DEF SeedInv, DemoInv

LEMMA CommitPartnersStep ==
  ASSUME SeedInv, NEW r \in D!Run, D!CommitPartners(r)
  PROVE  SeedInv' /\ D!WholeStep
<1>1. stage[r] = "partners" /\ rows' = D!Stored(r) /\ Moves(r, "count", {}, todo[r])
  BY DEF D!CommitPartners, D!Move, Moves, SeedInv, SeedKinds
<1>2. stage'[r] = "count" /\ pending'[r] = {}
  BY <1>1, OthersKeep DEF SeedInv
<1>3. DemoInv(r)'
  BY <1>2 DEF DemoInv, D!Ended
<1>4. SeedKinds' /\ ApartInv' /\ \A q \in Demo : DemoInv(q)'
  BY <1>1, <1>3, CommitStep
<1>5. r \in Demo => \A x \in pending[r] : OfPartner(x)
  BY <1>1 DEF SeedInv, DemoInv
<1>. QED  BY <1>1, <1>4, <1>5, NoReceiptStored DEF SeedInv, D!CreatedOnce

LEMMA CountStep ==
  ASSUME SeedInv, NEW r \in D!Run, D!Count(r)
  PROVE  SeedInv' /\ D!WholeStep
<1>1. stage[r] = "count" /\ rows' = rows
  BY DEF D!Count
<1>2. CASE D!Exit(r, "already")
  BY <1>1, <1>2, ExitStep DEF D!Ended
<1>3. CASE D!Move(r, "receipts") /\ UNCHANGED <<pending, todo>>
  <2>1. stage'[r] = "receipts" /\ pending'[r] = pending[r]
    BY <1>3 DEF SeedInv, SeedKinds, D!Move
  <2>2. r \in Demo => DemoInv(r)'
    BY <1>1, <2>1 DEF SeedInv, DemoInv, D!Ended
  <2>. QED  BY <1>1, <1>3, <2>2, GoOn
<1>. QED  BY <1>2, <1>3 DEF D!Count

(* The next number is one of the receipts', if they are not all there.      *)
LEMMA NumberIsOne ==
  ASSUME NEW r, D!Number(r) <= Receipts
  PROVE  D!Number(r) \in 1 .. Receipts
<1> DEFINE S == {n \in 1 .. Receipts : D!Invoice(n) \in pending[r]}
<1>1. Receipts \in Nat
  BY ReceiptsAreFinite
<1>2. Cardinality(S) \in Nat
  BY ReceiptsAreFinite, FS_Subset, FS_CardinalityType
<1>3. D!Number(r) = 1 + Cardinality(S)
  BY SeedCounts DEF D!Number
<1>. QED  BY <1>1, <1>2, <1>3

LEMMA NextReceiptStep ==
  ASSUME SeedInv, NEW r \in D!Run, D!NextReceipt(r)
  PROVE  SeedInv' /\ D!WholeStep
<1> DEFINE x == D!Invoice(D!Number(r))
<1>1. stage[r] = "receipts" /\ rows' = rows /\ D!Number(r) <= Receipts
  BY DEF D!NextReceipt
<1>2. Moves(r, "insert", pending[r], <<x>>)
  BY DEF D!NextReceipt, Moves, D!Move, SeedInv, SeedKinds
<1>3. x \in InvoiceRows
  BY <1>1, NumberIsOne DEF InvoiceRows
<1> HIDE DEF x
<1>4. stage'[r] = "insert" /\ pending'[r] = pending[r] /\ todo'[r] = <<x>>
  BY <1>2, OthersKeep DEF SeedInv
<1>5. ASSUME r \in Demo PROVE DemoInv(r)'
  <2>1. pending[r] \subseteq InvoiceRows
    BY <1>1, <1>5 DEF SeedInv, DemoInv
  <2>2. InsertsReceipt(r)'
    BY <1>3, <1>4, <2>1 DEF InsertsReceipt, InvoiceRows, D!Invoice
  <2>. QED  BY <1>4, <2>2 DEF DemoInv, D!Ended
<1>. QED  BY <1>1, <1>2, <1>5, QuietStep

LEMMA CommitReceiptsStep ==
  ASSUME SeedInv, NEW r \in D!Run, D!CommitReceipts(r)
  PROVE  SeedInv' /\ D!WholeStep
<1>1. /\ stage[r] = "receipts" /\ D!Number(r) > Receipts /\ rows' = D!Stored(r)
      /\ Moves(r, "exit 0", {}, <<>>)
  BY DEF D!CommitReceipts, D!Ready, D!Exit, D!Move, Moves
<1>2. stage'[r] = "exit 0" /\ pending'[r] = {}
  BY <1>1, OthersKeep DEF SeedInv
<1>3. DemoInv(r)'
  BY <1>2 DEF DemoInv, D!Ended
<1>4. SeedKinds' /\ ApartInv' /\ \A q \in Demo : DemoInv(q)'
  BY <1>1, <1>3, CommitStep
<1>5. CASE r \in Demo
  <2>1. pending[r] = InvoiceRows
    BY <1>1, <1>5, AllThere DEF SeedInv, DemoInv
  <2>2. InvoiceRows' = InvoiceRows
    BY DEF InvoiceRows, D!Invoice
  <2>. QED  BY <1>1, <1>4, <1>5, <2>1, <2>2, ReceiptsStored DEF SeedInv
<1>6. CASE r \notin Demo
  BY <1>1, <1>4, <1>6, NoReceiptStored DEF SeedInv, D!CreatedOnce
<1>. QED  BY <1>5, <1>6

LEMMA DeleteStep ==
  ASSUME SeedInv, NEW row \in rows, D!UserDeletes(row)
  PROVE  SeedInv' /\ D!WholeStep
<1>1. rows' = rows \ {row} /\ UNCHANGED <<pending, stage, todo>>
  BY DEF D!UserDeletes
<1>2. D!Committed' \subseteq D!Committed
  BY <1>1 DEF D!Committed
<1>3. ApartInv'
  BY <1>1, <1>2 DEF SeedInv, ApartInv, IsNew, D!HoldsPart
<1>. QED  BY <1>1, <1>3, UserStep

LEMMA EnterStep ==
  ASSUME SeedInv, NEW x, D!UserEnters(x)
  PROVE  SeedInv' /\ D!WholeStep
<1> DEFINE row == [values |-> x, by |-> "user"]
<1>1. /\ rows' = rows \cup {row} /\ UNCHANGED <<pending, stage, todo>>
      /\ \A r \in D!Run : ~D!HoldsPart(r, x)
  BY DEF D!UserEnters
<1>2. D!Committed' \subseteq D!Committed \cup x
  BY <1>1 DEF D!Committed
<1>3. ApartInv'
  BY <1>1, <1>2 DEF SeedInv, ApartInv, IsNew, D!HoldsPart
<1>4. row.by \notin D!Run
  BY ProgramsAssumption DEF D!SeedingAssumption
<1> HIDE DEF row
<1>. QED  BY <1>1, <1>3, <1>4, UserStep

-----------------------------------------------------------------------------
LEMMA InitSeed == D!Init => SeedInv
<1> SUFFICES ASSUME D!Init PROVE SeedInv
  OBVIOUS
<1>1. /\ rows \in Starts /\ \A r \in D!Run : pending[r] = {} /\ stage[r] = "none"
      /\ SeedKinds
  BY DEF D!Init, SeedKinds
<1>2. \A row \in rows : row.by \notin D!Run
  BY <1>1, ProgramsAssumption DEF D!SeedingAssumption
<1>3. D!DemoReceipts = {}
  BY <1>2 DEF D!DemoReceipts, D!Run
<1>4. \A r \in Demo : DemoInv(r)
  BY <1>1 DEF DemoInv, D!Run, D!Ended
<1>. QED  BY <1>1, <1>3, <1>4 DEF SeedInv, ApartInv, D!CreatedOnce

LEMMA NextSeed ==
  ASSUME SeedInv, [D!Next]_D!vars
  PROVE  SeedInv' /\ D!WholeStep
<1>1. CASE UNCHANGED <<rows, pending, stage, todo>>
  <2>1. ApartInv'
    BY <1>1 DEF SeedInv, ApartInv, IsNew, D!HoldsPart, D!Committed
  <2>. QED  BY <1>1, <2>1, UserStep
<1>2. CASE UNCHANGED D!vars \/ D!Migrate
  BY <1>1, <1>2 DEF D!vars, D!Migrate
<1>3. ASSUME NEW r \in D!Run, D!Program(r)
      PROVE  SeedInv' /\ D!WholeStep
  BY <1>3, InsertStep, AskAdminStep, CommitSeedStep, NextPartnerStep, SavedStep,
     CommitPartnersStep, CountStep, NextReceiptStep, CommitReceiptsStep DEF D!Program
<1>4. ASSUME NEW r \in D!Run, D!Kill(r)
      PROVE  SeedInv' /\ D!WholeStep
  BY <1>4, ExitStep DEF D!Kill, D!Ended
<1>5. ASSUME NEW r \in D!Run, D!StartAgain(r)
      PROVE  SeedInv' /\ D!WholeStep
  <2>1. /\ stage[r] \in D!Ended /\ D!Move(r, "none") /\ UNCHANGED <<rows, pending, todo>>
    BY <1>5 DEF D!StartAgain
  <2>2. stage'[r] = "none" /\ pending'[r] = pending[r]
    BY <2>1 DEF SeedInv, SeedKinds, D!Move
  <2>3. r \in Demo => DemoInv(r)'
    BY <2>1, <2>2 DEF SeedInv, DemoInv, D!Ended
  <2>. QED  BY <2>1, <2>3, GoOn
<1>6. ASSUME NEW row \in rows, D!UserDeletes(row)
      PROVE  SeedInv' /\ D!WholeStep
  BY <1>6, DeleteStep
<1>7. ASSUME NEW x, D!UserEnters(x)
      PROVE  SeedInv' /\ D!WholeStep
  BY <1>7, EnterStep
<1>. QED  BY <1>2, <1>3, <1>4, <1>5, <1>6, <1>7, BeginStep DEF D!Next

LEMMA SeedInductive == AllSpec => []SeedInv
<1>1. AllInit => SeedInv
  BY InitSeed DEF AllInit
<1>2. SeedInv /\ [AllNext]_allVars => SeedInv'
  BY AllStep, NextSeed
<1>. QED  BY <1>1, <1>2, PTL DEF AllSpec

(* demo_seed.py:7: the receipts are created once: of runs that counted no   *)
(* receipts at the same time only one stores its own.                       *)
THEOREM ReceiptsOnce == AllSpec => []CreatedOnce
<1>1. SeedInv => CreatedOnce
  BY DEF SeedInv, CreatedOnce
<1>. QED  BY <1>1, SeedInductive, PTL

(* demo_seed.py: a run that fails or is stopped leaves no part of the       *)
(* receipts: a run stores all of them in one step, or none.                 *)
THEOREM ReceiptsWhole == AllSpec => StoresAllOrNone
<1>1. SeedInv /\ [AllNext]_allVars => [D!WholeStep]_allVars
  BY AllStep, NextSeed
<1>. QED  BY <1>1, SeedInductive, PTL DEF AllSpec, StoresAllOrNone

-----------------------------------------------------------------------------
(* Flattened, sequences of members of Q are one.                            *)
LEMMA FlattenIsSeq ==
  ASSUME NEW Q, NEW n \in Nat, NEW g, \A i \in 1 .. n : g[i] \in Seq(Q)
  PROVE  D!FlattenSeq([i \in 1 .. n |-> g[i]]) \in Seq(Q)
<1> DEFINE parts == [i \in 1 .. n |-> g[i]]
           F == CHOOSE f :
                  f = [i \in 1 .. n |-> IF i = 1 THEN parts[i] ELSE f[i - 1] \o parts[i]]
<1>1. Len(parts) = n
  OBVIOUS
<1>2. \A i \in 1 .. n : parts[i] \in Seq(Q)
  OBVIOUS
<1>3. n = 0 => parts = <<>>
  OBVIOUS
<1> HIDE DEF parts
<1>4. D!FlattenSeq(parts) = IF n = 0 THEN parts ELSE F[n]
  BY <1>1 DEF D!FlattenSeq
<1>5. CASE n = 0
  <2>1. D!FlattenSeq(parts) = <<>>
    BY <1>3, <1>4, <1>5
  <2>. QED  BY <2>1 DEF parts
<1>6. CASE n # 0
  <2>1. IsFlat(F, parts, n)
    BY FlatExists DEF IsFlat
  <2> HIDE DEF F
  <2>2. F[n] \in Seq(Q)
    BY <1>2, <1>6, <2>1, FlatIsSeq
  <2>3. D!FlattenSeq(parts) = F[n]
    BY <1>4, <1>6
  <2>. QED  BY <2>2, <2>3 DEF parts
<1>. QED  BY <1>5, <1>6

(* The units that are missing, in their order: none shares a value with     *)
(* what was seen.                                                           *)
LEMMA MissingAreNew ==
  ASSUME NEW seen
  PROVE  \E S : D!Missing(seen) \in Seq(S) /\ \A x \in S : x \cap seen = {}
<1> DEFINE n == Len(Units)
           part(i) == IF D!IsNew(Units[i], seen) THEN <<D!UnitRow(Units[i])>> ELSE <<>>
           g == [i \in 1 .. n |-> part(i)]
           S == {x \in {D!UnitRow(Units[i]) : i \in 1 .. n} : x \cap seen = {}}
<1>1. n \in Nat
  <2>1. Units \in Seq(D!ToSet(Units))
    BY ProgramsAssumption DEF D!SeedingAssumption
  <2>. QED  BY <2>1
<1>2. ASSUME NEW i \in 1 .. n
      PROVE  part(i) \in Seq(S)
  <2>1. CASE D!IsNew(Units[i], seen)
    <3>1. D!UnitRow(Units[i]) \cap seen = {}
      BY <2>1 DEF D!IsNew, D!UnitRow
    <3>2. D!UnitRow(Units[i]) \in S
      BY <3>1
    <3>3. part(i) = <<D!UnitRow(Units[i])>>
      BY <2>1
    <3> HIDE DEF S, part
    <3>. QED  BY <3>2, <3>3
  <2>2. CASE ~D!IsNew(Units[i], seen)
    <3>1. part(i) = <<>>
      BY <2>2
    <3> HIDE DEF S, part
    <3>. QED  BY <3>1
  <2>. QED  BY <2>1, <2>2
<1>3. D!Missing(seen) = D!FlattenSeq([i \in 1 .. n |-> part(i)])
  BY DEF D!Missing
<1>4. \A i \in 1 .. n : g[i] = part(i)
  OBVIOUS
<1>5. [i \in 1 .. n |-> part(i)] = [i \in 1 .. n |-> g[i]]
  BY <1>4
<1>6. \A i \in 1 .. n : g[i] \in Seq(S)
  <2> HIDE DEF g, part, S, n
  <2>. QED  BY <1>2, <1>4
<1>7. \A x \in S : x \cap seen = {}
  OBVIOUS
<1> HIDE DEF g, part, S, n
<1>8. D!Missing(seen) \in Seq(S)
  BY <1>1, <1>3, <1>5, <1>6, FlattenIsSeq
<1>. QED  BY <1>7, <1>8

(* The partner a run looks for is one of them.                              *)
LEMMA PartnerIsOne ==
  ASSUME NEW n \in Nat, n < Len(Partners)
  PROVE  Partners[n + 1] \in D!ToSet(Partners)
<1>1. Partners \in Seq(D!ToSet(Partners))
  BY ProgramsAssumption DEF D!SeedingAssumption
<1> DEFINE Q == D!ToSet(Partners)
<1> HIDE DEF Q
<1>2. Len(Partners) \in Nat /\ n + 1 \in 1 .. Len(Partners) /\ Partners \in Seq(Q)
  BY <1>1 DEF Q
<1>3. Partners[n + 1] \in Q
  BY <1>2
<1>. QED  BY <1>3 DEF Q

-----------------------------------------------------------------------------
(* A unit made by hand: its code of OKEI is not there, its designation is.  *)
ByHand ==
  \E row \in rows : \E u \in D!ToSet(Units) :
    D!Code(u) \in row.values /\ D!Okei(u) \notin row.values

(* What a run has still to insert meets no committed value.                 *)
Meets(r, x) == x \cap D!Committed # {} /\ ~(r \in Demo /\ ByHand)
MeetsNothing(r) == \E S : todo[r] \in Seq(S) /\ \A x \in S : ~Meets(r, x)

NoInvoice == \A v \in D!Committed : v[1] # "invoice"

(* A run next to which nobody else has written since it began: it alone has *)
(* rows that wait, and what it goes on with was looked for in what is still *)
(* committed.                                                               *)
Undisturbed(r) ==
  r \notin disturbed /\ stage[r] \notin D!Ended =>
    /\ \A q \in D!Run \ {r} : pending[q] = {}
    /\ stage[r] = "insert" => MeetsNothing(r)
    /\ r \in Demo /\ (stage[r] = "receipts" \/ (stage[r] = "insert" /\ InsertsReceipt(r))) =>
         NoInvoice

FailsDisturbed(r) == stage[r] = "exit 1" => r \in disturbed \/ (r \in Demo /\ ByHand)

EndedKeepsNothing(r) ==
  /\ stage[r] \in D!Ended => pending[r] = {}
  /\ r \in Seeder => stage[r] \in D!Ended \cup {"insert", "commit"}

UndisturbedInv == \A r \in D!Run : Undisturbed(r) /\ FailsDisturbed(r) /\ EndedKeepsNothing(r)

(* What a run next to which nobody else has written found is still there.   *)
KeptInv ==
  /\ kept = [r \in D!Run |-> kept[r]]
  /\ \A r \in D!Run :
       /\ kept[r] \in Seq(BOOLEAN) /\ (stage[r] \in D!Ended => kept[r] = <<>>)
       /\ r \notin disturbed => \A i \in DOMAIN kept[r] : kept[r][i]

(* The others are disturbed by what a run inserts or commits, and by        *)
(* nothing else it does.                                                    *)
LEMMA AloneStep ==
  ASSUME SeedInv, UndisturbedInv, NEW r \in D!Run, NEW s, NEW p, NEW t, Moves(r, s, p, t),
         disturbed \ {r} \subseteq disturbed', rows \subseteq rows',
         D!Disturb(r) \/ (rows' = rows /\ p \subseteq pending[r]),
         Undisturbed(r)', FailsDisturbed(r)', EndedKeepsNothing(r)'
  PROVE  UndisturbedInv'
<1> SUFFICES ASSUME NEW q \in D!Run, q # r
             PROVE  Undisturbed(q)' /\ FailsDisturbed(q)' /\ EndedKeepsNothing(q)'
  BY DEF UndisturbedInv
<1>1. /\ stage'[q] = stage[q] /\ pending'[q] = pending[q] /\ todo'[q] = todo[q]
      /\ pending'[r] = p
      /\ \A o \in D!Run \ {r} : pending'[o] = pending[o]
  BY DEF SeedInv, SeedKinds, Moves
<1>2. EndedKeepsNothing(q)'
  BY <1>1 DEF UndisturbedInv, EndedKeepsNothing, D!Ended
<1>3. FailsDisturbed(q)'
  <2>1. ByHand => ByHand'
    BY DEF ByHand, D!ToSet, D!Code, D!Okei
  <2>2. FailsDisturbed(q)
    BY DEF UndisturbedInv
  <2>. QED  BY <1>1, <2>1, <2>2 DEF FailsDisturbed
<1>4. Undisturbed(q)'
  <2>1. CASE D!Disturb(r)
    <3>1. stage[q] \notin D!Ended => q \in disturbed'
      BY <2>1 DEF D!Disturb, D!Running
    <3>. QED  BY <1>1, <3>1 DEF Undisturbed, D!Ended
  <2>2. CASE rows' = rows /\ p \subseteq pending[r]
    <3> SUFFICES ASSUME q \notin disturbed', stage[q] \notin D!Ended
                 PROVE  Undisturbed(q)'
      BY <1>1 DEF Undisturbed, D!Ended
    <3>1. q \notin disturbed
      OBVIOUS
    <3>2. Undisturbed(q)
      BY DEF UndisturbedInv
    <3>3. \A o \in D!Run \ {q} : pending'[o] = {}
      BY <1>1, <2>2, <3>1, <3>2 DEF Undisturbed
    <3>4. D!Committed' = D!Committed /\ ByHand' = ByHand
      BY <2>2 DEF D!Committed, ByHand, D!ToSet, D!Code, D!Okei
    <3>5. MeetsNothing(q) => MeetsNothing(q)'
      BY <1>1, <3>4 DEF MeetsNothing, Meets
    <3>6. NoInvoice => NoInvoice'
      BY <3>4 DEF NoInvoice
    <3>7. InsertsReceipt(q)' => InsertsReceipt(q)
      BY <1>1 DEF InsertsReceipt, InvoiceRows, D!Invoice
    <3>. QED  BY <1>1, <3>1, <3>2, <3>3, <3>5, <3>6, <3>7 DEF Undisturbed
  <2>. QED  BY <2>1, <2>2
<1>. QED  BY <1>2, <1>3, <1>4

(* A run that ends, for a reason or with somebody else beside it.           *)
LEMMA AloneEnds ==
  ASSUME SeedInv, UndisturbedInv, NEW r \in D!Run, NEW s \in D!Ended,
         Moves(r, s, {}, <<>>), disturbed \subseteq disturbed', rows \subseteq rows',
         D!Disturb(r) \/ rows' = rows,
         s = "exit 1" => r \in disturbed \/ (r \in Demo /\ ByHand)
  PROVE  UndisturbedInv'
<1>1. stage'[r] = s /\ pending'[r] = {}
  BY OthersKeep DEF SeedInv
<1>2. ByHand => ByHand'
  BY DEF ByHand, D!ToSet, D!Code, D!Okei
<1>3. FailsDisturbed(r)'
  BY <1>1, <1>2 DEF FailsDisturbed
<1>4. Undisturbed(r)' /\ EndedKeepsNothing(r)'
  BY <1>1 DEF Undisturbed, EndedKeepsNothing, D!Ended
<1>. QED  BY <1>3, <1>4, AloneStep

(* What a step that commits nothing leaves as it was.                       *)
LEMMA SameRows ==
  ASSUME rows' = rows
  PROVE  /\ D!Committed' = D!Committed /\ ByHand' = ByHand
         /\ NoInvoice' = NoInvoice
<1>1. D!Committed' = D!Committed /\ ByHand' = ByHand
  BY DEF D!Committed, ByHand, D!ToSet, D!Code, D!Okei
<1>2. NoInvoice' = NoInvoice
  BY <1>1 DEF NoInvoice
<1>. QED  BY <1>1, <1>2

-----------------------------------------------------------------------------
LEMMA NothingMoves ==
  ASSUME UndisturbedInv, UNCHANGED <<rows, pending, stage, todo, disturbed>>
  PROVE  UndisturbedInv'
<1>1. ASSUME NEW r \in D!Run
      PROVE  (Undisturbed(r) /\ FailsDisturbed(r) /\ EndedKeepsNothing(r))'
  <2>1. Undisturbed(r) /\ FailsDisturbed(r) /\ EndedKeepsNothing(r)
    BY DEF UndisturbedInv
  <2>2. MeetsNothing(r)' = MeetsNothing(r)
    BY SameRows DEF MeetsNothing, Meets
  <2>3. InsertsReceipt(r)' = InsertsReceipt(r)
    BY DEF InsertsReceipt, InvoiceRows, D!Invoice
  <2>4. Undisturbed(r)'
    BY <2>1, <2>2, <2>3, SameRows DEF Undisturbed, D!Ended
  <2>5. FailsDisturbed(r)' /\ EndedKeepsNothing(r)'
    BY <2>1, SameRows DEF FailsDisturbed, EndedKeepsNothing, D!Ended
  <2>. QED  BY <2>4, <2>5
<1>. QED  BY <1>1 DEF UndisturbedInv, D!Run

LEMMA BeginAlone ==
  ASSUME SeedInv, UndisturbedInv, NEW r \in D!Run, D!Begin(r)
  PROVE  UndisturbedInv'
<1>1. /\ stage[r] = "none" /\ UNCHANGED <<rows, pending>> /\ pending[r] = {}
      /\ disturbed \ {r} \subseteq disturbed'
  BY DEF D!Begin, UndisturbedInv, EndedKeepsNothing, D!Ended
<1>2. r \notin disturbed' => \A q \in D!Run : pending[q] = {}
  BY DEF D!Begin, D!Running, UndisturbedInv, EndedKeepsNothing
<1>3. CASE r \in Seeder
  <2>1. Moves(r, "insert", pending[r], D!Missing(D!Committed))
    BY <1>1, <1>3 DEF D!Begin, Moves, D!Move, SeedInv, SeedKinds
  <2>2. /\ stage'[r] = "insert" /\ pending'[r] = pending[r]
        /\ todo'[r] = D!Missing(D!Committed)
    BY <2>1, OthersKeep DEF SeedInv
  <2>3. MeetsNothing(r)'
    <3>1. PICK S : D!Missing(D!Committed) \in Seq(S) /\ \A x \in S : x \cap D!Committed = {}
      BY MissingAreNew
    <3>2. D!Committed' = D!Committed
      BY <1>1, SameRows
    <3>. QED  BY <2>2, <3>1, <3>2 DEF MeetsNothing, Meets
  <2>4. r \notin Demo
    BY <1>3, ProgramsAssumption DEF D!SeedingAssumption
  <2>5. Undisturbed(r)'
    BY <1>1, <1>2, <2>2, <2>3, <2>4 DEF Undisturbed
  <2>6. FailsDisturbed(r)' /\ EndedKeepsNothing(r)'
    BY <2>2 DEF FailsDisturbed, EndedKeepsNothing, D!Ended
  <2>. QED  BY <1>1, <2>1, <2>5, <2>6, AloneStep
<1>4. CASE r \notin Seeder
  <2>1. PICK s \in {"partners", "no admin"} : Moves(r, s, pending[r], todo[r])
    BY <1>1, <1>4 DEF D!Begin, Moves, D!Move, SeedInv, SeedKinds
  <2>2. stage'[r] = s /\ pending'[r] = pending[r]
    BY <2>1, OthersKeep DEF SeedInv
  <2>3. Undisturbed(r)'
    BY <1>1, <1>2, <2>2 DEF Undisturbed
  <2>4. FailsDisturbed(r)' /\ EndedKeepsNothing(r)'
    BY <1>1, <1>4, <2>2 DEF FailsDisturbed, EndedKeepsNothing, D!Ended
  <2>. QED  BY <1>1, <2>1, <2>3, <2>4, AloneStep
<1>. QED  BY <1>3, <1>4

LEMMA InsertAlone ==
  ASSUME SeedInv, UndisturbedInv, KeptInv, NEW r \in D!Run, D!Insert(r)
  PROVE  UndisturbedInv'
<1> DEFINE x == Head(todo[r])
<1>1. stage[r] = "insert" /\ todo[r] # <<>> /\ rows' = rows
  BY DEF D!Insert
<1>2. Undisturbed(r) /\ (stage[r] \notin D!Ended)
  BY <1>1 DEF UndisturbedInv, D!Ended
<1>3. CASE /\ D!Clashes(x) \/ D!RefersToLost(r, x)
           /\ D!Exit(r, "exit 1") /\ UNCHANGED disturbed
  <2>1. ASSUME r \notin disturbed
        PROVE  r \in Demo /\ ByHand
    <3>0. D!Clashes(x)
      BY <1>3, <2>1 DEF KeptInv, D!RefersToLost
    <3>1. PICK S : todo[r] \in Seq(S) /\ \A y \in S : ~Meets(r, y)
      BY <1>1, <1>2, <2>1 DEF Undisturbed, MeetsNothing
    <3>2. x \in S
      BY <1>1, <3>1
    <3> HIDE DEF x
    <3>. QED  BY <3>0, <3>1, <3>2 DEF Meets, D!Clashes
  <2>2. Moves(r, "exit 1", {}, <<>>) /\ "exit 1" \in D!Ended
    BY <1>3 DEF D!Exit, D!Move, Moves, D!Ended
  <2>. QED  BY <1>1, <1>3, <2>1, <2>2, AloneEnds
<1>4. CASE D!Deadlocked(r) /\ D!Exit(r, "exit 1") /\ UNCHANGED disturbed
  <2>1. PICK q \in D!Run : D!WaitsFor(r, q)
    BY <1>4 DEF D!Deadlocked
  <2>2. q # r /\ pending[q] # {}
    BY <2>1 DEF D!WaitsFor, D!HoldsPart
  <2>3. r \in disturbed
    BY <1>2, <2>2 DEF Undisturbed
  <2>4. Moves(r, "exit 1", {}, <<>>) /\ "exit 1" \in D!Ended
    BY <1>4 DEF D!Exit, D!Move, Moves, D!Ended
  <2>. QED  BY <1>1, <1>4, <2>3, <2>4, AloneEnds
<1>5. CASE /\ pending' = [pending EXCEPT ![r] = @ \cup {x}]
           /\ todo' = [todo EXCEPT ![r] = Tail(@)]
           /\ D!Disturb(r) /\ UNCHANGED stage
  <2>1. Moves(r, "insert", pending[r] \cup {x}, Tail(todo[r]))
    BY <1>1, <1>5 DEF Moves, SeedInv, SeedKinds
  <2>2. /\ stage'[r] = "insert" /\ pending'[r] = pending[r] \cup {x}
        /\ todo'[r] = Tail(todo[r]) /\ \A q \in D!Run \ {r} : pending'[q] = pending[q]
    BY <2>1, OthersKeep DEF SeedInv
  <2>3. disturbed \subseteq disturbed'
    BY <1>5 DEF D!Disturb
  <2>4. MeetsNothing(r) => MeetsNothing(r)'
    <3> SUFFICES ASSUME MeetsNothing(r) PROVE MeetsNothing(r)'
      OBVIOUS
    <3>1. PICK S : todo[r] \in Seq(S) /\ \A y \in S : ~Meets(r, y)
      BY DEF MeetsNothing
    <3>2. Tail(todo[r]) \in Seq(S)
      BY <1>1, <3>1
    <3>3. \A y \in S : ~Meets(r, y)'
      BY <1>1, <3>1, SameRows DEF Meets
    <3>. QED  BY <2>2, <3>2, <3>3 DEF MeetsNothing
  <2>5. r \in Demo /\ InsertsReceipt(r)' => InsertsReceipt(r)
    <3> SUFFICES ASSUME r \in Demo, InsertsReceipt(r)', InsertsPartner(r) PROVE FALSE
      BY <1>1 DEF SeedInv, DemoInv
    <3>1. PICK S : todo[r] \in Seq(S) /\ \A y \in S : OfPartner(y)
      BY DEF InsertsPartner
    <3>2. x \in S
      BY <1>1, <3>1
    <3> HIDE DEF x
    <3>3. x \in InvoiceRows
      BY <2>2 DEF InsertsReceipt, InvoiceRows, D!Invoice
    <3>. QED  BY <3>1, <3>2, <3>3, RowKinds DEF OfPartner
  <2> HIDE DEF x
  <2>6. Undisturbed(r)'
    BY <1>1, <1>2, <2>2, <2>3, <2>4, <2>5, SameRows DEF Undisturbed
  <2>7. FailsDisturbed(r)' /\ EndedKeepsNothing(r)'
    BY <2>2 DEF FailsDisturbed, EndedKeepsNothing, D!Ended
  <2>. QED  BY <1>1, <1>5, <2>1, <2>3, <2>6, <2>7, AloneStep
<1> HIDE DEF x
<1>6. \/ /\ D!Clashes(x) \/ D!RefersToLost(r, x)
         /\ D!Exit(r, "exit 1") /\ UNCHANGED disturbed
      \/ D!Deadlocked(r) /\ D!Exit(r, "exit 1") /\ UNCHANGED disturbed
      \/ /\ pending' = [pending EXCEPT ![r] = @ \cup {x}]
         /\ todo' = [todo EXCEPT ![r] = Tail(@)]
         /\ D!Disturb(r) /\ UNCHANGED stage
  BY DEF D!Insert, x
<1>. QED  BY <1>3, <1>4, <1>5, <1>6

LEMMA AskAdminAlone ==
  ASSUME SeedInv, UndisturbedInv, NEW r \in D!Run, D!AskAdmin(r)
  PROVE  UndisturbedInv'
<1>1. /\ r \in Seeder /\ r \notin Demo /\ stage[r] = "insert"
      /\ UNCHANGED <<rows, pending, disturbed>>
  BY ProgramsAssumption DEF D!AskAdmin, D!SeedingAssumption
<1>2. Undisturbed(r) /\ (stage[r] \notin D!Ended)
  BY <1>1 DEF UndisturbedInv, D!Ended
<1>3. CASE D!Move(r, "commit") /\ UNCHANGED todo
  <2>1. Moves(r, "commit", pending[r], todo[r])
    BY <1>1, <1>3 DEF Moves, D!Move, SeedInv, SeedKinds
  <2>2. stage'[r] = "commit"
    BY <2>1, OthersKeep DEF SeedInv
  <2>3. Undisturbed(r)'
    BY <1>1, <1>2, <2>2 DEF Undisturbed
  <2>4. FailsDisturbed(r)' /\ EndedKeepsNothing(r)'
    BY <2>2 DEF FailsDisturbed, EndedKeepsNothing, D!Ended
  <2>. QED  BY <1>1, <2>1, <2>3, <2>4, AloneStep
<1>4. CASE /\ ~(D!Admin \subseteq D!Sees(r))
           /\ todo' = [todo EXCEPT ![r] = <<D!Admin>>] /\ UNCHANGED stage
  <2>1. Moves(r, "insert", pending[r], <<D!Admin>>)
    BY <1>1, <1>4 DEF Moves, SeedInv, SeedKinds
  <2>2. stage'[r] = "insert" /\ todo'[r] = <<D!Admin>>
    BY <2>1, OthersKeep DEF SeedInv
  <2>3. D!Admin \cap D!Committed' = {}
    BY <1>1, <1>4, SameRows DEF D!Admin, D!Sees
  <2>4. MeetsNothing(r)'
    <3>1. PICK S : S = {D!Admin}
      OBVIOUS
    <3>2. \A y \in S : ~Meets(r, y)'
      BY <2>3, <3>1 DEF Meets, D!Admin
    <3>3. todo'[r] \in Seq(S)
      BY <2>2, <3>1
    <3>. QED  BY <3>2, <3>3 DEF MeetsNothing
  <2>5. Undisturbed(r)'
    BY <1>1, <1>2, <2>2, <2>4 DEF Undisturbed
  <2>6. FailsDisturbed(r)' /\ EndedKeepsNothing(r)'
    BY <2>2 DEF FailsDisturbed, EndedKeepsNothing, D!Ended
  <2>. QED  BY <1>1, <2>1, <2>5, <2>6, AloneStep
<1>. QED  BY <1>3, <1>4 DEF D!AskAdmin

(* A commit adds what waited to what is there.                              *)
LEMMA CommitAdds ==
  ASSUME NEW r, rows' = D!Stored(r)
  PROVE  rows \subseteq rows' /\ D!Committed \cup UNION pending[r] \subseteq D!Committed'
<1>1. rows \subseteq rows'
  BY DEF D!Stored
<1>2. \A x \in pending[r] : [values |-> x, by |-> r] \in rows'
  BY DEF D!Stored
<1>3. \A x \in pending[r] : \E row \in rows' : row.values = x
  BY <1>2
<1>4. UNION pending[r] \subseteq D!Committed'
  BY <1>3 DEF D!Committed
<1>. QED  BY <1>1, <1>4 DEF D!Committed

LEMMA CommitSeedAlone ==
  ASSUME SeedInv, UndisturbedInv, NEW r \in D!Run, D!CommitSeed(r)
  PROVE  UndisturbedInv'
<1>1. rows' = D!Stored(r) /\ D!Disturb(r) /\ Moves(r, "exit 0", {}, <<>>)
  BY DEF D!CommitSeed, D!Exit, D!Move, Moves
<1>2. disturbed \subseteq disturbed' /\ "exit 0" \in D!Ended
  BY <1>1 DEF D!Disturb, D!Ended
<1>. QED  BY <1>1, <1>2, CommitAdds, AloneEnds

-----------------------------------------------------------------------------
(* A partner that is not there, and its unit: of what is committed they     *)
(* meet at most a unit made by hand.                                        *)
LEMMA ToSaveIsNew ==
  ASSUME NEW r \in Demo, NEW k \in D!ToSet(Partners), ~(D!PartnerRow(k) \subseteq D!Sees(r))
  PROVE  \E S : D!ToSave(r, k) \in Seq(S) /\ \A x \in S : OfPartner(x) /\ ~Meets(r, x)
<1> DEFINE u == D!UnitRow(UnitOf[k])
           p == D!PartnerRow(k)
           new == ~(UnitOf[k] = "" \/ D!Okei(UnitOf[k]) \in D!Sees(r))
           S == IF new THEN {u, p} ELSE {p}
<1>1. D!ToSave(r, k) \in Seq(S)
  <2>1. D!ToSave(r, k) = (IF new THEN <<u>> ELSE <<>>) \o <<p>>
    BY DEF D!ToSave
  <2>2. CASE new
    <3>1. D!ToSave(r, k) = <<u>> \o <<p>> /\ S = {u, p}
      BY <2>1, <2>2
    <3> HIDE DEF u, p, S, new
    <3>2. <<u>> \in Seq({u, p}) /\ <<p>> \in Seq({u, p})
      OBVIOUS
    <3>3. \A Q : \A a, b \in Seq(Q) : a \o b \in Seq(Q)
      OBVIOUS
    <3>. QED  BY <3>1, <3>2, <3>3
  <2>3. CASE ~new
    <3>1. D!ToSave(r, k) = <<>> \o <<p>> /\ S = {p}
      BY <2>1, <2>3
    <3> HIDE DEF u, p, S, new
    <3>2. <<>> \in Seq({p}) /\ <<p>> \in Seq({p})
      OBVIOUS
    <3>3. \A Q : \A a, b \in Seq(Q) : a \o b \in Seq(Q)
      OBVIOUS
    <3>. QED  BY <3>1, <3>2, <3>3
  <2>. QED  BY <2>2, <2>3
<1>2. p \cap D!Committed = {}
  BY DEF D!PartnerRow, D!Sees
<1>3. new => ~Meets(r, u)
  <2> SUFFICES ASSUME new, u \cap D!Committed # {} PROVE ByHand
    BY DEF Meets
  <2>1. D!Okei(UnitOf[k]) \notin D!Committed /\ UnitOf[k] \in D!ToSet(Units)
    <3>1. \A j \in D!ToSet(Partners) : UnitOf[j] \in D!ToSet(Units) \cup {""}
      BY ProgramsAssumption DEF D!SeedingAssumption
    <3>. QED  BY <3>1 DEF D!Sees
  <2>2. D!Code(UnitOf[k]) \in D!Committed
    BY <2>1 DEF D!UnitRow
  <2>3. PICK row \in rows : D!Code(UnitOf[k]) \in row.values
    BY <2>2 DEF D!Committed
  <2>4. D!Okei(UnitOf[k]) \notin row.values
    BY <2>1 DEF D!Committed
  <2>. QED  BY <2>1, <2>3, <2>4 DEF ByHand
<1>4. OfPartner(u) /\ OfPartner(p)
  BY RowKinds
<1>5. \A x \in S : OfPartner(x) /\ ~Meets(r, x)
  <2>1. ~Meets(r, p)
    BY <1>2 DEF Meets
  <2> HIDE DEF u, p, new
  <2>. QED  BY <1>3, <1>4, <2>1
<1> HIDE DEF S
<1>. QED  BY <1>1, <1>5

LEMMA NextPartnerAlone ==
  ASSUME SeedInv, UndisturbedInv, KeptInv, NEW r \in D!Run, D!NextPartner(r)
  PROVE  UndisturbedInv'
<1> DEFINE k == Partners[Len(kept[r]) + 1]
           t == D!ToSave(r, k)
<1>0. CASE UNCHANGED <<stage, todo>>
  BY <1>0, NothingMoves DEF D!NextPartner
<1> SUFFICES ASSUME ~UNCHANGED <<stage, todo>>
             PROVE  UndisturbedInv'
  BY <1>0
<1>1. /\ stage[r] = "partners" /\ UNCHANGED <<rows, pending, disturbed>>
      /\ Moves(r, "insert", pending[r], t)
  BY DEF D!NextPartner, D!Move, Moves, SeedInv, SeedKinds
<1>2. Undisturbed(r) /\ (stage[r] \notin D!Ended) /\ r \in Demo
  BY <1>1 DEF UndisturbedInv, EndedKeepsNothing, D!Ended, D!Run
<1>3. k \in D!ToSet(Partners) /\ ~(D!PartnerRow(k) \subseteq D!Sees(r))
  <2>1. Len(kept[r]) \in Nat /\ Len(kept[r]) < Len(Partners)
    BY DEF KeptInv, D!NextPartner
  <2>. QED  BY <2>1, PartnerIsOne DEF D!NextPartner
<1>4. PICK S : t \in Seq(S) /\ \A x \in S : OfPartner(x) /\ ~Meets(r, x)
  BY <1>2, <1>3, ToSaveIsNew
<1> HIDE DEF t
<1>5. stage'[r] = "insert" /\ pending'[r] = pending[r] /\ todo'[r] = t
  BY <1>1, OthersKeep DEF SeedInv
<1>6. MeetsNothing(r)'
  <2>1. \A x \in S : ~Meets(r, x)'
    BY <1>1, <1>4, SameRows DEF Meets
  <2>. QED  BY <1>4, <1>5, <2>1 DEF MeetsNothing
<1>7. ~InsertsReceipt(r)'
  <2>1. t # <<>>
    <3> DEFINE a == IF UnitOf[k] = "" \/ D!Okei(UnitOf[k]) \in D!Sees(r)
                    THEN <<>> ELSE <<D!UnitRow(UnitOf[k])>>
               p == D!PartnerRow(k)
    <3>1. t = a \o <<p>>
      BY DEF D!ToSave, t
    <3>2. a = <<>> \/ a = <<D!UnitRow(UnitOf[k])>>
      OBVIOUS
    <3> HIDE DEF a, p
    <3>3. Len(a \o <<p>>) # 0
      BY <3>2
    <3>. QED  BY <3>1, <3>3
  <2>2. ASSUME NEW x \in InvoiceRows, t = <<x>>
        PROVE  FALSE
    <3>1. x \in S
      BY <1>4, <2>2
    <3>. QED  BY <1>4, <3>1, RowKinds DEF OfPartner
  <2>. QED  BY <1>5, <2>1, <2>2 DEF InsertsReceipt, InvoiceRows, D!Invoice
<1>8. Undisturbed(r)'
  BY <1>1, <1>2, <1>5, <1>6, <1>7 DEF Undisturbed
<1>9. FailsDisturbed(r)' /\ EndedKeepsNothing(r)'
  BY <1>5 DEF FailsDisturbed, EndedKeepsNothing, D!Ended
<1>. QED  BY <1>1, <1>8, <1>9, AloneStep

LEMMA SavedAlone ==
  ASSUME SeedInv, UndisturbedInv, NEW r \in D!Run, D!Saved(r)
  PROVE  UndisturbedInv'
<1> DEFINE s == IF \A x \in pending[r] : D!IsPartner(x) THEN "partners" ELSE "receipts"
<1>1. /\ stage[r] = "insert" /\ r \in Demo /\ UNCHANGED <<rows, pending, disturbed>>
      /\ Moves(r, s, pending[r], todo[r])
  BY DEF D!Saved, D!Move, Moves, SeedInv, SeedKinds
<1>2. Undisturbed(r) /\ (stage[r] \notin D!Ended) /\ r \notin Seeder
  BY <1>1, ProgramsAssumption DEF UndisturbedInv, D!Ended, D!SeedingAssumption
<1>3. s = "receipts" => InsertsReceipt(r)
  BY <1>1 DEF SeedInv, DemoInv, InsertsPartner, OfPartner
<1>4. s \in {"partners", "receipts"}
  OBVIOUS
<1> HIDE DEF s
<1>5. stage'[r] = s /\ pending'[r] = pending[r]
  BY <1>1, OthersKeep DEF SeedInv
<1>6. Undisturbed(r)'
  BY <1>1, <1>2, <1>3, <1>4, <1>5, SameRows DEF Undisturbed
<1>7. FailsDisturbed(r)' /\ EndedKeepsNothing(r)'
  BY <1>2, <1>4, <1>5 DEF FailsDisturbed, EndedKeepsNothing, D!Ended
<1>. QED  BY <1>1, <1>6, <1>7, AloneStep

LEMMA CommitPartnersAlone ==
  ASSUME SeedInv, UndisturbedInv, NEW r \in D!Run, D!CommitPartners(r)
  PROVE  UndisturbedInv'
<1>1. /\ stage[r] = "partners" /\ rows' = D!Stored(r) /\ D!Disturb(r)
      /\ /\ Moves(r, "count", {}, todo[r])
  BY DEF D!CommitPartners, D!Move, Moves, SeedInv, SeedKinds
<1>2. Undisturbed(r) /\ (stage[r] \notin D!Ended) /\ r \in Demo /\ r \notin Seeder
  BY <1>1, ProgramsAssumption
  DEF UndisturbedInv, EndedKeepsNothing, D!Ended, D!Run, D!SeedingAssumption
<1>3. rows \subseteq rows' /\ D!Committed \cup UNION pending[r] \subseteq D!Committed'
  BY <1>1, CommitAdds
<1>4. /\ stage'[r] = "count" /\ pending'[r] = {}
      /\ \A q \in D!Run \ {r} : pending'[q] = pending[q]
  BY <1>1, OthersKeep DEF SeedInv
<1>5. disturbed \subseteq disturbed'
  BY <1>1 DEF D!Disturb
<1>6. Undisturbed(r)'
  BY <1>2, <1>4, <1>5 DEF Undisturbed
<1>7. FailsDisturbed(r)' /\ EndedKeepsNothing(r)'
  BY <1>2, <1>4 DEF FailsDisturbed, EndedKeepsNothing, D!Ended
<1>. QED  BY <1>1, <1>3, <1>5, <1>6, <1>7, AloneStep

LEMMA CountAlone ==
  ASSUME SeedInv, UndisturbedInv, NEW r \in D!Run, D!Count(r)
  PROVE  UndisturbedInv'
<1>1. stage[r] = "count" /\ UNCHANGED <<rows, disturbed>>
  BY DEF D!Count
<1>2. Undisturbed(r) /\ (stage[r] \notin D!Ended) /\ r \in Demo /\ r \notin Seeder
  BY <1>1, ProgramsAssumption
  DEF UndisturbedInv, EndedKeepsNothing, D!Ended, D!Run, D!SeedingAssumption
<1>3. CASE D!Exit(r, "already")
  <2>1. Moves(r, "already", {}, <<>>) /\ "already" \in D!Ended
    BY <1>3 DEF D!Exit, D!Move, Moves, D!Ended
  <2>. QED  BY <1>1, <2>1, AloneEnds
<1>4. CASE D!ReceiptRows = {} /\ D!Move(r, "receipts") /\ UNCHANGED <<pending, todo>>
  <2>1. Moves(r, "receipts", pending[r], todo[r])
    BY <1>4 DEF D!Move, Moves, SeedInv, SeedKinds
  <2>2. stage'[r] = "receipts" /\ pending'[r] = pending[r]
    BY <2>1, OthersKeep DEF SeedInv
  <2>3. NoInvoice
    BY <1>4 DEF NoInvoice, D!Committed, D!ReceiptRows, D!IsReceipt
  <2>4. Undisturbed(r)'
    BY <1>1, <1>2, <1>4, <2>2, <2>3, SameRows DEF Undisturbed
  <2>5. FailsDisturbed(r)' /\ EndedKeepsNothing(r)'
    BY <1>2, <2>2 DEF FailsDisturbed, EndedKeepsNothing, D!Ended
  <2>. QED  BY <1>1, <2>1, <2>4, <2>5, AloneStep
<1>. QED  BY <1>3, <1>4 DEF D!Count

LEMMA NextReceiptAlone ==
  ASSUME SeedInv, UndisturbedInv, NEW r \in D!Run, D!NextReceipt(r)
  PROVE  UndisturbedInv'
<1> DEFINE n == D!Number(r)
           x == D!Invoice(n)
<1>1. /\ stage[r] = "receipts" /\ UNCHANGED <<rows, pending, disturbed>>
      /\ n \in 1 .. Receipts
  BY NumberIsOne DEF D!NextReceipt
<1>2. Undisturbed(r) /\ (stage[r] \notin D!Ended) /\ r \in Demo /\ r \notin Seeder
  BY <1>1, ProgramsAssumption
  DEF UndisturbedInv, EndedKeepsNothing, D!Ended, D!Run, D!SeedingAssumption
<1>3. r \notin disturbed => NoInvoice
  BY <1>1, <1>2 DEF Undisturbed
<1>4. Moves(r, "insert", pending[r], <<x>>)
  BY DEF D!NextReceipt, D!Move, Moves, SeedInv, SeedKinds
<1>5. NoInvoice => x \cap D!Committed = {}
  BY DEF NoInvoice, D!Invoice
<1> HIDE DEF x
<1>6. stage'[r] = "insert" /\ pending'[r] = pending[r] /\ todo'[r] = <<x>>
  BY <1>4, OthersKeep DEF SeedInv
<1>7. NoInvoice => MeetsNothing(r)'
  <2>1. PICK S : S = {x}
    OBVIOUS
  <2>2. NoInvoice => \A y \in S : ~Meets(r, y)'
    BY <1>1, <1>5, <2>1, SameRows DEF Meets
  <2>3. todo'[r] \in Seq(S)
    BY <1>6, <2>1
  <2>. QED  BY <2>2, <2>3 DEF MeetsNothing
<1>8. Undisturbed(r)'
  BY <1>1, <1>2, <1>3, <1>6, <1>7, SameRows DEF Undisturbed
<1>9. FailsDisturbed(r)' /\ EndedKeepsNothing(r)'
  BY <1>2, <1>6 DEF FailsDisturbed, EndedKeepsNothing, D!Ended
<1>. QED  BY <1>1, <1>4, <1>8, <1>9, AloneStep

LEMMA CommitReceiptsAlone ==
  ASSUME SeedInv, UndisturbedInv, NEW r \in D!Run, D!CommitReceipts(r)
  PROVE  UndisturbedInv'
<1>1. /\ rows' = D!Stored(r) /\ D!Disturb(r) /\ Moves(r, "exit 0", {}, <<>>)
  BY DEF D!CommitReceipts, D!Ready, D!Exit, D!Move, Moves
<1>2. disturbed \subseteq disturbed' /\ "exit 0" \in D!Ended
  BY <1>1 DEF D!Disturb, D!Ended
<1>. QED  BY <1>1, <1>2, CommitAdds, AloneEnds

LEMMA KillAlone ==
  ASSUME SeedInv, UndisturbedInv, NEW r \in D!Run, D!Kill(r)
  PROVE  UndisturbedInv'
<1>1. rows' = rows /\ Moves(r, "killed", {}, <<>>)
  BY DEF D!Kill, D!Exit, D!Move, Moves
<1>2. disturbed \subseteq disturbed' /\ "killed" \in D!Ended /\ D!Disturb(r)
  BY DEF D!Kill, D!Disturb, D!Ended
<1>. QED  BY <1>1, <1>2, AloneEnds

LEMMA StartAgainAlone ==
  ASSUME SeedInv, UndisturbedInv, NEW r \in D!Run, D!StartAgain(r)
  PROVE  UndisturbedInv'
<1>1. /\ stage[r] \in D!Ended /\ UNCHANGED <<rows, disturbed>>
      /\ Moves(r, "none", pending[r], todo[r])
  BY DEF D!StartAgain, D!Move, Moves, SeedInv, SeedKinds
<1>2. stage'[r] = "none" /\ pending'[r] = pending[r]
  BY <1>1, OthersKeep DEF SeedInv
<1>3. pending[r] = {}
  BY <1>1 DEF UndisturbedInv, EndedKeepsNothing
<1>4. Undisturbed(r)' /\ FailsDisturbed(r)' /\ EndedKeepsNothing(r)'
  BY <1>2, <1>3 DEF Undisturbed, FailsDisturbed, EndedKeepsNothing, D!Ended
<1>. QED  BY <1>1, <1>4, AloneStep

(* What a user writes disturbs every run.                                   *)
LEMMA UserAlone ==
  ASSUME UndisturbedInv, UNCHANGED <<pending, stage, todo>>, disturbed' = D!Run
  PROVE  UndisturbedInv'
<1> SUFFICES ASSUME NEW r \in D!Run
             PROVE  Undisturbed(r)' /\ FailsDisturbed(r)' /\ EndedKeepsNothing(r)'
  BY DEF UndisturbedInv, D!Run
<1>1. r \in disturbed'
  OBVIOUS
<1>2. Undisturbed(r)' /\ FailsDisturbed(r)'
  BY <1>1 DEF Undisturbed, FailsDisturbed
<1>3. EndedKeepsNothing(r)'
  BY DEF UndisturbedInv, EndedKeepsNothing, D!Ended
<1>. QED  BY <1>2, <1>3

LEMMA NextUndisturbed ==
  ASSUME SeedInv, UndisturbedInv, KeptInv, [D!Next]_D!vars
  PROVE  UndisturbedInv'
<1>1. CASE UNCHANGED D!vars \/ D!Migrate
  BY <1>1, NothingMoves DEF D!vars, D!Migrate
<1>2. ASSUME NEW r \in D!Run, D!Program(r)
      PROVE  UndisturbedInv'
  BY <1>2, InsertAlone, AskAdminAlone, CommitSeedAlone, NextPartnerAlone, SavedAlone,
     CommitPartnersAlone, CountAlone, NextReceiptAlone, CommitReceiptsAlone DEF D!Program
<1>3. ASSUME NEW row \in rows, D!UserDeletes(row)
      PROVE  UndisturbedInv'
  BY <1>3, UserAlone DEF D!UserDeletes
<1>4. ASSUME NEW x, D!UserEnters(x)
      PROVE  UndisturbedInv'
  BY <1>4, UserAlone DEF D!UserEnters
<1>5. ASSUME NEW r \in D!Run, D!Begin(r) \/ D!Kill(r) \/ D!StartAgain(r)
      PROVE  UndisturbedInv'
  BY <1>5, BeginAlone, KillAlone, StartAgainAlone
<1>. QED  BY <1>1, <1>2, <1>3, <1>4, <1>5 DEF D!Next

-----------------------------------------------------------------------------
(* What a run knows is forgotten by its end and changed by nobody else.     *)
LEMMA KeptStays ==
  ASSUME KeptInv, UNCHANGED <<kept, stage>>, disturbed \subseteq disturbed'
  PROVE  KeptInv'
BY DEF KeptInv, D!Run, D!Ended

LEMMA KeptGoesOn ==
  ASSUME SeedInv, KeptInv, NEW r \in D!Run, NEW s, D!Move(r, s), UNCHANGED kept,
         disturbed \ {r} \subseteq disturbed',
         kept[r] = <<>> \/ (s \notin D!Ended /\ disturbed \subseteq disturbed')
  PROVE  KeptInv'
<1>1. stage'[r] = s /\ \A q \in D!Run \ {r} : stage'[q] = stage[q]
  BY DEF D!Move, SeedInv, SeedKinds
<1>2. ASSUME NEW q \in D!Run
      PROVE  /\ kept'[q] \in Seq(BOOLEAN) /\ (stage'[q] \in D!Ended => kept'[q] = <<>>)
             /\ q \notin disturbed' => \A i \in DOMAIN kept'[q] : kept'[q][i]
  BY <1>1 DEF KeptInv
<1>. QED  BY <1>2 DEF KeptInv, D!Run, D!Ended

LEMMA KeptGrows ==
  ASSUME KeptInv, NEW r \in D!Run, D!Keep(r), stage'[r] \notin D!Ended,
         \A q \in D!Run \ {r} : stage'[q] = stage[q], UNCHANGED disturbed
  PROVE  KeptInv'
<1>1. kept'[r] = Append(kept[r], TRUE) /\ \A q \in D!Run \ {r} : kept'[q] = kept[q]
  BY DEF D!Keep, KeptInv
<1>2. /\ kept'[r] \in Seq(BOOLEAN)
      /\ r \notin disturbed => \A i \in DOMAIN kept'[r] : kept'[r][i]
  <2>1. kept[r] \in Seq(BOOLEAN) /\ (r \notin disturbed => \A i \in DOMAIN kept[r] : kept[r][i])
    BY DEF KeptInv
  <2>. QED  BY <1>1, <2>1
<1>3. kept' = [q \in D!Run |-> kept'[q]]
  BY DEF D!Keep, KeptInv
<1>. QED  BY <1>1, <1>2, <1>3 DEF KeptInv, D!Run, D!Ended

LEMMA KeptEnds ==
  ASSUME SeedInv, KeptInv, NEW r \in D!Run, NEW s, D!Exit(r, s),
         disturbed \subseteq disturbed'
  PROVE  KeptInv'
<1>1. /\ kept'[r] = <<>>
      /\ \A q \in D!Run \ {r} : kept'[q] = kept[q] /\ stage'[q] = stage[q]
  BY DEF D!Exit, D!Move, KeptInv, SeedInv, SeedKinds
<1>2. kept' = [q \in D!Run |-> kept'[q]]
  BY DEF D!Exit, KeptInv
<1>3. <<>> \in Seq(BOOLEAN) /\ DOMAIN <<>> = {}
  OBVIOUS
<1>. QED  BY <1>1, <1>2, <1>3 DEF KeptInv, D!Run, D!Ended

LEMMA ProgramKept ==
  ASSUME SeedInv, KeptInv, NEW r \in D!Run, D!Program(r)
  PROVE  KeptInv'
<1>1. CASE D!Insert(r)
  <2>1. \/ D!Exit(r, "exit 1") /\ UNCHANGED disturbed
        \/ D!Disturb(r) /\ UNCHANGED <<stage, kept>>
    BY <1>1 DEF D!Insert
  <2>2. disturbed \subseteq disturbed'
    BY <2>1 DEF D!Disturb
  <2>. QED  BY <2>1, <2>2, KeptEnds, KeptStays
<1>2. CASE D!AskAdmin(r)
  <2>1. UNCHANGED <<kept, disturbed>> /\ (UNCHANGED stage \/ D!Move(r, "commit"))
    BY <1>2 DEF D!AskAdmin
  <2>. QED  BY <2>1, KeptGoesOn, KeptStays DEF D!Ended
<1>3. CASE D!CommitSeed(r) \/ D!CommitReceipts(r)
  <2>1. D!Exit(r, "exit 0") /\ D!Disturb(r)
    BY <1>3 DEF D!CommitSeed, D!CommitReceipts, D!Ready
  <2>. QED  BY <2>1, KeptEnds DEF D!Disturb
<1>4. CASE D!NextPartner(r)
  <2>1. /\ stage[r] = "partners" /\ UNCHANGED disturbed
        /\ (D!Keep(r) /\ UNCHANGED stage) \/ (D!Move(r, "insert") /\ UNCHANGED kept)
    BY <1>4 DEF D!NextPartner
  <2>. QED  BY <2>1, KeptGrows, KeptGoesOn DEF D!Ended
<1>5. CASE D!Saved(r)
  <2>1. /\ UNCHANGED disturbed
        /\ \/ D!Move(r, "partners") /\ D!Keep(r)
           \/ D!Move(r, "receipts") /\ UNCHANGED kept
    BY <1>5 DEF D!Saved
  <2>2. CASE D!Move(r, "partners") /\ D!Keep(r)
    <3>1. stage'[r] = "partners" /\ \A q \in D!Run \ {r} : stage'[q] = stage[q]
      BY <2>2 DEF D!Move, SeedInv, SeedKinds
    <3>. QED  BY <2>1, <2>2, <3>1, KeptGrows DEF D!Ended
  <2>. QED  BY <2>1, <2>2, KeptGoesOn DEF D!Ended
<1>6. CASE D!CommitPartners(r)
  <2>1. D!Move(r, "count") /\ D!Disturb(r) /\ UNCHANGED kept
    BY <1>6 DEF D!CommitPartners
  <2>. QED  BY <2>1, KeptGoesOn DEF D!Disturb, D!Ended
<1>7. CASE D!Count(r)
  <2>1. /\ UNCHANGED disturbed
        /\ D!Exit(r, "already") \/ (D!Move(r, "receipts") /\ UNCHANGED kept)
    BY <1>7 DEF D!Count
  <2>. QED  BY <2>1, KeptEnds, KeptGoesOn DEF D!Ended
<1>8. CASE D!NextReceipt(r)
  BY <1>8, KeptGoesOn DEF D!NextReceipt, D!Ended
<1>. QED  BY <1>1, <1>2, <1>3, <1>4, <1>5, <1>6, <1>7, <1>8 DEF D!Program

LEMMA NextKept ==
  ASSUME SeedInv, KeptInv, [D!Next]_D!vars
  PROVE  KeptInv'
<1>1. CASE UNCHANGED D!vars \/ D!Migrate
  BY <1>1, KeptStays DEF D!vars, D!Migrate
<1>2. ASSUME NEW r \in D!Run, D!Begin(r) \/ D!StartAgain(r)
      PROVE  KeptInv'
  <2>1. /\ stage[r] \in D!Ended /\ UNCHANGED kept /\ disturbed \ {r} \subseteq disturbed'
        /\ \E s : D!Move(r, s)
    BY <1>2 DEF D!Begin, D!StartAgain, D!Ended
  <2>2. kept[r] = <<>>
    BY <2>1 DEF KeptInv
  <2>. QED  BY <2>1, <2>2, KeptGoesOn
<1>3. ASSUME NEW r \in D!Run, D!Kill(r)
      PROVE  KeptInv'
  BY <1>3, KeptEnds DEF D!Kill, D!Disturb
<1>4. ASSUME NEW row \in rows, D!UserDeletes(row)
      PROVE  KeptInv'
  <2>1. /\ disturbed' = D!Run /\ UNCHANGED stage
        /\ kept' = [r \in D!Run |-> [i \in DOMAIN kept[r] |->
                     kept[r][i] /\ row.values # D!PartnerRow(Partners[i])]]
    BY <1>4 DEF D!UserDeletes
  <2>2. ASSUME NEW r \in D!Run
        PROVE  kept'[r] \in Seq(BOOLEAN) /\ (kept[r] = <<>> => kept'[r] = <<>>)
    <3> DEFINE P(i) == kept[r][i] /\ row.values # D!PartnerRow(Partners[i])
    <3>1. kept[r] \in Seq(BOOLEAN) /\ kept'[r] = [i \in DOMAIN kept[r] |-> P(i)]
      BY <2>1 DEF KeptInv
    <3>2. \A i : P(i) \in BOOLEAN
      OBVIOUS
    <3> HIDE DEF P
    <3>3. Len(kept[r]) \in Nat /\ DOMAIN kept[r] = 1 .. Len(kept[r])
      BY <3>1
    <3>4. kept'[r] \in [1 .. Len(kept[r]) -> BOOLEAN]
      BY <3>1, <3>2, <3>3
    <3>5. kept'[r] \in Seq(BOOLEAN) /\ Len(kept'[r]) = Len(kept[r])
      BY <3>3, <3>4
    <3>. QED  BY <3>5
  <2>3. kept' = [r \in D!Run |-> kept'[r]]
    BY <2>1
  <2>. QED  BY <2>1, <2>2, <2>3 DEF KeptInv, D!Run, D!Ended
<1>5. ASSUME NEW x, D!UserEnters(x)
      PROVE  KeptInv'
  <2>1. UNCHANGED <<kept, stage>> /\ disturbed' = D!Run
    BY <1>5 DEF D!UserEnters
  <2>. QED  BY <2>1 DEF KeptInv, D!Run, D!Ended
<1>. QED  BY <1>1, <1>2, <1>3, <1>4, <1>5, ProgramKept DEF D!Next

LEMMA InitKept == D!Init => KeptInv
<1>1. <<>> \in Seq(BOOLEAN) /\ DOMAIN <<>> = {}
  OBVIOUS
<1>. QED  BY <1>1 DEF D!Init, KeptInv

LEMMA InitUndisturbed == D!Init => UndisturbedInv
BY DEF D!Init, UndisturbedInv, Undisturbed, FailsDisturbed, EndedKeepsNothing, D!Ended

(* seed.py:25: a run next to which nobody else writes does not fail,        *)
(* whatever units there are and whatever a run that was stopped left        *)
(* behind; only demo_seed fails on a unit made by hand.                     *)
THEOREM NobodyFailsAlone == AllSpec => []NoneFailsAlone
<1>1. AllInit => SeedInv /\ UndisturbedInv /\ KeptInv
  BY InitSeed, InitUndisturbed, InitKept DEF AllInit
<1>2. SeedInv /\ UndisturbedInv /\ KeptInv /\ [AllNext]_allVars
        => (SeedInv /\ UndisturbedInv /\ KeptInv)'
  <2> SUFFICES ASSUME SeedInv, UndisturbedInv, KeptInv, [AllNext]_allVars
               PROVE  SeedInv' /\ UndisturbedInv' /\ KeptInv'
    OBVIOUS
  <2>1. [D!Next]_D!vars
    BY AllStep
  <2>. QED  BY <2>1, NextSeed, NextUndisturbed, NextKept
<1>3. UndisturbedInv => NoneFailsAlone
  BY DEF UndisturbedInv, FailsDisturbed, ByHand, NoneFailsAlone, D!NoneFailsAlone
<1>. QED  BY <1>1, <1>2, <1>3, PTL DEF AllSpec

=============================================================================
