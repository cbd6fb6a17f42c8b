----------------------------- MODULE FoldTheorems ----------------------------
(***************************************************************************)
(* What the proofs need of numbers, of parts put together and of sums:     *)
(* the induction is done here once, over sets of numbers or of subsets,    *)
(* and the tables that recursive definitions choose are shown to exist.    *)
(***************************************************************************)
EXTENDS Integers, SequenceTheorems, FiniteSetTheorems, WellFoundedInduction, TLAPS

-----------------------------------------------------------------------------
(* Every number is in a set that holds 0 and, with each number, the next.   *)
LEMMA AllNumbers ==
  ASSUME NEW G \in SUBSET Nat, 0 \in G, \A n \in G : n + 1 \in G
  PROVE  G = Nat
<1> DEFINE B == Nat \ G
<1>1. SUFFICES ASSUME B # {} PROVE FALSE
  OBVIOUS
<1>2. PICK n \in B : \A m \in B : ~(<<m, n>> \in OpToRel(<, Nat))
  <2>1. B \subseteq Nat
    OBVIOUS
  <2> HIDE DEF B
  <2>. QED  BY <1>1, <2>1, WFMin, NatLessThanWellFounded
<1>3. \A m \in B : ~(m < n)
  BY <1>2 DEF OpToRel
<1>4. n \in Nat /\ n \notin G /\ n # 0
  OBVIOUS
<1> HIDE DEF B
<1>5. n - 1 \in Nat /\ n - 1 < n /\ (n - 1) + 1 = n
  BY <1>4
<1>6. n - 1 \in G
  BY <1>3, <1>5 DEF B
<1>7. (n - 1) + 1 \in G
  BY <1>6
<1>. QED  BY <1>4, <1>7, <1>5

(* Numbers have a least one; those up to n have a greatest one.             *)
LEMMA Least ==
  ASSUME NEW K \in SUBSET Nat, K # {}
  PROVE  \E k \in K : \A j \in K : k <= j
<1>1. PICK k \in K : \A j \in K : ~(<<j, k>> \in OpToRel(<, Nat))
  BY WFMin, NatLessThanWellFounded
<1>2. \A j \in K : ~(j < k)
  BY <1>1 DEF OpToRel
<1>. QED  BY <1>2

LEMMA Greatest ==
  ASSUME NEW n \in Nat, NEW K \in SUBSET (1 .. n), K # {}
  PROVE  \E k \in K : \A j \in K : k >= j
<1> DEFINE M == {n - k : k \in K}
<1>1. M \in SUBSET Nat /\ M # {}
  <2>1. \A k \in K : k \in Nat /\ n - k \in Nat
    OBVIOUS
  <2>2. PICK k \in K : TRUE
    OBVIOUS
  <2>3. n - k \in M
    OBVIOUS
  <2>. QED  BY <2>1, <2>3
<1>2. PICK m \in M : \A j \in M : m <= j
  <2> HIDE DEF M
  <2>. QED  BY <1>1, Least
<1>3. PICK k \in K : m = n - k
  OBVIOUS
<1>4. ASSUME NEW j \in K
      PROVE  k >= j
  <2>1. n - k <= n - j
    BY <1>2, <1>3
  <2>2. j \in Nat /\ k \in Nat
    OBVIOUS
  <2>. QED  BY <2>1, <2>2
<1>. QED  BY <1>4

(* The parts of a sequence put together up to the last of n.                    *)
IsFlat(f, parts, n) ==
  f = [i \in 1 .. n |-> IF i = 1 THEN parts[i] ELSE f[i - 1] \o parts[i]]

LEMMA FlatExists ==
  ASSUME NEW parts
  PROVE  \A n \in Nat : \E f : IsFlat(f, parts, n)
<1> DEFINE G == {n \in Nat : \E f : IsFlat(f, parts, n)}
<1>1. 0 \in G
  <2> DEFINE f == [i \in 1 .. 0 |-> <<>>]
  <2>1. IsFlat(f, parts, 0)
    BY DEF IsFlat
  <2>. QED  BY <2>1
<1>2. ASSUME NEW n \in G
      PROVE  n + 1 \in G
  <2>1. PICK f : IsFlat(f, parts, n)
    OBVIOUS
  <2> DEFINE last == IF n = 0 THEN parts[1] ELSE f[n] \o parts[n + 1]
             g == [i \in 1 .. n + 1 |-> IF i = n + 1 THEN last ELSE f[i]]
  <2>2. ASSUME NEW i \in 1 .. n + 1
        PROVE  g[i] = IF i = 1 THEN parts[i] ELSE g[i - 1] \o parts[i]
    <3>1. CASE i = n + 1 /\ n = 0
      BY <3>1
    <3>2. CASE i = n + 1 /\ n # 0
      <4>1. /\ n \in Nat \ {0} /\ i # 1 /\ i - 1 = n
            /\ i - 1 \in 1 .. n + 1 /\ i - 1 # n + 1
        BY <3>2
      <4>2. g[i] = f[n] \o parts[i]
        BY <3>2
      <4>3. g[i - 1] = f[i - 1]
        BY <4>1
      <4>. QED  BY <4>1, <4>2, <4>3
    <3>3. CASE i \in 1 .. n
      <4>1. f[i] = IF i = 1 THEN parts[i] ELSE f[i - 1] \o parts[i]
        BY <2>1, <3>3 DEF IsFlat
      <4>2. g[i] = f[i] /\ (i # 1 => g[i - 1] = f[i - 1])
        BY <3>3
      <4>. QED  BY <4>1, <4>2
    <3>. QED  BY <3>1, <3>2, <3>3
  <2>3. g = [i \in 1 .. n + 1 |-> g[i]]
    OBVIOUS
  <2> HIDE DEF g
  <2>4. g = [i \in 1 .. n + 1 |-> IF i = 1 THEN parts[i] ELSE g[i - 1] \o parts[i]]
    BY <2>2, <2>3
  <2>5. IsFlat(g, parts, n + 1)
    BY <2>4 DEF IsFlat
  <2>. QED  BY <2>5
<1>3. G = Nat
  <2> HIDE DEF G
  <2>1. G \in SUBSET Nat
    BY DEF G
  <2>. QED  BY <1>1, <1>2, <2>1, AllNumbers
<1>. QED  BY <1>3

LEMMA FlatIsSeq ==
  ASSUME NEW Q, NEW n \in Nat, NEW parts, \A i \in 1 .. n : parts[i] \in Seq(Q),
         NEW f, IsFlat(f, parts, n)
  PROVE  \A i \in 1 .. n : f[i] \in Seq(Q)
<1> DEFINE G == {i \in Nat : i \in 1 .. n => f[i] \in Seq(Q)}
<1>1. 0 \in G
  OBVIOUS
<1>2. ASSUME NEW i \in G
      PROVE  i + 1 \in G
  <2>1. ASSUME i + 1 \in 1 .. n
        PROVE  f[i + 1] \in Seq(Q)
    <3>1. f[i + 1] = IF i + 1 = 1 THEN parts[i + 1] ELSE f[(i + 1) - 1] \o parts[i + 1]
      BY <2>1 DEF IsFlat
    <3>2. CASE i = 0
      BY <2>1, <3>1, <3>2
    <3>3. CASE i # 0
      <4>1. (i + 1) - 1 = i /\ i \in 1 .. n /\ i + 1 # 1
        BY <2>1, <3>3
      <4>2. f[i] \in Seq(Q) /\ parts[i + 1] \in Seq(Q)
        BY <2>1, <4>1
      <4>. QED  BY <3>1, <4>1, <4>2
    <3>. QED  BY <3>2, <3>3
  <2>. QED  BY <2>1
<1>3. G = Nat
  <2>1. G \in SUBSET Nat
    OBVIOUS
  <2> HIDE DEF G
  <2>. QED  BY <1>1, <1>2, <2>1, AllNumbers
<1>. QED  BY <1>3

(* A set of subsets that holds the empty one and grows by any element holds *)
(* every subset of a finite set.                                            *)
LEMMA AllSubsets ==
  ASSUME NEW All, IsFiniteSet(All), NEW G \in SUBSET (SUBSET All), {} \in G,
         \A t \in G : \A x \in All : t \cup {x} \in G
  PROVE  G = SUBSET All
<1> DEFINE N == {n \in Nat : \A t \in SUBSET All : Cardinality(t) = n => t \in G}
<1>1. \A t \in SUBSET All : IsFiniteSet(t) /\ Cardinality(t) \in Nat
  BY FS_Subset, FS_CardinalityType
<1>2. 0 \in N
  BY <1>1, FS_EmptySet
<1>3. ASSUME NEW n \in N
      PROVE  n + 1 \in N
  <2>1. ASSUME NEW t \in SUBSET All, Cardinality(t) = n + 1
        PROVE  t \in G
    <3>1. n \in Nat /\ Cardinality(t) # 0
      BY <2>1
    <3>2. PICK x \in t : TRUE
      BY <3>1, FS_EmptySet
    <3>3. t \ {x} \in SUBSET All /\ Cardinality(t \ {x}) = (n + 1) - 1
      BY <1>1, <2>1, FS_RemoveElement
    <3>4. t \ {x} \in G
      BY <3>1, <3>3
    <3>5. (t \ {x}) \cup {x} = t /\ x \in All
      BY <3>2
    <3>. QED  BY <3>4, <3>5
  <2>. QED  BY <2>1
<1>4. N = Nat
  <2>1. N \in SUBSET Nat
    OBVIOUS
  <2> HIDE DEF N
  <2>. QED  BY <1>2, <1>3, <2>1, AllNumbers
<1>. QED  BY <1>1, <1>4

(* A table of the sums of the numbers g over the subsets of All: as the       *)
(* library adds them, and in any order.                                     *)
Picked(s) == CHOOSE x \in s : TRUE

Sums(f, g, D) ==
  f = [s \in D |-> IF s = {} THEN 0 ELSE g[Picked(s)] + f[s \ {Picked(s)}]]

InAnyOrder(f, g, All) ==
  /\ f \in [SUBSET All -> Nat] /\ f[{}] = 0
  /\ \A s \in SUBSET All : \A x \in s : f[s] = g[x] + f[s \ {x}]

Small(All, n) == {t \in SUBSET All : Cardinality(t) <= n}

LEMMA SumsExist ==
  ASSUME NEW All, IsFiniteSet(All), NEW g
  PROVE  \E f : Sums(f, g, SUBSET All)
<1> DEFINE G == {n \in Nat : \E f : Sums(f, g, Small(All, n))}
<1>1. \A t \in SUBSET All : IsFiniteSet(t) /\ Cardinality(t) \in Nat
  BY FS_Subset, FS_CardinalityType
<1>2. 0 \in G
  <2> DEFINE f == [s \in Small(All, 0) |-> 0]
  <2>1. \A s \in Small(All, 0) : s = {}
    BY <1>1, FS_EmptySet DEF Small
  <2>2. Sums(f, g, Small(All, 0))
    BY <2>1 DEF Sums
  <2>. QED  BY <2>2
<1>3. ASSUME NEW n \in G
      PROVE  n + 1 \in G
  <2>1. PICK f : Sums(f, g, Small(All, n))
    OBVIOUS
  <2> DEFINE next(s) == IF s = {} THEN 0 ELSE g[Picked(s)] + f[s \ {Picked(s)}]
             h == [s \in Small(All, n + 1) |-> IF s \in Small(All, n) THEN f[s] ELSE next(s)]
  <2>2. ASSUME NEW s \in Small(All, n + 1)
        PROVE  /\ h[s] = next(s)
               /\ s # {} => /\ s \ {Picked(s)} \in Small(All, n + 1)
                            /\ h[s \ {Picked(s)}] = f[s \ {Picked(s)}]
    <3>1. h[s] = next(s)
      BY <2>1 DEF Sums
    <3>2. ASSUME s # {}
          PROVE  s \ {Picked(s)} \in Small(All, n) /\ s \ {Picked(s)} \in Small(All, n + 1)
      <4>1. Picked(s) \in s
        BY <3>2 DEF Picked
      <4>2. s \ {Picked(s)} \in SUBSET All /\ Cardinality(s \ {Picked(s)}) = Cardinality(s) - 1
        BY <1>1, <4>1, FS_RemoveElement DEF Small
      <4>3. Cardinality(s) \in Nat /\ Cardinality(s) <= n + 1 /\ n \in Nat
        BY <1>1 DEF Small
      <4>. QED  BY <4>2, <4>3 DEF Small
    <3>. QED  BY <3>1, <3>2
  <2>3. h = [s \in Small(All, n + 1) |-> h[s]]
    OBVIOUS
  <2>4. \A s \in Small(All, n + 1) :
          h[s] = IF s = {} THEN 0 ELSE g[Picked(s)] + h[s \ {Picked(s)}]
    BY <2>2
  <2> HIDE DEF h
  <2>5. Sums(h, g, Small(All, n + 1))
    BY <2>3, <2>4 DEF Sums
  <2>. QED  BY <2>5
<1>4. G = Nat
  <2>1. G \in SUBSET Nat
    OBVIOUS
  <2> HIDE DEF G
  <2>. QED  BY <1>2, <1>3, <2>1, AllNumbers
<1>5. Small(All, Cardinality(All)) = SUBSET All /\ Cardinality(All) \in Nat
  BY <1>1, FS_Subset DEF Small
<1>6. PICK f : Sums(f, g, Small(All, Cardinality(All)))
  <2>1. Cardinality(All) \in G
    BY <1>4, <1>5
  <2>. QED  BY <2>1
<1>. QED  BY <1>5, <1>6

LEMMA OrderDoesNotMatter ==
  ASSUME NEW All, IsFiniteSet(All), NEW g \in [All -> Nat], NEW f, Sums(f, g, SUBSET All)
  PROVE  InAnyOrder(f, g, All)
<1> DEFINE Any(s) == f[s] \in Nat /\ \A x \in s : f[s] = g[x] + f[s \ {x}]
           G == {n \in Nat : \A s \in SUBSET All : Cardinality(s) <= n => Any(s)}
<1>1. \A t \in SUBSET All : IsFiniteSet(t) /\ Cardinality(t) \in Nat
  BY FS_Subset, FS_CardinalityType
<1>2. /\ f[{}] = 0
      /\ \A s \in SUBSET All : s # {} =>
           Picked(s) \in s /\ f[s] = g[Picked(s)] + f[s \ {Picked(s)}]
  BY DEF Sums, Picked
<1>3. 0 \in G
  <2>1. ASSUME NEW s \in SUBSET All, Cardinality(s) <= 0
        PROVE  Any(s)
    <3>1. IsFiniteSet(s) /\ Cardinality(s) = 0
      BY <1>1, <2>1
    <3>2. s = {}
      BY <3>1, FS_EmptySet
    <3>. QED  BY <1>2, <3>2
  <2>. QED  BY <2>1
<1>4. ASSUME NEW n \in G
      PROVE  n + 1 \in G
  <2>1. n \in Nat /\ \A s \in SUBSET All : Cardinality(s) <= n => Any(s)
    OBVIOUS
  <2>2. ASSUME NEW s \in SUBSET All, Cardinality(s) = n + 1
        PROVE  Any(s)
    <3>1. s # {}
      <4>1. n + 1 # 0
        BY <2>1
      <4>. QED  BY <2>2, <4>1, FS_EmptySet
    <3>2. ASSUME NEW x \in s
          PROVE  s \ {x} \in SUBSET All /\ Cardinality(s \ {x}) <= n
      BY <1>1, <2>1, <2>2, FS_RemoveElement
    <3>3. ASSUME NEW x \in s
          PROVE  f[s \ {x}] \in Nat /\ \A y \in s \ {x} : f[s \ {x}] = g[y] + f[(s \ {x}) \ {y}]
      BY <2>1, <3>2
    <3> DEFINE c == Picked(s)
    <3>4. c \in s /\ f[s] = g[c] + f[s \ {c}] /\ g[c] \in Nat
      BY <1>2, <3>1
    <3> HIDE DEF c
    <3>5. f[s] \in Nat
      <4>1. f[s \ {c}] \in Nat
        BY <3>3, <3>4
      <4>. QED  BY <3>4, <4>1
    <3>6. ASSUME NEW x \in s, x # c
          PROVE  f[s] = g[x] + f[s \ {x}]
      <4> DEFINE rest == (s \ {c}) \ {x}
      <4>1. f[s \ {c}] = g[x] + f[rest]
        BY <3>3, <3>4, <3>6
      <4>2. (s \ {x}) \ {c} = rest
        OBVIOUS
      <4>3. f[s \ {x}] = g[c] + f[rest]
        <5>1. f[s \ {x}] = g[c] + f[(s \ {x}) \ {c}]
          BY <3>3, <3>4, <3>6
        <5>. QED  BY <4>2, <5>1
      <4>4. f[rest] \in Nat
        <5>1. rest \in SUBSET All /\ Cardinality(rest) <= Cardinality(s \ {c})
          <6>1. rest \in SUBSET (s \ {c}) /\ s \ {c} \in SUBSET All
            OBVIOUS
          <6>. QED  BY <1>1, <6>1, FS_Subset
        <5>2. Cardinality(rest) <= n
          BY <1>1, <2>1, <3>2, <3>4, <5>1
        <5>. QED  BY <2>1, <5>1, <5>2
      <4>5. g[x] \in Nat
        OBVIOUS
      <4> HIDE DEF rest
      <4>. QED  BY <3>4, <4>1, <4>3, <4>4, <4>5
    <3>. QED  BY <3>4, <3>5, <3>6
  <2>3. ASSUME NEW s \in SUBSET All, Cardinality(s) <= n + 1
        PROVE  Any(s)
    <3>1. Cardinality(s) <= n \/ Cardinality(s) = n + 1
      BY <1>1, <2>1, <2>3
    <3>. QED  BY <2>1, <2>2, <3>1
  <2> HIDE DEF Any
  <2>. QED  BY <2>1, <2>3
<1>5. G = Nat
  <2>1. G \in SUBSET Nat
    OBVIOUS
  <2> HIDE DEF G
  <2>. QED  BY <1>3, <1>4, <2>1, AllNumbers
<1>6. ASSUME NEW s \in SUBSET All
      PROVE  Any(s)
  <2>1. Cardinality(s) \in G /\ Cardinality(s) <= Cardinality(s)
    BY <1>1, <1>5
  <2>. QED  BY <2>1
<1>7. f = [s \in SUBSET All |-> f[s]]
  BY DEF Sums
<1>. QED  BY <1>2, <1>6, <1>7 DEF InAnyOrder

(* A sum carried over to the images of what is added, one for each.         *)
OneForEach(h, D, image) ==
  image = {h[x] : x \in D} /\ \A x, y \in D : h[x] = h[y] => x = y

LEMMA SumOfImage ==
  ASSUME NEW All, NEW D \in SUBSET All, IsFiniteSet(D),
         NEW f, NEW g, InAnyOrder(f, g, All),
         NEW h, NEW image, OneForEach(h, D, image),
         NEW k, NEW e, InAnyOrder(k, e, image), \A x \in D : e[h[x]] = g[x]
  PROVE  k[image] = f[D]
<1> USE DEF OneForEach
<1> DEFINE of(t) == {h[x] : x \in t}
           G == {t \in SUBSET D : k[of(t)] = f[t]}
<1>1. {} \in G
  <2>1. of({}) = {}
    OBVIOUS
  <2> HIDE DEF of
  <2>. QED  BY <2>1 DEF InAnyOrder
<1>2. ASSUME NEW t \in G, NEW x \in D
      PROVE  t \cup {x} \in G
  <2>1. CASE x \in t
    <3>1. t \cup {x} = t
      BY <2>1
    <3>. QED  BY <3>1
  <2>2. CASE x \notin t
    <3>1. t \cup {x} \in SUBSET All /\ (t \cup {x}) \ {x} = t
      BY <2>2
    <3>2. f[t \cup {x}] = g[x] + f[t]
      <4>1. f[t \cup {x}] = g[x] + f[(t \cup {x}) \ {x}]
        BY <3>1 DEF InAnyOrder
      <4>. QED  BY <3>1, <4>1
    <3>3. /\ of(t \cup {x}) \in SUBSET image /\ h[x] \in of(t \cup {x})
          /\ of(t \cup {x}) \ {h[x]} = of(t)
      BY <2>2
    <3>4. k[of(t \cup {x})] = e[h[x]] + k[of(t)]
      <4> HIDE DEF of
      <4>1. k[of(t \cup {x})] = e[h[x]] + k[of(t \cup {x}) \ {h[x]}]
        BY <3>3 DEF InAnyOrder, of
      <4>. QED  BY <3>3, <4>1
    <3>5. k[of(t)] = f[t] /\ t \cup {x} \in SUBSET D
      OBVIOUS
    <3> HIDE DEF of
    <3>. QED  BY <3>2, <3>4, <3>5
  <2>. QED  BY <2>1, <2>2
<1>3. G = SUBSET D
  <2>1. G \in SUBSET (SUBSET D)
    OBVIOUS
  <2> HIDE DEF G
  <2>. QED  BY <1>1, <1>2, <2>1, AllSubsets
<1>. QED  BY <1>3

(* The sum over two sets that share nothing, and over many.                 *)
LEMMA SumOfTwo ==
  ASSUME NEW All, IsFiniteSet(All), NEW f, NEW g, InAnyOrder(f, g, All),
         g \in [All -> Nat],
         NEW a \in SUBSET All, NEW b \in SUBSET All, a \cap b = {}
  PROVE  f[a \cup b] = f[a] + f[b]
<1> DEFINE G == {t \in SUBSET b : f[a \cup t] = f[a] + f[t]}
<1>1. {} \in G
  <2>1. a \cup {} = a /\ f[{}] = 0 /\ f[a] \in Nat
    BY DEF InAnyOrder
  <2>. QED  BY <2>1
<1>2. ASSUME NEW t \in G, NEW x \in b
      PROVE  t \cup {x} \in G
  <2>1. CASE x \in t
    <3>1. t \cup {x} = t
      BY <2>1
    <3>. QED  BY <3>1
  <2>2. CASE x \notin t
    <3>1. /\ t \cup {x} \in SUBSET All /\ (t \cup {x}) \ {x} = t
          /\ a \cup (t \cup {x}) \in SUBSET All
          /\ (a \cup (t \cup {x})) \ {x} = a \cup t
          /\ t \in SUBSET All
      BY <2>2
    <3>2. f[t \cup {x}] = g[x] + f[t]
      <4>1. f[t \cup {x}] = g[x] + f[(t \cup {x}) \ {x}]
        BY <3>1 DEF InAnyOrder
      <4>. QED  BY <3>1, <4>1
    <3>3. f[a \cup (t \cup {x})] = g[x] + f[a \cup t]
      <4>1. f[a \cup (t \cup {x})] = g[x] + f[(a \cup (t \cup {x})) \ {x}]
        BY <3>1 DEF InAnyOrder
      <4>. QED  BY <3>1, <4>1
    <3>4. f[a \cup t] = f[a] + f[t] /\ t \cup {x} \in SUBSET b
      OBVIOUS
    <3>5. f[a] \in Nat /\ f[t] \in Nat /\ g[x] \in Nat
      BY <3>1 DEF InAnyOrder
    <3>6. f[a \cup (t \cup {x})] = f[a] + f[t \cup {x}]
      BY <3>2, <3>3, <3>4, <3>5
    <3>. QED  BY <3>4, <3>6
  <2>. QED  BY <2>1, <2>2
<1>3. G = SUBSET b
  <2>1. G \in SUBSET (SUBSET b) /\ IsFiniteSet(b)
    BY FS_Subset
  <2> HIDE DEF G
  <2>. QED  BY <1>1, <1>2, <2>1, AllSubsets
<1>. QED  BY <1>3

LEMMA SumOfParts ==
  ASSUME NEW All, IsFiniteSet(All), NEW f, NEW g, InAnyOrder(f, g, All),
         g \in [All -> Nat],
         NEW D, IsFiniteSet(D), NEW part \in [D -> SUBSET All],
         \A x, y \in D : x # y => part[x] \cap part[y] = {},
         NEW k, InAnyOrder(k, [x \in D |-> f[part[x]]], D)
  PROVE  k[D] = f[UNION {part[x] : x \in D}]
<1> DEFINE union(t) == UNION {part[x] : x \in t}
           G == {t \in SUBSET D : k[t] = f[union(t)]}
<1>1. {} \in G
  <2>1. union({}) = {}
    OBVIOUS
  <2> HIDE DEF union
  <2>. QED  BY <2>1 DEF InAnyOrder
<1>2. ASSUME NEW t \in G, NEW x \in D
      PROVE  t \cup {x} \in G
  <2>1. CASE x \in t
    <3>1. t \cup {x} = t
      BY <2>1
    <3>. QED  BY <3>1
  <2>2. CASE x \notin t
    <3>1. t \cup {x} \in SUBSET D /\ (t \cup {x}) \ {x} = t
      BY <2>2
    <3>2. k[t \cup {x}] = f[part[x]] + k[t]
      <4>1. k[t \cup {x}] = [y \in D |-> f[part[y]]][x] + k[(t \cup {x}) \ {x}]
        BY <3>1 DEF InAnyOrder
      <4>. QED  BY <3>1, <4>1
    <3>3. /\ union(t \cup {x}) = part[x] \cup union(t)
          /\ union(t) \in SUBSET All /\ part[x] \in SUBSET All
      OBVIOUS
    <3>4. part[x] \cap union(t) = {}
      BY <2>2
    <3>5. k[t] = f[union(t)]
      OBVIOUS
    <3> HIDE DEF union
    <3>6. f[part[x] \cup union(t)] = f[part[x]] + f[union(t)]
      <4> DEFINE a == part[x]  b == union(t)
      <4>1. a \in SUBSET All /\ b \in SUBSET All /\ a \cap b = {}
        BY <3>3, <3>4
      <4> HIDE DEF a, b, G
      <4>2. f[a \cup b] = f[a] + f[b]
        BY <4>1, SumOfTwo
      <4>. QED  BY <4>2 DEF a, b
    <3>. QED  BY <3>1, <3>2, <3>3, <3>5, <3>6
  <2>. QED  BY <2>1, <2>2
<1>3. G = SUBSET D
  <2>1. G \in SUBSET (SUBSET D)
    OBVIOUS
  <2> HIDE DEF G
  <2>. QED  BY <1>1, <1>2, <2>1, AllSubsets
<1>. QED  BY <1>3

LEMMA ImageIsFinite ==
  ASSUME NEW D, IsFiniteSet(D), NEW h, NEW image, OneForEach(h, D, image)
  PROVE  IsFiniteSet(image)
<1> DEFINE m == [x \in D |-> h[x]]
<1>1. m \in Surjection(D, image)
  BY DEF OneForEach, Surjection
<1> HIDE DEF m
<1>. QED  BY <1>1, FS_Surjection

=============================================================================
