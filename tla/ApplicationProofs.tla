-------------------------- MODULE ApplicationProofs --------------------------
(* The checksum of an INN, the sessions, the list of receipts, the stored   *)
(* items, the texts of the forms and the report: proved for any number of   *)
(* browsers, accounts, readers and requests, any limits of the columns and  *)
(* any texts.                                                               *)
EXTENDS Application, FoldTheorems

-----------------------------------------------------------------------------
(* No weight is a multiple of 11, so replacing a digit changes the         *)
(* remainder: k is added to the sum w times.                               *)
LEMMA Remainder ==
  ASSUME NEW s \in Int, NEW t \in Int, NEW w \in 2..10, NEW k \in (-9)..9, k # 0,
         t = s + w * k, Control(s) = Control(t)
  PROVE  /\ (s % 11 = 0 /\ t % 11 = 10) \/ (s % 11 = 10 /\ t % 11 = 0)
         /\ Control(s) = 0
<1>1. /\ s % 11 \in 0..10 /\ t % 11 \in 0..10
      /\ s = 11 * (s \div 11) + (s % 11) /\ t = 11 * (t \div 11) + (t % 11)
  OBVIOUS
<1>2. s % 11 # t % 11
  <2>1. SUFFICES ASSUME s % 11 = t % 11 PROVE FALSE
    OBVIOUS
  <2>2. w * k = 11 * (t \div 11 - s \div 11)
    BY <1>1, <2>1
  <2>3. w = 2 \/ w = 3 \/ w = 4 \/ w = 5 \/ w = 6 \/ w = 7 \/ w = 8 \/ w = 9 \/ w = 10
    OBVIOUS
  <2>4. PICK m \in Int : w * k = 11 * m
    BY <2>2
  <2> QED
    BY <2>3, <2>4
<1>3. Control(s) = (s % 11) % 10 /\ Control(t) = (t % 11) % 10
  BY DEF Control
<1> QED
  BY <1>1, <1>2, <1>3

(* The weights of the three sums, by position. *)
Weight10 == <<2, 4, 10, 3, 5, 9, 4, 6, 8>>
Weight11 == <<7, 2, 4, 10, 3, 5, 9, 4, 6, 8>>
Weight12 == <<3, 7, 2, 4, 10, 3, 5, 9, 4, 6, 8>>

(* So a replaced digit that is not noticed changes the sum by one, modulo 11. *)
LEMMA OneApart ==
  ASSUME NEW s \in Int, NEW t \in Int, NEW w \in 2..10, NEW k \in (-9)..9, k # 0,
         t = s + w * k, Control(s) = Control(t)
  PROVE  \E m \in Int : w * k = 11 * m + 1 \/ w * k = 11 * m - 1
<1>1. PICK a \in Int, b \in Int : s = 11 * a + (s % 11) /\ t = 11 * b + (t % 11)
  <2>1. s = 11 * (s \div 11) + (s % 11) /\ t = 11 * (t \div 11) + (t % 11)
    OBVIOUS
  <2> QED
    BY <2>1
<1>2. CASE s % 11 = 0 /\ t % 11 = 10
  <2>1. b - a + 1 \in Int /\ w * k = 11 * (b - a + 1) - 1
    BY <1>1, <1>2
  <2> QED
    BY <2>1
<1>3. CASE s % 11 = 10 /\ t % 11 = 0
  <2>1. b - a - 1 \in Int /\ w * k = 11 * (b - a - 1) + 1
    BY <1>1, <1>3
  <2> QED
    BY <2>1
<1> QED
  BY <1>2, <1>3, Remainder

(* A digit replaced before the control digit changes the sum by its weight. *)
LEMMA Change10 ==
  ASSUME NEW d \in [1..10 -> Digit], NEW i \in 1..9, NEW e \in Digit
  PROVE  LET c == [d EXCEPT ![i] = e]
         IN /\ Sum10(d) \in Int /\ Sum10(c) \in Int
            /\ Sum10(c) = Sum10(d) + Weight10[i] * (e - d[i])
            /\ Weight10[i] \in 2..10
<1> DEFINE c == [d EXCEPT ![i] = e]
<1>1. /\ e \in Int /\ c[i] = e
      /\ \A j \in 1..9 : d[j] \in Int /\ c[j] \in Int /\ (j # i => c[j] = d[j])
  BY DEF Digit
<1> HIDE DEF c
<1>2. /\ e \in Int /\ c[i] = e
      /\ d[1] \in Int /\ d[2] \in Int /\ d[3] \in Int /\ d[4] \in Int
      /\ d[5] \in Int /\ d[6] \in Int /\ d[7] \in Int /\ d[8] \in Int
      /\ d[9] \in Int
      /\ c[1] \in Int /\ c[2] \in Int /\ c[3] \in Int /\ c[4] \in Int
      /\ c[5] \in Int /\ c[6] \in Int /\ c[7] \in Int /\ c[8] \in Int
      /\ c[9] \in Int
      /\ (i # 1 => c[1] = d[1]) /\ (i # 2 => c[2] = d[2])
      /\ (i # 3 => c[3] = d[3]) /\ (i # 4 => c[4] = d[4])
      /\ (i # 5 => c[5] = d[5]) /\ (i # 6 => c[6] = d[6])
      /\ (i # 7 => c[7] = d[7]) /\ (i # 8 => c[8] = d[8])
      /\ (i # 9 => c[9] = d[9])
  BY <1>1
<1>3. Sum10(d) \in Int /\ Sum10(c) \in Int
  <2> SUFFICES ASSUME NEW f, \A j \in 1..9 : f[j] \in Int PROVE Sum10(f) \in Int
    BY <1>1
  <2>1. /\ f[1] \in Int /\ f[2] \in Int /\ f[3] \in Int /\ f[4] \in Int /\ f[5] \in Int
        /\ f[6] \in Int /\ f[7] \in Int /\ f[8] \in Int /\ f[9] \in Int
    OBVIOUS
  <2>2. 2*f[1] + 4*f[2] + 10*f[3] + 3*f[4] + 5*f[5] + 9*f[6] \in Int
    BY <2>1
  <2>3. 2*f[1] + 4*f[2] + 10*f[3] + 3*f[4] + 5*f[5] + 9*f[6] + 4*f[7] + 6*f[8] + 8*f[9] \in Int
    BY <2>1, <2>2
  <2> QED
    BY <2>3 DEF Sum10
<1>4. /\ Sum10(c) = Sum10(d) + Weight10[i] * (e - d[i])
      /\ Weight10[i] \in 2..10
  <2>1. CASE i = 1
    <3>1. Weight10[i] = 2
      BY <2>1 DEF Weight10
    <3>2. Sum10(c) - 2 * e = Sum10(d) - 2 * d[1]
      <4>1. /\ c[1] = e /\ e \in Int /\ d[1] \in Int
            /\ c[2] = d[2] /\ d[2] \in Int /\ c[3] = d[3] /\ d[3] \in Int
            /\ c[4] = d[4] /\ d[4] \in Int /\ c[5] = d[5] /\ d[5] \in Int
            /\ c[6] = d[6] /\ d[6] \in Int /\ c[7] = d[7] /\ d[7] \in Int
            /\ c[8] = d[8] /\ d[8] \in Int /\ c[9] = d[9] /\ d[9] \in Int
        BY <1>2, <2>1
      <4> QED
        BY <4>1, SMTT(60) DEF Sum10
    <3>3. Sum10(c) = Sum10(d) + 2 * (e - d[i])
      BY <1>2, <1>3, <2>1, <3>2
    <3> QED
      BY <3>1, <3>3
  <2>2. CASE i = 2
    <3>1. Weight10[i] = 4
      BY <2>2 DEF Weight10
    <3>2. Sum10(c) - 4 * e = Sum10(d) - 4 * d[2]
      <4>1. /\ c[2] = e /\ e \in Int /\ d[2] \in Int
            /\ c[1] = d[1] /\ d[1] \in Int /\ c[3] = d[3] /\ d[3] \in Int
            /\ c[4] = d[4] /\ d[4] \in Int /\ c[5] = d[5] /\ d[5] \in Int
            /\ c[6] = d[6] /\ d[6] \in Int /\ c[7] = d[7] /\ d[7] \in Int
            /\ c[8] = d[8] /\ d[8] \in Int /\ c[9] = d[9] /\ d[9] \in Int
        BY <1>2, <2>2
      <4> QED
        BY <4>1, SMTT(60) DEF Sum10
    <3>3. Sum10(c) = Sum10(d) + 4 * (e - d[i])
      BY <1>2, <1>3, <2>2, <3>2
    <3> QED
      BY <3>1, <3>3
  <2>3. CASE i = 3
    <3>1. Weight10[i] = 10
      BY <2>3 DEF Weight10
    <3>2. Sum10(c) - 10 * e = Sum10(d) - 10 * d[3]
      <4>1. /\ c[3] = e /\ e \in Int /\ d[3] \in Int
            /\ c[1] = d[1] /\ d[1] \in Int /\ c[2] = d[2] /\ d[2] \in Int
            /\ c[4] = d[4] /\ d[4] \in Int /\ c[5] = d[5] /\ d[5] \in Int
            /\ c[6] = d[6] /\ d[6] \in Int /\ c[7] = d[7] /\ d[7] \in Int
            /\ c[8] = d[8] /\ d[8] \in Int /\ c[9] = d[9] /\ d[9] \in Int
        BY <1>2, <2>3
      <4> QED
        BY <4>1, SMTT(60) DEF Sum10
    <3>3. Sum10(c) = Sum10(d) + 10 * (e - d[i])
      BY <1>2, <1>3, <2>3, <3>2
    <3> QED
      BY <3>1, <3>3
  <2>4. CASE i = 4
    <3>1. Weight10[i] = 3
      BY <2>4 DEF Weight10
    <3>2. Sum10(c) - 3 * e = Sum10(d) - 3 * d[4]
      <4>1. /\ c[4] = e /\ e \in Int /\ d[4] \in Int
            /\ c[1] = d[1] /\ d[1] \in Int /\ c[2] = d[2] /\ d[2] \in Int
            /\ c[3] = d[3] /\ d[3] \in Int /\ c[5] = d[5] /\ d[5] \in Int
            /\ c[6] = d[6] /\ d[6] \in Int /\ c[7] = d[7] /\ d[7] \in Int
            /\ c[8] = d[8] /\ d[8] \in Int /\ c[9] = d[9] /\ d[9] \in Int
        BY <1>2, <2>4
      <4> QED
        BY <4>1, SMTT(60) DEF Sum10
    <3>3. Sum10(c) = Sum10(d) + 3 * (e - d[i])
      BY <1>2, <1>3, <2>4, <3>2
    <3> QED
      BY <3>1, <3>3
  <2>5. CASE i = 5
    <3>1. Weight10[i] = 5
      BY <2>5 DEF Weight10
    <3>2. Sum10(c) - 5 * e = Sum10(d) - 5 * d[5]
      <4>1. /\ c[5] = e /\ e \in Int /\ d[5] \in Int
            /\ c[1] = d[1] /\ d[1] \in Int /\ c[2] = d[2] /\ d[2] \in Int
            /\ c[3] = d[3] /\ d[3] \in Int /\ c[4] = d[4] /\ d[4] \in Int
            /\ c[6] = d[6] /\ d[6] \in Int /\ c[7] = d[7] /\ d[7] \in Int
            /\ c[8] = d[8] /\ d[8] \in Int /\ c[9] = d[9] /\ d[9] \in Int
        BY <1>2, <2>5
      <4> QED
        BY <4>1, SMTT(60) DEF Sum10
    <3>3. Sum10(c) = Sum10(d) + 5 * (e - d[i])
      BY <1>2, <1>3, <2>5, <3>2
    <3> QED
      BY <3>1, <3>3
  <2>6. CASE i = 6
    <3>1. Weight10[i] = 9
      BY <2>6 DEF Weight10
    <3>2. Sum10(c) - 9 * e = Sum10(d) - 9 * d[6]
      <4>1. /\ c[6] = e /\ e \in Int /\ d[6] \in Int
            /\ c[1] = d[1] /\ d[1] \in Int /\ c[2] = d[2] /\ d[2] \in Int
            /\ c[3] = d[3] /\ d[3] \in Int /\ c[4] = d[4] /\ d[4] \in Int
            /\ c[5] = d[5] /\ d[5] \in Int /\ c[7] = d[7] /\ d[7] \in Int
            /\ c[8] = d[8] /\ d[8] \in Int /\ c[9] = d[9] /\ d[9] \in Int
        BY <1>2, <2>6
      <4> QED
        BY <4>1, SMTT(60) DEF Sum10
    <3>3. Sum10(c) = Sum10(d) + 9 * (e - d[i])
      BY <1>2, <1>3, <2>6, <3>2
    <3> QED
      BY <3>1, <3>3
  <2>7. CASE i = 7
    <3>1. Weight10[i] = 4
      BY <2>7 DEF Weight10
    <3>2. Sum10(c) - 4 * e = Sum10(d) - 4 * d[7]
      <4>1. /\ c[7] = e /\ e \in Int /\ d[7] \in Int
            /\ c[1] = d[1] /\ d[1] \in Int /\ c[2] = d[2] /\ d[2] \in Int
            /\ c[3] = d[3] /\ d[3] \in Int /\ c[4] = d[4] /\ d[4] \in Int
            /\ c[5] = d[5] /\ d[5] \in Int /\ c[6] = d[6] /\ d[6] \in Int
            /\ c[8] = d[8] /\ d[8] \in Int /\ c[9] = d[9] /\ d[9] \in Int
        BY <1>2, <2>7
      <4> QED
        BY <4>1, SMTT(60) DEF Sum10
    <3>3. Sum10(c) = Sum10(d) + 4 * (e - d[i])
      BY <1>2, <1>3, <2>7, <3>2
    <3> QED
      BY <3>1, <3>3
  <2>8. CASE i = 8
    <3>1. Weight10[i] = 6
      BY <2>8 DEF Weight10
    <3>2. Sum10(c) - 6 * e = Sum10(d) - 6 * d[8]
      <4>1. /\ c[8] = e /\ e \in Int /\ d[8] \in Int
            /\ c[1] = d[1] /\ d[1] \in Int /\ c[2] = d[2] /\ d[2] \in Int
            /\ c[3] = d[3] /\ d[3] \in Int /\ c[4] = d[4] /\ d[4] \in Int
            /\ c[5] = d[5] /\ d[5] \in Int /\ c[6] = d[6] /\ d[6] \in Int
            /\ c[7] = d[7] /\ d[7] \in Int /\ c[9] = d[9] /\ d[9] \in Int
        BY <1>2, <2>8
      <4> QED
        BY <4>1, SMTT(60) DEF Sum10
    <3>3. Sum10(c) = Sum10(d) + 6 * (e - d[i])
      BY <1>2, <1>3, <2>8, <3>2
    <3> QED
      BY <3>1, <3>3
  <2>9. CASE i = 9
    <3>1. Weight10[i] = 8
      BY <2>9 DEF Weight10
    <3>2. Sum10(c) - 8 * e = Sum10(d) - 8 * d[9]
      <4>1. /\ c[9] = e /\ e \in Int /\ d[9] \in Int
            /\ c[1] = d[1] /\ d[1] \in Int /\ c[2] = d[2] /\ d[2] \in Int
            /\ c[3] = d[3] /\ d[3] \in Int /\ c[4] = d[4] /\ d[4] \in Int
            /\ c[5] = d[5] /\ d[5] \in Int /\ c[6] = d[6] /\ d[6] \in Int
            /\ c[7] = d[7] /\ d[7] \in Int /\ c[8] = d[8] /\ d[8] \in Int
        BY <1>2, <2>9
      <4> QED
        BY <4>1, SMTT(60) DEF Sum10
    <3>3. Sum10(c) = Sum10(d) + 8 * (e - d[i])
      BY <1>2, <1>3, <2>9, <3>2
    <3> QED
      BY <3>1, <3>3
  <2> QED
    BY <2>1, <2>2, <2>3, <2>4, <2>5, <2>6, <2>7, <2>8, <2>9
<1> QED
  BY <1>3, <1>4 DEF c

(* A digit replaced before the control digit changes the sum by its weight. *)
LEMMA Change11 ==
  ASSUME NEW d \in [1..12 -> Digit], NEW i \in 1..10, NEW e \in Digit
  PROVE  LET c == [d EXCEPT ![i] = e]
         IN /\ Sum11(d) \in Int /\ Sum11(c) \in Int
            /\ Sum11(c) = Sum11(d) + Weight11[i] * (e - d[i])
            /\ Weight11[i] \in 2..10
<1> DEFINE c == [d EXCEPT ![i] = e]
<1>1. /\ e \in Int /\ c[i] = e
      /\ \A j \in 1..10 : d[j] \in Int /\ c[j] \in Int /\ (j # i => c[j] = d[j])
  BY DEF Digit
<1> HIDE DEF c
<1>2. /\ e \in Int /\ c[i] = e
      /\ d[1] \in Int /\ d[2] \in Int /\ d[3] \in Int /\ d[4] \in Int
      /\ d[5] \in Int /\ d[6] \in Int /\ d[7] \in Int /\ d[8] \in Int
      /\ d[9] \in Int /\ d[10] \in Int
      /\ c[1] \in Int /\ c[2] \in Int /\ c[3] \in Int /\ c[4] \in Int
      /\ c[5] \in Int /\ c[6] \in Int /\ c[7] \in Int /\ c[8] \in Int
      /\ c[9] \in Int /\ c[10] \in Int
      /\ (i # 1 => c[1] = d[1]) /\ (i # 2 => c[2] = d[2])
      /\ (i # 3 => c[3] = d[3]) /\ (i # 4 => c[4] = d[4])
      /\ (i # 5 => c[5] = d[5]) /\ (i # 6 => c[6] = d[6])
      /\ (i # 7 => c[7] = d[7]) /\ (i # 8 => c[8] = d[8])
      /\ (i # 9 => c[9] = d[9]) /\ (i # 10 => c[10] = d[10])
  BY <1>1
<1>3. Sum11(d) \in Int /\ Sum11(c) \in Int
  <2> SUFFICES ASSUME NEW f, \A j \in 1..10 : f[j] \in Int PROVE Sum11(f) \in Int
    BY <1>1
  <2>1. /\ f[1] \in Int /\ f[2] \in Int /\ f[3] \in Int /\ f[4] \in Int /\ f[5] \in Int
        /\ f[6] \in Int /\ f[7] \in Int /\ f[8] \in Int /\ f[9] \in Int
        /\ f[10] \in Int
    OBVIOUS
  <2>2. 7*f[1] + 2*f[2] + 4*f[3] + 10*f[4] + 3*f[5] + 5*f[6] \in Int
    BY <2>1
  <2>3. 7*f[1] + 2*f[2] + 4*f[3] + 10*f[4] + 3*f[5] + 5*f[6] + 9*f[7] + 4*f[8] + 6*f[9] + 8*f[10] \in Int
    BY <2>1, <2>2
  <2> QED
    BY <2>3 DEF Sum11
<1>4. /\ Sum11(c) = Sum11(d) + Weight11[i] * (e - d[i])
      /\ Weight11[i] \in 2..10
  <2>1. CASE i = 1
    <3>1. Weight11[i] = 7
      BY <2>1 DEF Weight11
    <3>2. Sum11(c) - 7 * e = Sum11(d) - 7 * d[1]
      <4>1. /\ c[1] = e /\ e \in Int /\ d[1] \in Int
            /\ c[2] = d[2] /\ d[2] \in Int /\ c[3] = d[3] /\ d[3] \in Int
            /\ c[4] = d[4] /\ d[4] \in Int /\ c[5] = d[5] /\ d[5] \in Int
            /\ c[6] = d[6] /\ d[6] \in Int /\ c[7] = d[7] /\ d[7] \in Int
            /\ c[8] = d[8] /\ d[8] \in Int /\ c[9] = d[9] /\ d[9] \in Int
            /\ c[10] = d[10] /\ d[10] \in Int
        BY <1>2, <2>1
      <4> QED
        BY <4>1, SMTT(60) DEF Sum11
    <3>3. Sum11(c) = Sum11(d) + 7 * (e - d[i])
      BY <1>2, <1>3, <2>1, <3>2
    <3> QED
      BY <3>1, <3>3
  <2>2. CASE i = 2
    <3>1. Weight11[i] = 2
      BY <2>2 DEF Weight11
    <3>2. Sum11(c) - 2 * e = Sum11(d) - 2 * d[2]
      <4>1. /\ c[2] = e /\ e \in Int /\ d[2] \in Int
            /\ c[1] = d[1] /\ d[1] \in Int /\ c[3] = d[3] /\ d[3] \in Int
            /\ c[4] = d[4] /\ d[4] \in Int /\ c[5] = d[5] /\ d[5] \in Int
            /\ c[6] = d[6] /\ d[6] \in Int /\ c[7] = d[7] /\ d[7] \in Int
            /\ c[8] = d[8] /\ d[8] \in Int /\ c[9] = d[9] /\ d[9] \in Int
            /\ c[10] = d[10] /\ d[10] \in Int
        BY <1>2, <2>2
      <4> QED
        BY <4>1, SMTT(60) DEF Sum11
    <3>3. Sum11(c) = Sum11(d) + 2 * (e - d[i])
      BY <1>2, <1>3, <2>2, <3>2
    <3> QED
      BY <3>1, <3>3
  <2>3. CASE i = 3
    <3>1. Weight11[i] = 4
      BY <2>3 DEF Weight11
    <3>2. Sum11(c) - 4 * e = Sum11(d) - 4 * d[3]
      <4>1. /\ c[3] = e /\ e \in Int /\ d[3] \in Int
            /\ c[1] = d[1] /\ d[1] \in Int /\ c[2] = d[2] /\ d[2] \in Int
            /\ c[4] = d[4] /\ d[4] \in Int /\ c[5] = d[5] /\ d[5] \in Int
            /\ c[6] = d[6] /\ d[6] \in Int /\ c[7] = d[7] /\ d[7] \in Int
            /\ c[8] = d[8] /\ d[8] \in Int /\ c[9] = d[9] /\ d[9] \in Int
            /\ c[10] = d[10] /\ d[10] \in Int
        BY <1>2, <2>3
      <4> QED
        BY <4>1, SMTT(60) DEF Sum11
    <3>3. Sum11(c) = Sum11(d) + 4 * (e - d[i])
      BY <1>2, <1>3, <2>3, <3>2
    <3> QED
      BY <3>1, <3>3
  <2>4. CASE i = 4
    <3>1. Weight11[i] = 10
      BY <2>4 DEF Weight11
    <3>2. Sum11(c) - 10 * e = Sum11(d) - 10 * d[4]
      <4>1. /\ c[4] = e /\ e \in Int /\ d[4] \in Int
            /\ c[1] = d[1] /\ d[1] \in Int /\ c[2] = d[2] /\ d[2] \in Int
            /\ c[3] = d[3] /\ d[3] \in Int /\ c[5] = d[5] /\ d[5] \in Int
            /\ c[6] = d[6] /\ d[6] \in Int /\ c[7] = d[7] /\ d[7] \in Int
            /\ c[8] = d[8] /\ d[8] \in Int /\ c[9] = d[9] /\ d[9] \in Int
            /\ c[10] = d[10] /\ d[10] \in Int
        BY <1>2, <2>4
      <4> QED
        BY <4>1, SMTT(60) DEF Sum11
    <3>3. Sum11(c) = Sum11(d) + 10 * (e - d[i])
      BY <1>2, <1>3, <2>4, <3>2
    <3> QED
      BY <3>1, <3>3
  <2>5. CASE i = 5
    <3>1. Weight11[i] = 3
      BY <2>5 DEF Weight11
    <3>2. Sum11(c) - 3 * e = Sum11(d) - 3 * d[5]
      <4>1. /\ c[5] = e /\ e \in Int /\ d[5] \in Int
            /\ c[1] = d[1] /\ d[1] \in Int /\ c[2] = d[2] /\ d[2] \in Int
            /\ c[3] = d[3] /\ d[3] \in Int /\ c[4] = d[4] /\ d[4] \in Int
            /\ c[6] = d[6] /\ d[6] \in Int /\ c[7] = d[7] /\ d[7] \in Int
            /\ c[8] = d[8] /\ d[8] \in Int /\ c[9] = d[9] /\ d[9] \in Int
            /\ c[10] = d[10] /\ d[10] \in Int
        BY <1>2, <2>5
      <4> QED
        BY <4>1, SMTT(60) DEF Sum11
    <3>3. Sum11(c) = Sum11(d) + 3 * (e - d[i])
      BY <1>2, <1>3, <2>5, <3>2
    <3> QED
      BY <3>1, <3>3
  <2>6. CASE i = 6
    <3>1. Weight11[i] = 5
      BY <2>6 DEF Weight11
    <3>2. Sum11(c) - 5 * e = Sum11(d) - 5 * d[6]
      <4>1. /\ c[6] = e /\ e \in Int /\ d[6] \in Int
            /\ c[1] = d[1] /\ d[1] \in Int /\ c[2] = d[2] /\ d[2] \in Int
            /\ c[3] = d[3] /\ d[3] \in Int /\ c[4] = d[4] /\ d[4] \in Int
            /\ c[5] = d[5] /\ d[5] \in Int /\ c[7] = d[7] /\ d[7] \in Int
            /\ c[8] = d[8] /\ d[8] \in Int /\ c[9] = d[9] /\ d[9] \in Int
            /\ c[10] = d[10] /\ d[10] \in Int
        BY <1>2, <2>6
      <4> QED
        BY <4>1, SMTT(60) DEF Sum11
    <3>3. Sum11(c) = Sum11(d) + 5 * (e - d[i])
      BY <1>2, <1>3, <2>6, <3>2
    <3> QED
      BY <3>1, <3>3
  <2>7. CASE i = 7
    <3>1. Weight11[i] = 9
      BY <2>7 DEF Weight11
    <3>2. Sum11(c) - 9 * e = Sum11(d) - 9 * d[7]
      <4>1. /\ c[7] = e /\ e \in Int /\ d[7] \in Int
            /\ c[1] = d[1] /\ d[1] \in Int /\ c[2] = d[2] /\ d[2] \in Int
            /\ c[3] = d[3] /\ d[3] \in Int /\ c[4] = d[4] /\ d[4] \in Int
            /\ c[5] = d[5] /\ d[5] \in Int /\ c[6] = d[6] /\ d[6] \in Int
            /\ c[8] = d[8] /\ d[8] \in Int /\ c[9] = d[9] /\ d[9] \in Int
            /\ c[10] = d[10] /\ d[10] \in Int
        BY <1>2, <2>7
      <4> QED
        BY <4>1, SMTT(60) DEF Sum11
    <3>3. Sum11(c) = Sum11(d) + 9 * (e - d[i])
      BY <1>2, <1>3, <2>7, <3>2
    <3> QED
      BY <3>1, <3>3
  <2>8. CASE i = 8
    <3>1. Weight11[i] = 4
      BY <2>8 DEF Weight11
    <3>2. Sum11(c) - 4 * e = Sum11(d) - 4 * d[8]
      <4>1. /\ c[8] = e /\ e \in Int /\ d[8] \in Int
            /\ c[1] = d[1] /\ d[1] \in Int /\ c[2] = d[2] /\ d[2] \in Int
            /\ c[3] = d[3] /\ d[3] \in Int /\ c[4] = d[4] /\ d[4] \in Int
            /\ c[5] = d[5] /\ d[5] \in Int /\ c[6] = d[6] /\ d[6] \in Int
            /\ c[7] = d[7] /\ d[7] \in Int /\ c[9] = d[9] /\ d[9] \in Int
            /\ c[10] = d[10] /\ d[10] \in Int
        BY <1>2, <2>8
      <4> QED
        BY <4>1, SMTT(60) DEF Sum11
    <3>3. Sum11(c) = Sum11(d) + 4 * (e - d[i])
      BY <1>2, <1>3, <2>8, <3>2
    <3> QED
      BY <3>1, <3>3
  <2>9. CASE i = 9
    <3>1. Weight11[i] = 6
      BY <2>9 DEF Weight11
    <3>2. Sum11(c) - 6 * e = Sum11(d) - 6 * d[9]
      <4>1. /\ c[9] = e /\ e \in Int /\ d[9] \in Int
            /\ c[1] = d[1] /\ d[1] \in Int /\ c[2] = d[2] /\ d[2] \in Int
            /\ c[3] = d[3] /\ d[3] \in Int /\ c[4] = d[4] /\ d[4] \in Int
            /\ c[5] = d[5] /\ d[5] \in Int /\ c[6] = d[6] /\ d[6] \in Int
            /\ c[7] = d[7] /\ d[7] \in Int /\ c[8] = d[8] /\ d[8] \in Int
            /\ c[10] = d[10] /\ d[10] \in Int
        BY <1>2, <2>9
      <4> QED
        BY <4>1, SMTT(60) DEF Sum11
    <3>3. Sum11(c) = Sum11(d) + 6 * (e - d[i])
      BY <1>2, <1>3, <2>9, <3>2
    <3> QED
      BY <3>1, <3>3
  <2>10. CASE i = 10
    <3>1. Weight11[i] = 8
      BY <2>10 DEF Weight11
    <3>2. Sum11(c) - 8 * e = Sum11(d) - 8 * d[10]
      <4>1. /\ c[10] = e /\ e \in Int /\ d[10] \in Int
            /\ c[1] = d[1] /\ d[1] \in Int /\ c[2] = d[2] /\ d[2] \in Int
            /\ c[3] = d[3] /\ d[3] \in Int /\ c[4] = d[4] /\ d[4] \in Int
            /\ c[5] = d[5] /\ d[5] \in Int /\ c[6] = d[6] /\ d[6] \in Int
            /\ c[7] = d[7] /\ d[7] \in Int /\ c[8] = d[8] /\ d[8] \in Int
            /\ c[9] = d[9] /\ d[9] \in Int
        BY <1>2, <2>10
      <4> QED
        BY <4>1, SMTT(60) DEF Sum11
    <3>3. Sum11(c) = Sum11(d) + 8 * (e - d[i])
      BY <1>2, <1>3, <2>10, <3>2
    <3> QED
      BY <3>1, <3>3
  <2> QED
    BY <2>1, <2>2, <2>3, <2>4, <2>5, <2>6, <2>7, <2>8, <2>9, <2>10
<1> QED
  BY <1>3, <1>4 DEF c

(* A digit replaced before the control digit changes the sum by its weight. *)
LEMMA Change12 ==
  ASSUME NEW d \in [1..12 -> Digit], NEW i \in 1..11, NEW e \in Digit
  PROVE  LET c == [d EXCEPT ![i] = e]
         IN /\ Sum12(d) \in Int /\ Sum12(c) \in Int
            /\ Sum12(c) = Sum12(d) + Weight12[i] * (e - d[i])
            /\ Weight12[i] \in 2..10
<1> DEFINE c == [d EXCEPT ![i] = e]
<1>1. /\ e \in Int /\ c[i] = e
      /\ \A j \in 1..11 : d[j] \in Int /\ c[j] \in Int /\ (j # i => c[j] = d[j])
  BY DEF Digit
<1> HIDE DEF c
<1>2. /\ e \in Int /\ c[i] = e
      /\ d[1] \in Int /\ d[2] \in Int /\ d[3] \in Int /\ d[4] \in Int
      /\ d[5] \in Int /\ d[6] \in Int /\ d[7] \in Int /\ d[8] \in Int
      /\ d[9] \in Int /\ d[10] \in Int /\ d[11] \in Int
      /\ c[1] \in Int /\ c[2] \in Int /\ c[3] \in Int /\ c[4] \in Int
      /\ c[5] \in Int /\ c[6] \in Int /\ c[7] \in Int /\ c[8] \in Int
      /\ c[9] \in Int /\ c[10] \in Int /\ c[11] \in Int
      /\ (i # 1 => c[1] = d[1]) /\ (i # 2 => c[2] = d[2])
      /\ (i # 3 => c[3] = d[3]) /\ (i # 4 => c[4] = d[4])
      /\ (i # 5 => c[5] = d[5]) /\ (i # 6 => c[6] = d[6])
      /\ (i # 7 => c[7] = d[7]) /\ (i # 8 => c[8] = d[8])
      /\ (i # 9 => c[9] = d[9]) /\ (i # 10 => c[10] = d[10])
      /\ (i # 11 => c[11] = d[11])
  BY <1>1
<1>3. Sum12(d) \in Int /\ Sum12(c) \in Int
  <2> SUFFICES ASSUME NEW f, \A j \in 1..11 : f[j] \in Int PROVE Sum12(f) \in Int
    BY <1>1
  <2>1. /\ f[1] \in Int /\ f[2] \in Int /\ f[3] \in Int /\ f[4] \in Int /\ f[5] \in Int
        /\ f[6] \in Int /\ f[7] \in Int /\ f[8] \in Int /\ f[9] \in Int
        /\ f[10] \in Int /\ f[11] \in Int
    OBVIOUS
  <2>2. 3*f[1] + 7*f[2] + 2*f[3] + 4*f[4] + 10*f[5] + 3*f[6] \in Int
    BY <2>1
  <2>3. 3*f[1] + 7*f[2] + 2*f[3] + 4*f[4] + 10*f[5] + 3*f[6] + 5*f[7] + 9*f[8] + 4*f[9] + 6*f[10] + 8*f[11] \in Int
    BY <2>1, <2>2
  <2> QED
    BY <2>3 DEF Sum12
<1>4. /\ Sum12(c) = Sum12(d) + Weight12[i] * (e - d[i])
      /\ Weight12[i] \in 2..10
  <2>1. CASE i = 1
    <3>1. Weight12[i] = 3
      BY <2>1 DEF Weight12
    <3>2. Sum12(c) - 3 * e = Sum12(d) - 3 * d[1]
      <4>1. /\ c[1] = e /\ e \in Int /\ d[1] \in Int
            /\ c[2] = d[2] /\ d[2] \in Int /\ c[3] = d[3] /\ d[3] \in Int
            /\ c[4] = d[4] /\ d[4] \in Int /\ c[5] = d[5] /\ d[5] \in Int
            /\ c[6] = d[6] /\ d[6] \in Int /\ c[7] = d[7] /\ d[7] \in Int
            /\ c[8] = d[8] /\ d[8] \in Int /\ c[9] = d[9] /\ d[9] \in Int
            /\ c[10] = d[10] /\ d[10] \in Int /\ c[11] = d[11] /\ d[11] \in Int
        BY <1>2, <2>1
      <4> QED
        BY <4>1, SMTT(60) DEF Sum12
    <3>3. Sum12(c) = Sum12(d) + 3 * (e - d[i])
      BY <1>2, <1>3, <2>1, <3>2
    <3> QED
      BY <3>1, <3>3
  <2>2. CASE i = 2
    <3>1. Weight12[i] = 7
      BY <2>2 DEF Weight12
    <3>2. Sum12(c) - 7 * e = Sum12(d) - 7 * d[2]
      <4>1. /\ c[2] = e /\ e \in Int /\ d[2] \in Int
            /\ c[1] = d[1] /\ d[1] \in Int /\ c[3] = d[3] /\ d[3] \in Int
            /\ c[4] = d[4] /\ d[4] \in Int /\ c[5] = d[5] /\ d[5] \in Int
            /\ c[6] = d[6] /\ d[6] \in Int /\ c[7] = d[7] /\ d[7] \in Int
            /\ c[8] = d[8] /\ d[8] \in Int /\ c[9] = d[9] /\ d[9] \in Int
            /\ c[10] = d[10] /\ d[10] \in Int /\ c[11] = d[11] /\ d[11] \in Int
        BY <1>2, <2>2
      <4> QED
        BY <4>1, SMTT(60) DEF Sum12
    <3>3. Sum12(c) = Sum12(d) + 7 * (e - d[i])
      BY <1>2, <1>3, <2>2, <3>2
    <3> QED
      BY <3>1, <3>3
  <2>3. CASE i = 3
    <3>1. Weight12[i] = 2
      BY <2>3 DEF Weight12
    <3>2. Sum12(c) - 2 * e = Sum12(d) - 2 * d[3]
      <4>1. /\ c[3] = e /\ e \in Int /\ d[3] \in Int
            /\ c[1] = d[1] /\ d[1] \in Int /\ c[2] = d[2] /\ d[2] \in Int
            /\ c[4] = d[4] /\ d[4] \in Int /\ c[5] = d[5] /\ d[5] \in Int
            /\ c[6] = d[6] /\ d[6] \in Int /\ c[7] = d[7] /\ d[7] \in Int
            /\ c[8] = d[8] /\ d[8] \in Int /\ c[9] = d[9] /\ d[9] \in Int
            /\ c[10] = d[10] /\ d[10] \in Int /\ c[11] = d[11] /\ d[11] \in Int
        BY <1>2, <2>3
      <4> QED
        BY <4>1, SMTT(60) DEF Sum12
    <3>3. Sum12(c) = Sum12(d) + 2 * (e - d[i])
      BY <1>2, <1>3, <2>3, <3>2
    <3> QED
      BY <3>1, <3>3
  <2>4. CASE i = 4
    <3>1. Weight12[i] = 4
      BY <2>4 DEF Weight12
    <3>2. Sum12(c) - 4 * e = Sum12(d) - 4 * d[4]
      <4>1. /\ c[4] = e /\ e \in Int /\ d[4] \in Int
            /\ c[1] = d[1] /\ d[1] \in Int /\ c[2] = d[2] /\ d[2] \in Int
            /\ c[3] = d[3] /\ d[3] \in Int /\ c[5] = d[5] /\ d[5] \in Int
            /\ c[6] = d[6] /\ d[6] \in Int /\ c[7] = d[7] /\ d[7] \in Int
            /\ c[8] = d[8] /\ d[8] \in Int /\ c[9] = d[9] /\ d[9] \in Int
            /\ c[10] = d[10] /\ d[10] \in Int /\ c[11] = d[11] /\ d[11] \in Int
        BY <1>2, <2>4
      <4> QED
        BY <4>1, SMTT(60) DEF Sum12
    <3>3. Sum12(c) = Sum12(d) + 4 * (e - d[i])
      BY <1>2, <1>3, <2>4, <3>2
    <3> QED
      BY <3>1, <3>3
  <2>5. CASE i = 5
    <3>1. Weight12[i] = 10
      BY <2>5 DEF Weight12
    <3>2. Sum12(c) - 10 * e = Sum12(d) - 10 * d[5]
      <4>1. /\ c[5] = e /\ e \in Int /\ d[5] \in Int
            /\ c[1] = d[1] /\ d[1] \in Int /\ c[2] = d[2] /\ d[2] \in Int
            /\ c[3] = d[3] /\ d[3] \in Int /\ c[4] = d[4] /\ d[4] \in Int
            /\ c[6] = d[6] /\ d[6] \in Int /\ c[7] = d[7] /\ d[7] \in Int
            /\ c[8] = d[8] /\ d[8] \in Int /\ c[9] = d[9] /\ d[9] \in Int
            /\ c[10] = d[10] /\ d[10] \in Int /\ c[11] = d[11] /\ d[11] \in Int
        BY <1>2, <2>5
      <4> QED
        BY <4>1, SMTT(60) DEF Sum12
    <3>3. Sum12(c) = Sum12(d) + 10 * (e - d[i])
      BY <1>2, <1>3, <2>5, <3>2
    <3> QED
      BY <3>1, <3>3
  <2>6. CASE i = 6
    <3>1. Weight12[i] = 3
      BY <2>6 DEF Weight12
    <3>2. Sum12(c) - 3 * e = Sum12(d) - 3 * d[6]
      <4>1. /\ c[6] = e /\ e \in Int /\ d[6] \in Int
            /\ c[1] = d[1] /\ d[1] \in Int /\ c[2] = d[2] /\ d[2] \in Int
            /\ c[3] = d[3] /\ d[3] \in Int /\ c[4] = d[4] /\ d[4] \in Int
            /\ c[5] = d[5] /\ d[5] \in Int /\ c[7] = d[7] /\ d[7] \in Int
            /\ c[8] = d[8] /\ d[8] \in Int /\ c[9] = d[9] /\ d[9] \in Int
            /\ c[10] = d[10] /\ d[10] \in Int /\ c[11] = d[11] /\ d[11] \in Int
        BY <1>2, <2>6
      <4> QED
        BY <4>1, SMTT(60) DEF Sum12
    <3>3. Sum12(c) = Sum12(d) + 3 * (e - d[i])
      BY <1>2, <1>3, <2>6, <3>2
    <3> QED
      BY <3>1, <3>3
  <2>7. CASE i = 7
    <3>1. Weight12[i] = 5
      BY <2>7 DEF Weight12
    <3>2. Sum12(c) - 5 * e = Sum12(d) - 5 * d[7]
      <4>1. /\ c[7] = e /\ e \in Int /\ d[7] \in Int
            /\ c[1] = d[1] /\ d[1] \in Int /\ c[2] = d[2] /\ d[2] \in Int
            /\ c[3] = d[3] /\ d[3] \in Int /\ c[4] = d[4] /\ d[4] \in Int
            /\ c[5] = d[5] /\ d[5] \in Int /\ c[6] = d[6] /\ d[6] \in Int
            /\ c[8] = d[8] /\ d[8] \in Int /\ c[9] = d[9] /\ d[9] \in Int
            /\ c[10] = d[10] /\ d[10] \in Int /\ c[11] = d[11] /\ d[11] \in Int
        BY <1>2, <2>7
      <4> QED
        BY <4>1, SMTT(60) DEF Sum12
    <3>3. Sum12(c) = Sum12(d) + 5 * (e - d[i])
      BY <1>2, <1>3, <2>7, <3>2
    <3> QED
      BY <3>1, <3>3
  <2>8. CASE i = 8
    <3>1. Weight12[i] = 9
      BY <2>8 DEF Weight12
    <3>2. Sum12(c) - 9 * e = Sum12(d) - 9 * d[8]
      <4>1. /\ c[8] = e /\ e \in Int /\ d[8] \in Int
            /\ c[1] = d[1] /\ d[1] \in Int /\ c[2] = d[2] /\ d[2] \in Int
            /\ c[3] = d[3] /\ d[3] \in Int /\ c[4] = d[4] /\ d[4] \in Int
            /\ c[5] = d[5] /\ d[5] \in Int /\ c[6] = d[6] /\ d[6] \in Int
            /\ c[7] = d[7] /\ d[7] \in Int /\ c[9] = d[9] /\ d[9] \in Int
            /\ c[10] = d[10] /\ d[10] \in Int /\ c[11] = d[11] /\ d[11] \in Int
        BY <1>2, <2>8
      <4> QED
        BY <4>1, SMTT(60) DEF Sum12
    <3>3. Sum12(c) = Sum12(d) + 9 * (e - d[i])
      BY <1>2, <1>3, <2>8, <3>2
    <3> QED
      BY <3>1, <3>3
  <2>9. CASE i = 9
    <3>1. Weight12[i] = 4
      BY <2>9 DEF Weight12
    <3>2. Sum12(c) - 4 * e = Sum12(d) - 4 * d[9]
      <4>1. /\ c[9] = e /\ e \in Int /\ d[9] \in Int
            /\ c[1] = d[1] /\ d[1] \in Int /\ c[2] = d[2] /\ d[2] \in Int
            /\ c[3] = d[3] /\ d[3] \in Int /\ c[4] = d[4] /\ d[4] \in Int
            /\ c[5] = d[5] /\ d[5] \in Int /\ c[6] = d[6] /\ d[6] \in Int
            /\ c[7] = d[7] /\ d[7] \in Int /\ c[8] = d[8] /\ d[8] \in Int
            /\ c[10] = d[10] /\ d[10] \in Int /\ c[11] = d[11] /\ d[11] \in Int
        BY <1>2, <2>9
      <4> QED
        BY <4>1, SMTT(60) DEF Sum12
    <3>3. Sum12(c) = Sum12(d) + 4 * (e - d[i])
      BY <1>2, <1>3, <2>9, <3>2
    <3> QED
      BY <3>1, <3>3
  <2>10. CASE i = 10
    <3>1. Weight12[i] = 6
      BY <2>10 DEF Weight12
    <3>2. Sum12(c) - 6 * e = Sum12(d) - 6 * d[10]
      <4>1. /\ c[10] = e /\ e \in Int /\ d[10] \in Int
            /\ c[1] = d[1] /\ d[1] \in Int /\ c[2] = d[2] /\ d[2] \in Int
            /\ c[3] = d[3] /\ d[3] \in Int /\ c[4] = d[4] /\ d[4] \in Int
            /\ c[5] = d[5] /\ d[5] \in Int /\ c[6] = d[6] /\ d[6] \in Int
            /\ c[7] = d[7] /\ d[7] \in Int /\ c[8] = d[8] /\ d[8] \in Int
            /\ c[9] = d[9] /\ d[9] \in Int /\ c[11] = d[11] /\ d[11] \in Int
        BY <1>2, <2>10
      <4> QED
        BY <4>1, SMTT(60) DEF Sum12
    <3>3. Sum12(c) = Sum12(d) + 6 * (e - d[i])
      BY <1>2, <1>3, <2>10, <3>2
    <3> QED
      BY <3>1, <3>3
  <2>11. CASE i = 11
    <3>1. Weight12[i] = 8
      BY <2>11 DEF Weight12
    <3>2. Sum12(c) - 8 * e = Sum12(d) - 8 * d[11]
      <4>1. /\ c[11] = e /\ e \in Int /\ d[11] \in Int
            /\ c[1] = d[1] /\ d[1] \in Int /\ c[2] = d[2] /\ d[2] \in Int
            /\ c[3] = d[3] /\ d[3] \in Int /\ c[4] = d[4] /\ d[4] \in Int
            /\ c[5] = d[5] /\ d[5] \in Int /\ c[6] = d[6] /\ d[6] \in Int
            /\ c[7] = d[7] /\ d[7] \in Int /\ c[8] = d[8] /\ d[8] \in Int
            /\ c[9] = d[9] /\ d[9] \in Int /\ c[10] = d[10] /\ d[10] \in Int
        BY <1>2, <2>11
      <4> QED
        BY <4>1, SMTT(60) DEF Sum12
    <3>3. Sum12(c) = Sum12(d) + 8 * (e - d[i])
      BY <1>2, <1>3, <2>11, <3>2
    <3> QED
      BY <3>1, <3>3
  <2> QED
    BY <2>1, <2>2, <2>3, <2>4, <2>5, <2>6, <2>7, <2>8, <2>9, <2>10, <2>11
<1> QED
  BY <1>3, <1>4 DEF c

(* A replaced digit that is not noticed among ten: the control digit is 0. *)
LEMMA Detect10 ==
  ASSUME NEW d \in [1..10 -> Digit], NEW i \in 1..10, NEW e \in Digit, e # d[i],
         Correct10(d), Correct10([d EXCEPT ![i] = e])
  PROVE  i # 10 /\ d[10] = 0
<1> DEFINE c == [d EXCEPT ![i] = e]
<1>1. /\ c[i] = e /\ \A j \in 1..10 : d[j] \in Int /\ (j # i => c[j] = d[j])
      /\ e - d[i] \in (-9)..9 /\ e - d[i] # 0
  BY DEF Digit
<1>2. i # 10
  BY <1>1 DEF Correct10, Sum10
<1>3. Control(Sum10(d)) = d[10] /\ Control(Sum10(c)) = d[10]
  BY <1>1, <1>2 DEF Correct10
<1>4. /\ Sum10(d) \in Int /\ Sum10(c) \in Int /\ Weight10[i] \in 2..10
      /\ Sum10(c) = Sum10(d) + Weight10[i] * (e - d[i])
  BY <1>2, i \in 1..9, Change10
<1> HIDE DEF c
<1>5. Control(Sum10(d)) = 0
  BY <1>1, <1>3, <1>4, Remainder
<1> QED
  BY <1>2, <1>3, <1>5

(* Among twelve there is none.  Before the two control digits it would     *)
(* change both sums by 1 or -1 modulo 11, and no position has weights in   *)
(* both that are equal or opposite.                                        *)
LEMMA Detect12 ==
  ASSUME NEW d \in [1..12 -> Digit], NEW i \in 1..12, NEW e \in Digit, e # d[i],
         Correct12(d), Correct12([d EXCEPT ![i] = e])
  PROVE  FALSE
<1> DEFINE c == [d EXCEPT ![i] = e]
           k == e - d[i]
<1>1. /\ c[i] = e /\ \A j \in 1..12 : d[j] \in Int /\ (j # i => c[j] = d[j])
      /\ k \in (-9)..9 /\ k # 0
  BY DEF Digit
<1>2. /\ Control(Sum11(d)) = d[11] /\ Control(Sum11(c)) = c[11]
      /\ Control(Sum12(d)) = d[12] /\ Control(Sum12(c)) = c[12]
  BY DEF Correct12
<1>3. i # 12
  BY <1>1, <1>2 DEF Sum12
<1>4. i # 11
  BY <1>1, <1>2 DEF Sum11
<1>5. /\ Sum11(d) \in Int /\ Sum11(c) \in Int /\ Weight11[i] \in 2..10
      /\ Sum11(c) = Sum11(d) + Weight11[i] * k
  BY <1>3, <1>4, i \in 1..10, Change11
<1>6. /\ Sum12(d) \in Int /\ Sum12(c) \in Int /\ Weight12[i] \in 2..10
      /\ Sum12(c) = Sum12(d) + Weight12[i] * k
  BY <1>3, i \in 1..11, Change12
<1>7. Control(Sum11(d)) = Control(Sum11(c)) /\ Control(Sum12(d)) = Control(Sum12(c))
  BY <1>1, <1>2, <1>3, <1>4
<1> HIDE DEF c, k
<1>8. \E m \in Int : Weight11[i] * k = 11 * m + 1 \/ Weight11[i] * k = 11 * m - 1
  <2> DEFINE s == Sum11(d)  t == Sum11(c)  w == Weight11[i]
  <2>1. /\ s \in Int /\ t \in Int /\ w \in 2..10 /\ t = s + w * k
        /\ Control(s) = Control(t)
    BY <1>5, <1>7
  <2> HIDE DEF s, t, w
  <2>2. \E m \in Int : w * k = 11 * m + 1 \/ w * k = 11 * m - 1
    BY <1>1, <2>1, OneApart
  <2> QED
    BY <2>2 DEF w
<1>9. \E m \in Int : Weight12[i] * k = 11 * m + 1 \/ Weight12[i] * k = 11 * m - 1
  <2> DEFINE s == Sum12(d)  t == Sum12(c)  w == Weight12[i]
  <2>1. /\ s \in Int /\ t \in Int /\ w \in 2..10 /\ t = s + w * k
        /\ Control(s) = Control(t)
    BY <1>6, <1>7
  <2> HIDE DEF s, t, w
  <2>2. \E m \in Int : w * k = 11 * m + 1 \/ w * k = 11 * m - 1
    BY <1>1, <2>1, OneApart
  <2> QED
    BY <2>2 DEF w
<1>10. \/ i = 1 \/ i = 2 \/ i = 3 \/ i = 4 \/ i = 5 \/ i = 6 \/ i = 7 \/ i = 8
       \/ i = 9 \/ i = 10
  BY <1>3, <1>4
<1> QED
  BY <1>1, <1>8, <1>9, <1>10, SMTT(60) DEF Weight11, Weight12

(* What NumbersAssumption says of a number. *)
LEMMA NumberShape ==
  ASSUME NEW d \in Numbers
  PROVE  \/ d \in [1..10 -> Digit] /\ DOMAIN d = 1..10 /\ Correct10(d)
         \/ d \in [1..12 -> Digit] /\ DOMAIN d = 1..12 /\ Correct12(d)
BY NumbersAssumption

LEMMA Lengths ==
  1..10 # 1..12 /\ 1..9 \notin {1..10, 1..12} /\ 1..11 \notin {1..10, 1..12}
<1>1. 10 \in 1..10 /\ 12 \in 1..12 /\ 12 \notin 1..10 /\ 10 \notin 1..9
      /\ 11 \in 1..11 /\ 11 \notin 1..10 /\ 12 \notin 1..9 /\ 12 \notin 1..11
  OBVIOUS
<1> QED
  BY <1>1

LEMMA InitIInv == Init => IInv
BY DEF Init, IInv

LEMMA NextIInv == IInv /\ [Next]_vars => IInv'
<1> SUFFICES ASSUME IInv, [Next]_vars PROVE IInv'
  OBVIOUS
<1>1. ASSUME NEW i \in DOMAIN number, NEW e \in Digit, Replace(i, e) PROVE IInv'
  <2>1. /\ number' = number /\ answer' = 0 /\ e # number[i]
        /\ typed' = [number EXCEPT ![i] = e]
    BY <1>1 DEF Replace
  <2>2. OneReplaced'
    BY <2>1 DEF OneReplaced
  <2> QED
    BY <2>1, <2>2 DEF IInv
<1>2. ASSUME NEW e \in Digit, Lengthen(e) PROVE IInv'
  <2>1. number \in [1..10 -> Digit]
    BY <1>2, NumberShape, Lengths DEF IInv, Lengthen
  <2>2. typed' \in [1..9 -> Digit] \cup [1..11 -> Digit]
    <3>1. CASE e = 0
      BY <1>2, <2>1, <3>1 DEF Lengthen
    <3>2. CASE e # 0
      <4>1. typed' = [i \in 1..11 |-> IF i = 11 THEN e ELSE number[i]]
        BY <1>2, <3>2 DEF Lengthen
      <4> QED
        BY <2>1, <4>1
    <3> QED
      BY <3>1, <3>2
  <2> QED
    BY <1>2, <2>2 DEF IInv, Lengthen
<1>3. ASSUME NEW how \in Scripts \ {"ascii"}, Write(how) PROVE IInv'
  BY <1>3 DEF IInv, OneReplaced, Write
<1>4. CASE Validate
  <2>1. answer' = 201 => IsWellFormed /\ IsCorrect
    BY <1>4 DEF Validate
  <2>2. (IsWellFormed <=> IsWellFormed') /\ (IsCorrect <=> IsCorrect')
    BY <1>4 DEF Validate, IsWellFormed, IsCorrect
  <2> QED
    BY <1>4, <2>1, <2>2 DEF IInv, OneReplaced, Validate
<1>5. CASE UNCHANGED vars
  BY <1>5 DEF IInv, OneReplaced, vars, IsWellFormed, IsCorrect
<1> QED
  BY <1>1, <1>2, <1>3, <1>4, <1>5 DEF Next

LEMMA IInvMistakes == IInv => MistakesAreNoticed
<1> SUFFICES ASSUME IInv, answer = 201, Mistyped
             PROVE  DOMAIN number = 1..10 /\ number[10] = 0 /\ typed[10] = 0
  BY DEF MistakesAreNoticed
<1>1. IsWellFormed /\ IsCorrect
  BY DEF IInv
<1>2. PICK i \in DOMAIN number, e \in Digit :
        e # number[i] /\ typed = [number EXCEPT ![i] = e]
  <2>1. typed \notin [1..9 -> Digit] \cup [1..11 -> Digit]
    BY <1>1, Lengths DEF IsWellFormed
  <2> QED
    BY <2>1 DEF IInv, OneReplaced, Mistyped
<1>3. CASE number \in [1..10 -> Digit] /\ Correct10(number)
  <2>1. Correct10(typed) /\ i \in 1..10
    BY <1>1, <1>2, <1>3 DEF IsCorrect
  <2>2. i # 10 /\ number[10] = 0
    BY <1>2, <1>3, <2>1, Detect10
  <2> QED
    BY <1>2, <1>3, <2>2
<1>4. CASE number \in [1..12 -> Digit] /\ Correct12(number)
  <2>1. Correct12(typed) /\ i \in 1..12
    BY <1>1, <1>2, <1>4, Lengths DEF IsCorrect
  <2> QED
    BY <1>2, <1>4, <2>1, Detect12
<1> QED
  BY <1>3, <1>4, NumberShape DEF IInv

(* For every set of correct numbers: a digit typed wrong is noticed, save  *)
(* in an organisation's number whose control digit is 0.                   *)
THEOREM MistakesNoticed == Spec => []MistakesAreNoticed
<1>1. Spec => []IInv
  BY InitIInv, NextIInv, PTL DEF Spec
<1> QED
  BY <1>1, IInvMistakes, PTL

-----------------------------------------------------------------------------
(* A cookie is of an identifier already given, and an account that bears it *)
(* is the one that signed in.                                               *)
IsOwn(c, rows, last) ==
  /\ c.uid \in 0 .. last
  /\ \A u \in rows : u.id = c.uid => u.who = c.who

(* Identifiers come from the sequence, one account bears each.              *)
Identified(rows, last) ==
  /\ last \in Nat
  /\ \A u \in rows : u.id \in 1 .. last
  /\ \A u, v \in rows : u.id = v.id => u.who = v.who

(* The inductive invariant.  An account created takes an identifier after   *)
(* all given, so no cookie under way or in a browser comes to name it.      *)
OwnInv ==
  /\ restored \in Nat
  /\ restored = 0 =>
       /\ Identified(accounts, sequence)
       /\ jar = [b \in Browser |-> jar[b]] /\ reply = [b \in Browser |-> reply[b]]
       /\ \A b \in Browser : IsOwn(jar[b].cookie, accounts, sequence)
       /\ \A b \in Browser : reply[b].kind \notin {"none", "delete"} =>
            IsOwn(reply[b].cookie, accounts, sequence)
       /\ S!SessionsAreOwn

LEMMA InitOwnInv == S!Init => OwnInv
<1> SUFFICES ASSUME S!Init PROVE OwnInv
  OBVIOUS
<1>1. /\ accounts = {[id |-> 1, who |-> 1]} /\ sequence = 1 /\ restored = 0
      /\ jar = [b \in Browser |-> S!NoCookie]
      /\ reply = [b \in Browser |-> S!NoReply] /\ asked = S!NoAnswer
  BY DEF S!Init
<1>2. Identified(accounts, sequence)
  BY <1>1 DEF Identified
<1>3. \A b \in Browser : IsOwn(jar[b].cookie, accounts, sequence)
  <2> SUFFICES ASSUME NEW b \in Browser
      PROVE  IsOwn(jar[b].cookie, accounts, sequence)
    OBVIOUS
  <2>1. jar[b].cookie.uid = 0
    BY <1>1 DEF S!NoCookie
  <2>2. \A u \in accounts : u.id # 0
    BY <1>1
  <2>3. 0 \in 0 .. sequence
    BY <1>1
  <2>. QED  BY <2>1, <2>2, <2>3 DEF IsOwn
<1>4. \A b \in Browser : reply[b].kind = "none"
  BY <1>1 DEF S!NoReply
<1>5. S!SessionsAreOwn
  BY <1>1 DEF S!NoAnswer, S!SessionsAreOwn
<1>. QED  BY <1>1, <1>2, <1>3, <1>4, <1>5 DEF OwnInv

(* The answer to a request names the account of its cookie.                 *)
LEMMA AnswerIsOwn ==
  ASSUME NEW b \in Browser, IsOwn(jar[b].cookie, accounts, sequence), S!Answer(b)
  PROVE  S!SessionsAreOwn'
<1> DEFINE c == jar[b].cookie
<1>1. /\ asked'.kind = IF S!Found(c) = {} THEN "refused" ELSE "served"
      /\ asked'.cookie = c /\ asked'.users = S!Found(c)
  BY DEF S!Answer
<1>2. \A u \in S!Found(c) : u \in accounts /\ u.id = c.uid
  BY DEF S!Found
<1>3. \A u \in S!Found(c) : u.who = c.who
  BY <1>2 DEF IsOwn
<1>. QED  BY <1>1, <1>3 DEF S!SessionsAreOwn

LEMMA NextOwnInv == OwnInv /\ [S!Next]_sessionVars => OwnInv'
<1> SUFFICES ASSUME OwnInv, [S!Next]_sessionVars PROVE OwnInv'
  OBVIOUS
<1>1. restored \in Nat
  BY DEF OwnInv
<1>2. CASE restored' # restored
  <2>1. CASE S!Restore
    <3>1. restored' = restored + 1
      BY <2>1 DEF S!Restore
    <3>. QED  BY <1>1, <3>1 DEF OwnInv
  <2>. QED  BY <1>2, <2>1 DEF S!Next, sessionVars, S!SignIn, S!Receive, S!Ask, S!SignOut,
              S!CreateUser, S!DeleteUser, S!Backup, S!Tick
<1>3. CASE restored' = restored
  <2> SUFFICES ASSUME restored = 0 PROVE OwnInv'
    BY <1>1, <1>3 DEF OwnInv
  <2>0. /\ Identified(accounts, sequence)
        /\ jar = [b \in Browser |-> jar[b]] /\ reply = [b \in Browser |-> reply[b]]
        /\ \A b \in Browser : IsOwn(jar[b].cookie, accounts, sequence)
        /\ \A b \in Browser : reply[b].kind \notin {"none", "delete"} =>
             IsOwn(reply[b].cookie, accounts, sequence)
        /\ S!SessionsAreOwn
    BY DEF OwnInv
  <2>a. asked' = S!NoAnswer => S!SessionsAreOwn'
    BY DEF S!NoAnswer, S!SessionsAreOwn
  <2>1. ASSUME NEW b \in Browser, NEW u \in accounts, S!SignIn(b, u)
        PROVE  OwnInv'
    <3> DEFINE c == [uid |-> u.id, ts |-> S!Second(now), who |-> u.who,
                     since |-> now]
    <3>1. /\ reply' = [reply EXCEPT ![b] = S!Set(c)] /\ asked' = S!NoAnswer
          /\ UNCHANGED <<accounts, sequence, restored, jar>>
      BY <2>1 DEF S!SignIn
    <3>2. c.uid = u.id /\ c.who = u.who /\ S!Set(c).cookie = c
      BY DEF S!Set
    <3>3. IsOwn(c, accounts, sequence)
      BY <2>0, <3>2 DEF IsOwn, Identified
    <3> HIDE DEF c
    <3>4. /\ reply' = [x \in Browser |-> reply'[x]]
          /\ \A x \in Browser : reply'[x] = IF x = b THEN S!Set(c) ELSE reply[x]
      BY <2>0, <3>1
    <3>. QED  BY <1>1, <2>0, <2>a, <3>1, <3>2, <3>3, <3>4 DEF OwnInv
  <2>2. ASSUME NEW b \in Browser, S!Receive(b)
        PROVE  OwnInv'
    <3>1. /\ asked' = S!NoAnswer /\ UNCHANGED <<accounts, sequence, restored>>
          /\ jar' = [jar EXCEPT ![b] = jar'[b]]
          /\ reply' = [reply EXCEPT ![b] = S!NoReply]
          /\ reply[b].kind # "none"
      BY <2>0, <2>2 DEF S!Receive
    <3>2. IsOwn(jar'[b].cookie, accounts, sequence)
      <4>1. CASE reply[b].kind = "delete"
        <5>1. jar'[b] = S!NoCookie
          BY <2>0, <2>2, <4>1 DEF S!Receive
        <5>. QED  BY <2>0, <5>1 DEF S!NoCookie, IsOwn, Identified
      <4>2. CASE reply[b].kind # "delete"
        <5>1. jar'[b].cookie = reply[b].cookie
          BY <2>0, <2>2, <4>2 DEF S!Receive
        <5>. QED  BY <2>0, <3>1, <4>2, <5>1
      <4>. QED  BY <4>1, <4>2
    <3>3. S!NoReply.kind = "none"
      BY DEF S!NoReply
    <3>4. /\ jar' = [x \in Browser |-> jar'[x]] /\ reply' = [x \in Browser |-> reply'[x]]
          /\ \A x \in Browser : x # b => jar'[x] = jar[x] /\ reply'[x] = reply[x]
          /\ reply'[b] = S!NoReply
      BY <2>0, <3>1
    <3>. QED  BY <1>1, <2>0, <2>a, <3>1, <3>2, <3>3, <3>4 DEF OwnInv
  <2>3. ASSUME NEW b \in Browser, S!Ask(b)
        PROVE  OwnInv'
    <3>1. S!SessionsAreOwn'
      BY <2>0, <2>3, AnswerIsOwn DEF S!Ask
    <3>. QED  BY <1>1, <2>0, <2>3, <3>1 DEF OwnInv, S!Ask
  <2>4. ASSUME NEW b \in Browser, S!SignOut(b)
        PROVE  OwnInv'
    <3>1. S!SessionsAreOwn'
      BY <2>0, <2>4, AnswerIsOwn DEF S!SignOut
    <3>2. /\ reply' = [reply EXCEPT ![b] = S!Delete]
          /\ UNCHANGED <<accounts, sequence, restored, jar>>
      BY <2>4 DEF S!SignOut
    <3>3. S!Delete.kind = "delete"
      BY DEF S!Delete
    <3>4. /\ reply' = [x \in Browser |-> reply'[x]]
          /\ \A x \in Browser : reply'[x] = IF x = b THEN S!Delete ELSE reply[x]
      BY <2>0, <3>2
    <3>. QED  BY <1>1, <2>0, <3>1, <3>2, <3>3, <3>4 DEF OwnInv
  <2>5. CASE S!CreateUser
    <3> DEFINE n == [id |-> sequence + 1, who |-> created + 1]
    <3>1. /\ accounts' = accounts \cup {n} /\ sequence' = sequence + 1
          /\ asked' = S!NoAnswer /\ UNCHANGED <<restored, jar, reply>>
      BY <2>5 DEF S!CreateUser, S!NextId
    <3>2. n.id = sequence + 1
      OBVIOUS
    <3> HIDE DEF n
    <3>3. Identified(accounts', sequence')
      BY <2>0, <3>1, <3>2 DEF Identified
    <3>4. ASSUME NEW c, IsOwn(c, accounts, sequence)
          PROVE  IsOwn(c, accounts', sequence')
      BY <2>0, <3>1, <3>2, <3>4 DEF IsOwn, Identified
    <3>. QED  BY <1>1, <2>0, <2>a, <3>1, <3>3, <3>4 DEF OwnInv
  <2>6. ASSUME NEW u \in accounts, S!DeleteUser(u)
        PROVE  OwnInv'
    <3>1. /\ accounts' \in SUBSET accounts
          /\ asked' = S!NoAnswer /\ UNCHANGED <<sequence, restored, jar, reply>>
      BY <2>6 DEF S!DeleteUser
    <3>2. Identified(accounts', sequence')
      BY <2>0, <3>1 DEF Identified
    <3>3. ASSUME NEW c, IsOwn(c, accounts, sequence)
          PROVE  IsOwn(c, accounts', sequence')
      BY <3>1, <3>3 DEF IsOwn
    <3>. QED  BY <1>1, <2>0, <2>a, <3>1, <3>2, <3>3 DEF OwnInv
  <2>7. CASE S!Backup \/ S!Tick
    BY <1>1, <2>0, <2>a, <2>7 DEF OwnInv, S!Backup, S!Tick
  <2>8. CASE UNCHANGED sessionVars
    BY <1>1, <2>0, <2>8 DEF OwnInv, sessionVars, S!SessionsAreOwn
  <2>9. ~S!Restore
    BY <1>1, <1>3 DEF S!Restore
  <2>. QED  BY <2>1, <2>2, <2>3, <2>4, <2>5, <2>6, <2>7, <2>8, <2>9 DEF S!Next
<1>. QED  BY <1>2, <1>3

(* A step of another part leaves the sessions as they are.                  *)
LEMMA SessionSteps == AllNext \/ UNCHANGED allVars => [S!Next]_sessionVars
BY DEF AllNext, InnStep, ItemStep, TextStep, ReportStep, SessionStep, allVars

(* app_user.id comes from a sequence: while no copy is restored, whatever   *)
(* accounts are deleted and created, no session passes to another account.  *)
THEOREM SessionsStayOwn == AllSpec => []SessionsAreOwnUntilRestored
<1>1. AllInit => OwnInv
  BY InitOwnInv DEF AllInit
<1>2. OwnInv /\ [AllNext]_allVars => OwnInv'
  BY SessionSteps, NextOwnInv
<1>3. OwnInv => SessionsAreOwnUntilRestored
  BY DEF OwnInv, SessionsAreOwnUntilRestored, S!SessionsAreOwnUntilRestored
<1>. QED  BY <1>1, <1>2, <1>3, PTL DEF AllSpec

-----------------------------------------------------------------------------
(* Cutting the time to a whole second takes off less than a second.         *)
LEMMA SecondIsClose ==
  ASSUME NEW t \in Nat
  PROVE  /\ S!Second(t) \in Nat
         /\ S!Second(t) * Fine <= t /\ t < S!Second(t) * Fine + Fine
<1>1. Fine \in Nat \ {0}
  BY ApplicationAssumption DEF S!SessionsAssumption
<1>. QED  BY <1>1, SMTT(60) DEF S!Second

(* A cookie bears the second it was signed in, and the account it was given *)
(* to, wherever a row of it is kept, has the identifier of the cookie.      *)
IsStamped(c, rows, last, time) ==
  /\ c.since \in Nat /\ c.since <= time /\ c.ts = S!Second(c.since)
  /\ c.who \in 1 .. last
  /\ \A u \in rows : u.who = c.who => u.id = c.uid

(* An account is one row, with one identifier, here and in the copy.        *)
Numbered(rows, last) ==
  /\ last \in Nat
  /\ \A u \in rows : u.who \in 1 .. last
  /\ \A u, v \in rows : u.who = v.who => u.id = v.id

Rows == accounts \cup copy.rows

(* The inductive invariant.  A session refused too soon would need its      *)
(* account under another identifier: the account is told by its number of   *)
(* creation, which neither a copy nor its restoring gives a second time.    *)
HoursInv ==
  /\ now \in Nat /\ Numbered(Rows, created)
  /\ jar = [b \in Browser |-> jar[b]] /\ reply = [b \in Browser |-> reply[b]]
  /\ \A b \in Browser : \/ jar[b] = S!NoCookie
                        \/ IsStamped(jar[b].cookie, Rows, created, now)
  /\ \A b \in Browser : reply[b].kind \notin {"none", "delete"} =>
       IsStamped(reply[b].cookie, Rows, created, now)
  /\ S!SessionsLastTheirHours

LEMMA InitHoursInv == S!Init => HoursInv
<1> SUFFICES ASSUME S!Init PROVE HoursInv
  OBVIOUS
<1>1. /\ accounts = {[id |-> 1, who |-> 1]} /\ created = 1 /\ now = 0
      /\ copy = [rows |-> accounts, sequence |-> 1]
      /\ jar = [b \in Browser |-> S!NoCookie]
      /\ reply = [b \in Browser |-> S!NoReply] /\ asked = S!NoAnswer
  BY DEF S!Init
<1>2. Rows = {[id |-> 1, who |-> 1]}
  BY <1>1 DEF Rows
<1>3. Numbered(Rows, created)
  BY <1>1, <1>2 DEF Numbered
<1>4. \A b \in Browser : reply[b].kind = "none"
  BY <1>1 DEF S!NoReply
<1>5. S!SessionsLastTheirHours
  BY <1>1 DEF S!NoAnswer, S!SessionsLastTheirHours
<1>. QED  BY <1>1, <1>3, <1>4, <1>5 DEF HoursInv

(* The answer to a request is given by the hours of its cookie.             *)
LEMMA AnswerIsInTime ==
  ASSUME NEW b \in Browser, HoursInv, S!Sends(b), S!Answer(b),
         UNCHANGED now
  PROVE  S!SessionsLastTheirHours'
<1> DEFINE c == jar[b].cookie
<1>1. IsStamped(c, Rows, created, now)
  <2>1. jar[b] # S!NoCookie
    BY DEF HoursInv, S!Sends, S!NoCookie
  <2>. QED  BY <2>1 DEF HoursInv
<1>2. /\ asked'.kind = IF S!Found(c) = {} THEN "refused" ELSE "served"
      /\ asked'.cookie = c /\ asked'.living = {u.who : u \in accounts}
  BY DEF S!Answer
<1>3. now \in Nat /\ now' = now
  BY DEF HoursInv
<1>4. c.since \in Nat /\ c.since <= now /\ c.ts = S!Second(c.since)
  BY <1>1 DEF IsStamped
<1>5. /\ c.ts \in Nat /\ c.ts * Fine <= c.since
      /\ c.since < c.ts * Fine + Fine
  BY <1>4, SecondIsClose
<1>6. Hours \in Nat /\ Fine \in Nat /\ Hours * Fine \in Nat /\ c.ts * Fine \in Nat
  BY <1>5, ApplicationAssumption DEF S!SessionsAssumption
<1>7. /\ (c.ts + Hours) * Fine = c.ts * Fine + Hours * Fine
      /\ (Hours - 1) * Fine = Hours * Fine - Fine
  BY <1>5, <1>6
<1>8. CASE S!HasEnded(c)
  <2>1. asked'.kind = "refused"
    BY <1>2, <1>8 DEF S!Found
  <2>2. now > c.ts * Fine + Hours * Fine
    BY <1>7, <1>8 DEF S!HasEnded
  <2>3. now - c.since > Hours * Fine - Fine
    <3> HIDE DEF c
    <3> DEFINE h == Hours * Fine  s == c.ts * Fine
    <3>1. h \in Nat /\ s \in Nat /\ now > s + h /\ c.since < s + Fine
      BY <1>5, <1>6, <2>2
    <3> HIDE DEF h, s
    <3>2. now - c.since > h - Fine
      BY <1>3, <1>4, <1>6, <3>1
    <3>. QED  BY <3>2 DEF h
  <2>. QED  BY <1>2, <1>3, <1>7, <2>1, <2>3
             DEF S!SessionsLastTheirHours, S!Age
<1>9. CASE ~S!HasEnded(c)
  <2>1. asked'.kind = "refused" => asked'.cookie.who \notin asked'.living
    <3> SUFFICES ASSUME S!Found(c) = {}, NEW u \in accounts, u.who = c.who
        PROVE  FALSE
      BY <1>2
    <3>1. u.id = c.uid
      BY <1>1 DEF IsStamped, Rows
    <3>. QED  BY <1>9, <3>1 DEF S!Found
  <2>2. now <= c.ts * Fine + Hours * Fine
    <3> HIDE DEF c
    <3> DEFINE h == (c.ts + Hours) * Fine
    <3>1. h \in Nat
      BY <1>6, <1>7
    <3>2. ~(now > h)
      BY <1>9 DEF S!HasEnded
    <3> HIDE DEF h
    <3>3. now <= h
      BY <1>3, <3>1, <3>2
    <3>. QED  BY <1>7, <3>3 DEF h
  <2>3. now - c.since <= Hours * Fine
    <3> HIDE DEF c
    <3> DEFINE h == Hours * Fine  s == c.ts * Fine
    <3>1. h \in Nat /\ s \in Nat /\ now <= s + h /\ s <= c.since
      BY <1>5, <1>6, <2>2
    <3> HIDE DEF h, s
    <3>2. now - c.since <= h
      BY <1>3, <1>4, <3>1
    <3>. QED  BY <3>2 DEF h
  <2>. QED  BY <1>2, <1>3, <2>1, <2>3 DEF S!SessionsLastTheirHours, S!Age
<1>. QED  BY <1>8, <1>9

LEMMA NextHoursInv == HoursInv /\ [S!Next]_sessionVars => HoursInv'
<1> SUFFICES ASSUME HoursInv, [S!Next]_sessionVars PROVE HoursInv'
  OBVIOUS
<1>0. /\ now \in Nat /\ Numbered(Rows, created)
      /\ jar = [b \in Browser |-> jar[b]] /\ reply = [b \in Browser |-> reply[b]]
      /\ \A b \in Browser : \/ jar[b] = S!NoCookie
                            \/ IsStamped(jar[b].cookie, Rows, created, now)
      /\ \A b \in Browser : reply[b].kind \notin {"none", "delete"} =>
           IsStamped(reply[b].cookie, Rows, created, now)
      /\ S!SessionsLastTheirHours
  BY DEF HoursInv
<1>a. asked' = S!NoAnswer => S!SessionsLastTheirHours'
  BY DEF S!NoAnswer, S!SessionsLastTheirHours
<1>1. ASSUME NEW b \in Browser, NEW u \in accounts, S!SignIn(b, u)
      PROVE  HoursInv'
  <2> DEFINE c == [uid |-> u.id, ts |-> S!Second(now), who |-> u.who,
                   since |-> now]
  <2>1. /\ reply' = [reply EXCEPT ![b] = S!Set(c)] /\ asked' = S!NoAnswer
        /\ UNCHANGED <<now, accounts, created, copy, jar>>
    BY <1>1 DEF S!SignIn
  <2>2. /\ c.uid = u.id /\ c.who = u.who /\ c.ts = S!Second(now)
        /\ c.since = now /\ S!Set(c).cookie = c
    BY DEF S!Set
  <2> HIDE DEF c
  <2>3. IsStamped(c, Rows, created, now)
    BY <1>0, <2>2 DEF IsStamped, Numbered, Rows
  <2>4. /\ reply' = [x \in Browser |-> reply'[x]]
        /\ \A x \in Browser : reply'[x] = IF x = b THEN S!Set(c) ELSE reply[x]
    BY <1>0, <2>1
  <2>5. UNCHANGED Rows
    BY <2>1 DEF Rows
  <2>. QED  BY <1>0, <1>a, <2>1, <2>2, <2>3, <2>4, <2>5 DEF HoursInv
<1>2. ASSUME NEW b \in Browser, S!Receive(b)
      PROVE  HoursInv'
  <2>1. /\ asked' = S!NoAnswer /\ UNCHANGED <<now, accounts, created, copy>>
        /\ jar' = [jar EXCEPT ![b] = jar'[b]]
        /\ reply' = [reply EXCEPT ![b] = S!NoReply]
        /\ reply[b].kind # "none"
    BY <1>0, <1>2 DEF S!Receive
  <2>2. jar'[b] = S!NoCookie \/ IsStamped(jar'[b].cookie, Rows, created, now)
    <3>1. CASE reply[b].kind = "delete"
      BY <1>0, <1>2, <3>1 DEF S!Receive
    <3>2. CASE reply[b].kind # "delete"
      <4>1. jar'[b].cookie = reply[b].cookie
        BY <1>0, <1>2, <3>2 DEF S!Receive
      <4>. QED  BY <1>0, <2>1, <3>2, <4>1
    <3>. QED  BY <3>1, <3>2
  <2>3. S!NoReply.kind = "none"
    BY DEF S!NoReply
  <2>4. /\ jar' = [x \in Browser |-> jar'[x]] /\ reply' = [x \in Browser |-> reply'[x]]
        /\ \A x \in Browser : x # b => jar'[x] = jar[x] /\ reply'[x] = reply[x]
        /\ reply'[b] = S!NoReply
    BY <1>0, <2>1
  <2>5. UNCHANGED Rows
    BY <2>1 DEF Rows
  <2>. QED  BY <1>0, <1>a, <2>1, <2>2, <2>3, <2>4, <2>5 DEF HoursInv
<1>3. ASSUME NEW b \in Browser, S!Ask(b)
      PROVE  HoursInv'
  <2>1. UNCHANGED <<now, accounts, created, copy, jar, reply>>
    BY <1>3 DEF S!Ask
  <2>2. S!SessionsLastTheirHours'
    BY <1>3, <2>1, AnswerIsInTime DEF S!Ask
  <2>. QED  BY <1>0, <2>1, <2>2 DEF HoursInv, Rows
<1>4. ASSUME NEW b \in Browser, S!SignOut(b)
      PROVE  HoursInv'
  <2>1. /\ reply' = [reply EXCEPT ![b] = S!Delete]
        /\ UNCHANGED <<now, accounts, created, copy, jar>>
    BY <1>4 DEF S!SignOut
  <2>2. S!SessionsLastTheirHours'
    BY <1>4, <2>1, AnswerIsInTime DEF S!SignOut
  <2>3. S!Delete.kind = "delete"
    BY DEF S!Delete
  <2>4. /\ reply' = [x \in Browser |-> reply'[x]]
        /\ \A x \in Browser : reply'[x] = IF x = b THEN S!Delete ELSE reply[x]
    BY <1>0, <2>1
  <2>5. UNCHANGED Rows
    BY <2>1 DEF Rows
  <2>. QED  BY <1>0, <2>1, <2>2, <2>3, <2>4, <2>5 DEF HoursInv
<1>5. CASE S!CreateUser
  <2> DEFINE n == [id |-> S!NextId, who |-> created + 1]
  <2>1. /\ accounts' = accounts \cup {n} /\ created' = created + 1
        /\ asked' = S!NoAnswer /\ UNCHANGED <<now, copy, jar, reply>>
    BY <1>5 DEF S!CreateUser
  <2>2. n.who = created + 1
    OBVIOUS
  <2> HIDE DEF n
  <2>3. Rows' = Rows \cup {n}
    BY <2>1 DEF Rows
  <2>4. Numbered(Rows', created')
    BY <1>0, <2>1, <2>2, <2>3 DEF Numbered
  <2>5. ASSUME NEW c, IsStamped(c, Rows, created, now)
        PROVE  IsStamped(c, Rows', created', now)
    BY <1>0, <2>1, <2>2, <2>3, <2>5 DEF IsStamped, Numbered
  <2>. QED  BY <1>0, <1>a, <2>1, <2>4, <2>5 DEF HoursInv
<1>6. ASSUME UNCHANGED <<jar, reply, created>>, Rows' \in SUBSET Rows,
             asked' = S!NoAnswer, now' \in Nat, now <= now'
      PROVE  HoursInv'
  <2>1. Numbered(Rows', created')
    BY <1>0, <1>6 DEF Numbered
  <2>2. ASSUME NEW c, IsStamped(c, Rows, created, now)
        PROVE  IsStamped(c, Rows', created', now')
    BY <1>0, <1>6, <2>2 DEF IsStamped
  <2>. QED  BY <1>0, <1>a, <1>6, <2>1, <2>2 DEF HoursInv
<1>7. ASSUME NEW u \in accounts, S!DeleteUser(u)
      PROVE  HoursInv'
  BY <1>0, <1>6, <1>7 DEF S!DeleteUser, Rows
<1>8. CASE S!Backup \/ S!Restore
  BY <1>0, <1>6, <1>8 DEF S!Backup, S!Restore, Rows
<1>9. CASE S!Tick
  BY <1>0, <1>6, <1>9 DEF S!Tick, Rows
<1>10. CASE UNCHANGED sessionVars
  BY <1>0, <1>10 DEF HoursInv, sessionVars, Rows, S!SessionsLastTheirHours, S!Age
<1>. QED  BY <1>1, <1>2, <1>3, <1>4, <1>5, <1>7, <1>8, <1>9, <1>10 DEF S!Next

(* docs/TESTING.md:73: a session serves no later than SESSION_HOURS after   *)
(* the signing in, and until then while its account exists, less the part   *)
(* of a second that was cut.                                                *)
THEOREM SessionsServeTheirHours == AllSpec => []SessionsLastTheirHours
<1>1. AllInit => HoursInv
  BY InitHoursInv DEF AllInit
<1>2. HoursInv /\ [AllNext]_allVars => HoursInv'
  BY SessionSteps, NextHoursInv
<1>3. HoursInv => SessionsLastTheirHours
  BY DEF HoursInv, SessionsLastTheirHours
<1>. QED  BY <1>1, <1>2, <1>3, PTL DEF AllSpec

-----------------------------------------------------------------------------
(* What the filter of the reader wants; receipts no request changed since.  *)
Wanted(r) ==
  \/ R!IsWrong(filter)
  \/ /\ R!InPeriod(r.date, filter)
     /\ filter.supplier # Empty => r.supplier = filter.supplier

Untouched == {r \in receipts : r.id \notin touched}

FoundRight ==
  \A r \in Untouched : /\ r \in found <=> Wanted(r)
                       /\ \A x \in found : x.id = r.id => x = r

SeenRight ==
  \A r \in Untouched : r \in found =>
    R!ItemsOf(r.id, seen) = R!ItemsOf(r.id, items)

(* Receipts are dated and known by identifiers that were issued.            *)
Issued ==
  /\ \A r \in receipts : r.id \in issued /\ r.date \in Int
  /\ \A r, x \in receipts : r.id = x.id => r = x

(* The inductive invariant: of the receipts left alone, each statement of   *)
(* the list has read what is there now.                                     *)
ListInv ==
  /\ Issued
  /\ pc \in {"items", "suppliers"} => filter \in R!Filter /\ FoundRight
  /\ pc = "suppliers" => SeenRight
  /\ R!UntouchedAreShownRight

LEMMA InitListInv == R!Init => ListInv
BY DEF R!Init, ListInv, Issued, R!UntouchedAreShownRight

(* A write keeps the identifiers and leaves the receipts it did not touch   *)
(* with their items.                                                        *)
LEMMA WriteKeeps ==
  ASSUME Issued, R!Write
  PROVE  /\ Issued' /\ UNCHANGED R!reader /\ pc # "shown"
         /\ pc # "idle" => Untouched' \subseteq Untouched
         /\ pc # "idle" => \A r \in Untouched' :
              R!ItemsOf(r.id, items') = R!ItemsOf(r.id, items)
<1> DEFINE Kept == /\ Issued' /\ UNCHANGED R!reader
                   /\ pc # "idle" => Untouched' \subseteq Untouched
                   /\ pc # "idle" => \A r \in Untouched' :
                        R!ItemsOf(r.id, items') = R!ItemsOf(r.id, items)
<1>1. ASSUME NEW s \in Supplier, R!NewSupplier(s) \/ R!DeleteSupplier(s)
      PROVE  Kept
  <2>1. /\ UNCHANGED <<receipts, items, touched>> /\ UNCHANGED R!reader
        /\ issued \subseteq issued'
    BY <1>1 DEF R!NewSupplier, R!DeleteSupplier
  <2>. QED  BY <2>1 DEF Issued, Untouched
<1>2. ASSUME NEW id \in Receipt, NEW s \in Supplier, NEW d \in R!Day,
             R!CreateReceipt(id, s, d)
      PROVE  Kept
  <2> DEFINE n == [id |-> id, supplier |-> s, date |-> d]
  <2>1. /\ receipts' = receipts \cup {n} /\ issued' = issued \cup {id}
        /\ id \notin issued /\ UNCHANGED items /\ UNCHANGED R!reader
        /\ pc # "idle" => touched' = touched \cup {id}
    BY <1>2 DEF R!CreateReceipt, R!Touch
  <2>2. n.id = id /\ n.date \in Int
    BY ApplicationAssumption DEF R!Day, R!ReportAssumption
  <2> HIDE DEF n
  <2>3. Issued'
    BY <2>1, <2>2 DEF Issued
  <2>. QED  BY <2>1, <2>2, <2>3 DEF Untouched
<1>3. ASSUME NEW r \in receipts, R!DeleteReceipt(r)
      PROVE  Kept
  <2>1. /\ receipts' = receipts \ {r} /\ items' = {i \in items : i.receipt # r.id}
        /\ UNCHANGED issued /\ UNCHANGED R!reader
        /\ pc # "idle" => touched' = touched \cup {r.id}
    BY <1>3 DEF R!DeleteReceipt, R!Touch
  <2>. QED  BY <2>1 DEF Issued, Untouched, R!ItemsOf
<1>4. ASSUME NEW r \in receipts, NEW m \in Material, NEW a \in Amounts,
             R!AddItem(r, m, a)
      PROVE  Kept
  <2> DEFINE n == [receipt |-> r.id, material |-> m, amount |-> a]
  <2>1. /\ items' = items \cup {n} /\ UNCHANGED <<receipts, issued>>
        /\ UNCHANGED R!reader
        /\ pc # "idle" => touched' = touched \cup {r.id}
    BY <1>4 DEF R!AddItem, R!Touch
  <2>2. n.receipt = r.id
    OBVIOUS
  <2> HIDE DEF n
  <2>. QED  BY <2>1, <2>2 DEF Issued, Untouched, R!ItemsOf
<1>5. ASSUME NEW i \in items, R!DeleteItem(i)
      PROVE  Kept
  <2>1. /\ items' = items \ {i} /\ UNCHANGED <<receipts, issued>>
        /\ UNCHANGED R!reader
        /\ pc # "idle" => touched' = touched \cup {i.receipt}
    BY <1>5 DEF R!DeleteItem, R!Touch
  <2>. QED  BY <2>1 DEF Issued, Untouched, R!ItemsOf
<1>. QED  BY <1>1, <1>2, <1>3, <1>4, <1>5 DEF R!Write

LEMMA NextListInv == ListInv /\ [R!Next]_reportVars => ListInv'
<1> SUFFICES ASSUME ListInv, [R!Next]_reportVars PROVE ListInv'
  OBVIOUS
<1>0. /\ Issued
      /\ pc \in {"items", "suppliers"} => filter \in R!Filter /\ FoundRight
      /\ pc = "suppliers" => SeenRight
      /\ R!UntouchedAreShownRight
  BY DEF ListInv
<1>1. CASE R!Write
  <2>1. /\ Issued' /\ UNCHANGED <<pc, filter, found, seen>> /\ pc # "shown"
        /\ pc # "idle" => Untouched' \subseteq Untouched
        /\ pc # "idle" => \A r \in Untouched' :
             R!ItemsOf(r.id, items') = R!ItemsOf(r.id, items)
    BY <1>0, <1>1, WriteKeeps DEF R!reader
  <2>2. pc \in {"items", "suppliers"} => FoundRight'
    BY <1>0, <2>1 DEF FoundRight, Wanted
  <2>3. pc = "suppliers" => SeenRight'
    BY <1>0, <2>1 DEF SeenRight
  <2>4. R!UntouchedAreShownRight'
    BY <2>1 DEF R!UntouchedAreShownRight
  <2>. QED  BY <1>0, <2>1, <2>2, <2>3, <2>4 DEF ListInv
<1>2. ASSUME NEW f \in Filters, R!AskList(f)
      PROVE  ListInv'
  <2>1. /\ filter' = f /\ touched' = {} /\ UNCHANGED <<receipts, issued>>
        /\ f \in R!Filter
    BY <1>2, ApplicationAssumption DEF R!AskList, R!store, R!FiltersAssumption
  <2>2. Issued'
    BY <1>0, <2>1 DEF Issued
  <2>3. CASE pc' = "shown"
    <3>1. page'.status = 422
      BY <1>2, <2>3 DEF R!AskList, R!Page
    <3>. QED  BY <2>2, <2>3, <3>1 DEF ListInv, R!UntouchedAreShownRight
  <2>4. CASE pc' # "shown"
    <3>1. /\ pc' = "items"
          /\ found' = {r \in receipts : R!IsWrong(f) \/
                         /\ R!InPeriod(r.date, f)
                         /\ f.supplier # Empty => r.supplier = f.supplier}
      BY <1>2, <2>4 DEF R!AskList
    <3>2. FoundRight'
      BY <1>0, <2>1, <3>1 DEF FoundRight, Wanted, Untouched, Issued
    <3>. QED  BY <2>1, <2>2, <3>1, <3>2 DEF ListInv, R!UntouchedAreShownRight
  <2>. QED  BY <2>3, <2>4
<1>3. ASSUME NEW f \in Filters, R!AskReport(f)
      PROVE  ListInv'
  <2>1. /\ pc' = "shown" /\ UNCHANGED <<receipts, issued>>
        /\ page'.status \in {422, 201}
    BY <1>3 DEF R!AskReport, R!store, R!Page
  <2>. QED  BY <1>0, <2>1 DEF ListInv, Issued, R!UntouchedAreShownRight
<1>4. CASE R!LoadItems
  <2>1. /\ pc = "items" /\ pc' = "suppliers"
        /\ seen' = {i \in items : \E r \in found : r.id = i.receipt}
        /\ UNCHANGED <<receipts, items, issued, filter, found, touched>>
    BY <1>4 DEF R!LoadItems, R!store
  <2>2. SeenRight'
    BY <2>1 DEF SeenRight, R!ItemsOf
  <2>3. FoundRight' /\ Issued'
    BY <1>0, <2>1 DEF FoundRight, Wanted, Untouched, Issued
  <2>. QED  BY <1>0, <2>1, <2>2, <2>3 DEF ListInv, R!UntouchedAreShownRight
<1>5. CASE R!ShowList
  <2> DEFINE row(r, i) == [id |-> r.id, total |-> R!Total(R!ItemsOf(r.id, i))]
  <2>1. /\ pc = "suppliers" /\ pc' = "shown"
        /\ UNCHANGED <<receipts, items, issued, filter, found, seen, touched>>
        /\ page'.status = 200 =>
             ~R!IsWrong(filter) /\ page'.rows = {row(r, seen) : r \in found}
    BY <1>5 DEF R!ShowList, R!store, R!Page
  <2>2. Issued'
    BY <1>0, <2>1 DEF Issued
  <2>3. ASSUME page'.status = 200, NEW r \in receipts, r.id \notin touched
        PROVE  (/\ filter.from # Empty => r.date >= filter.from
                /\ filter.to # Empty => r.date < filter.to + 1
                /\ filter.supplier \in {Empty, r.supplier})
                 <=> row(r, items) \in page'.rows
    <3>1. r \in Untouched
      BY <2>3 DEF Untouched
    <3>2. row(r, items) \in page'.rows <=> r \in found
      <4>1. ASSUME r \in found
            PROVE  row(r, items) \in page'.rows
        BY <1>0, <2>1, <2>3, <3>1, <4>1 DEF SeenRight
      <4>2. ASSUME NEW x \in found, row(r, items) = row(x, seen)
            PROVE  r \in found
        <5>1. r.id = x.id
          BY <4>2
        <5>. QED  BY <1>0, <2>1, <3>1, <5>1 DEF FoundRight
      <4>. QED  BY <2>1, <2>3, <4>1, <4>2
    <3>3. r \in found <=> Wanted(r)
      BY <1>0, <2>1, <3>1 DEF FoundRight
    <3>4. /\ r.date \in Int
          /\ filter.from = Empty \/ filter.from \in Int
          /\ filter.to = Empty \/ filter.to \in Int
      BY <1>0, <2>1, <2>3, ApplicationAssumption
         DEF Issued, R!Filter, R!IsWrong, R!Day, R!ReportAssumption
    <3>5. filter.to \in Int => (r.date < filter.to + 1 <=> r.date <= filter.to)
      BY <3>4
    <3>6. filter.from \in Int => (r.date >= filter.from <=> filter.from <= r.date)
      BY <3>4
    <3> HIDE DEF row
    <3>7. Wanted(r) <=> /\ filter.from # Empty => filter.from <= r.date
                        /\ filter.to # Empty => r.date <= filter.to
                        /\ filter.supplier # Empty => r.supplier = filter.supplier
      BY <2>1, <2>3 DEF Wanted, R!InPeriod
    <3>. QED  BY <3>2, <3>3, <3>4, <3>5, <3>6, <3>7
  <2>4. R!UntouchedAreShownRight'
    BY <2>1, <2>3 DEF R!UntouchedAreShownRight
  <2>. QED  BY <2>1, <2>2, <2>4 DEF ListInv
<1>6. CASE R!Leave
  BY <1>0, <1>6 DEF R!Leave, R!store, ListInv, Issued, R!UntouchedAreShownRight
<1>7. CASE UNCHANGED reportVars
  <2>1. UNCHANGED <<receipts, items, issued, pc, filter, found, seen, touched, page>>
    BY <1>7 DEF reportVars
  <2>2. Issued' /\ (FoundRight => FoundRight') /\ (SeenRight => SeenRight')
    BY <1>0, <2>1 DEF Issued, FoundRight, SeenRight, Wanted, Untouched
  <2>3. R!UntouchedAreShownRight'
    BY <1>0, <2>1 DEF R!UntouchedAreShownRight
  <2>. QED  BY <1>0, <2>1, <2>2, <2>3 DEF ListInv
<1>. QED  BY <1>1, <1>2, <1>3, <1>4, <1>5, <1>6, <1>7 DEF R!Next

LEMMA ReportSteps == AllNext \/ UNCHANGED allVars => [R!Next]_reportVars
BY DEF AllNext, InnStep, ItemStep, TextStep, ReportStep, SessionStep, allVars

(* services.list_receipts reads in three statements, between which others   *)
(* write: a receipt nobody changed meanwhile is shown if and only if the    *)
(* filter wants it, with the total it has in the database.                  *)
THEOREM ListShowsTheUntouched == AllSpec => []UntouchedAreShownRight
<1>1. AllInit => ListInv
  BY InitListInv DEF AllInit
<1>2. ListInv /\ [AllNext]_allVars => ListInv'
  BY ReportSteps, NextListInv
<1>3. ListInv => UntouchedAreShownRight
  BY DEF ListInv, UntouchedAreShownRight
<1>. QED  BY <1>1, <1>2, <1>3, PTL DEF AllSpec

-----------------------------------------------------------------------------
(* The powers of ten up to the last of n.                                   *)
IsPow(f, n) == f = [k \in 0 .. n |-> IF k = 0 THEN 1 ELSE 10 * f[k - 1]]

LEMMA PowExists == \A n \in Nat : \E f : IsPow(f, n)
<1> DEFINE G == {n \in Nat : \E f : IsPow(f, n)}
<1>1. 0 \in G
  <2> DEFINE f == [k \in 0 .. 0 |-> 1]
  <2>1. IsPow(f, 0)
    BY DEF IsPow
  <2>. QED  BY <2>1
<1>2. ASSUME NEW n \in G
      PROVE  n + 1 \in G
  <2>1. PICK f : IsPow(f, n)
    OBVIOUS
  <2> DEFINE g == [k \in 0 .. n + 1 |-> IF k = n + 1 THEN 10 * f[n] ELSE f[k]]
  <2>2. ASSUME NEW k \in 0 .. n + 1
        PROVE  g[k] = IF k = 0 THEN 1 ELSE 10 * g[k - 1]
    <3>1. CASE k = n + 1
      BY <3>1
    <3>2. CASE k \in 0 .. n
      <4>1. f[k] = IF k = 0 THEN 1 ELSE 10 * f[k - 1]
        BY <2>1, <3>2 DEF IsPow
      <4>2. g[k] = f[k] /\ (k # 0 => g[k - 1] = f[k - 1])
        BY <3>2
      <4>. QED  BY <4>1, <4>2
    <3>. QED  BY <3>1, <3>2
  <2>3. g = [k \in 0 .. n + 1 |-> g[k]]
    OBVIOUS
  <2> HIDE DEF g
  <2>4. g = [k \in 0 .. n + 1 |-> IF k = 0 THEN 1 ELSE 10 * g[k - 1]]
    BY <2>2, <2>3
  <2>5. IsPow(g, n + 1)
    BY <2>4 DEF IsPow
  <2>. QED  BY <2>5
<1>3. G \in SUBSET Nat
  OBVIOUS
<1>4. G = Nat
  <2> HIDE DEF G
  <2>. QED  BY <1>1, <1>2, <1>3, AllNumbers
<1>. QED  BY <1>4

(* Two tables of powers agree where both are defined.                       *)
LEMMA PowUnique ==
  ASSUME NEW n \in Nat, NEW m \in Nat, n <= m,
         NEW f, NEW g, IsPow(f, n), IsPow(g, m)
  PROVE  \A k \in 0 .. n : f[k] = g[k]
<1> DEFINE G == {k \in Nat : k <= n => f[k] = g[k]}
<1>1. 0 \in G
  BY DEF IsPow
<1>2. ASSUME NEW k \in G
      PROVE  k + 1 \in G
  <2>1. CASE k + 1 <= n
    <3>1. f[k + 1] = 10 * f[k] /\ g[k + 1] = 10 * g[k]
      BY <2>1 DEF IsPow
    <3>. QED  BY <2>1, <3>1
  <2>. QED  BY <2>1
<1>3. G = Nat
  <2> HIDE DEF G
  <2>1. G \in SUBSET Nat
    BY DEF G
  <2>. QED  BY <1>1, <1>2, <2>1, AllNumbers
<1>. QED  BY <1>3

(* What Pow10 computes: the recursion it is defined by has a solution.      *)
LEMMA PowLaw == I!Pow10 = [k \in Nat |-> IF k = 0 THEN 1 ELSE 10 * I!Pow10[k - 1]]
<1> DEFINE part(k) == CHOOSE f : IsPow(f, k)
           F == [k \in Nat |-> part(k)[k]]
<1>1. \A k \in Nat : IsPow(part(k), k)
  BY PowExists
<1> HIDE DEF part
<1>2. ASSUME NEW k \in Nat
      PROVE  F[k] = IF k = 0 THEN 1 ELSE 10 * F[k - 1]
  <2>1. CASE k = 0
    BY <1>1, <2>1 DEF IsPow
  <2>2. CASE k # 0
    <3>1. part(k)[k] = 10 * part(k)[k - 1]
      BY <1>1, <2>2 DEF IsPow
    <3>2. k - 1 \in Nat /\ k - 1 <= k /\ k - 1 \in 0 .. (k - 1)
      BY <2>2
    <3>3. part(k - 1)[k - 1] = part(k)[k - 1]
      BY <1>1, <3>2, PowUnique
    <3>. QED  BY <2>2, <3>1, <3>2, <3>3
  <2>. QED  BY <2>1, <2>2
<1>3. F = [k \in Nat |-> F[k]]
  OBVIOUS
<1> HIDE DEF F
<1>4. F = [k \in Nat |-> IF k = 0 THEN 1 ELSE 10 * F[k - 1]]
  BY <1>2, <1>3
<1>. QED  BY <1>4 DEF I!Pow10

LEMMA PowSteps ==
  /\ I!Pow10[0] = 1
  /\ \A k \in Nat : I!Pow10[k + 1] = 10 * I!Pow10[k]
<1>1. ASSUME NEW k \in Nat
      PROVE  I!Pow10[k] = IF k = 0 THEN 1 ELSE 10 * I!Pow10[k - 1]
  BY PowLaw
<1>2. I!Pow10[0] = 1
  BY <1>1
<1>3. ASSUME NEW k \in Nat
      PROVE  I!Pow10[k + 1] = 10 * I!Pow10[k]
  <2>1. k + 1 \in Nat /\ k + 1 # 0 /\ (k + 1) - 1 = k
    OBVIOUS
  <2>. QED  BY <1>1, <2>1
<1>. QED  BY <1>2, <1>3

LEMMA PowIsPositive == \A k \in Nat : I!Pow10[k] \in Nat \ {0}
<1> DEFINE G == {k \in Nat : I!Pow10[k] \in Nat \ {0}}
<1>1. 0 \in G
  BY PowSteps
<1>2. ASSUME NEW k \in G
      PROVE  k + 1 \in G
  BY PowSteps
<1>3. G = Nat
  <2> HIDE DEF G
  <2>1. G \in SUBSET Nat
    BY DEF G
  <2>. QED  BY <1>1, <1>2, <2>1, AllNumbers
<1>. QED  BY <1>3

LEMMA PowOfSum ==
  ASSUME NEW j \in Nat, NEW k \in Nat
  PROVE  I!Pow10[j + k] = I!Pow10[j] * I!Pow10[k]
<1> DEFINE G == {n \in Nat : I!Pow10[j + n] = I!Pow10[j] * I!Pow10[n]}
<1>1. 0 \in G
  <2>1. I!Pow10[j] \in Nat /\ j + 0 = j
    BY PowIsPositive
  <2>. QED  BY <2>1, PowSteps
<1>2. ASSUME NEW n \in G
      PROVE  n + 1 \in G
  <2>1. I!Pow10[j + (n + 1)] = 10 * I!Pow10[j + n]
    <3>1. j + (n + 1) = (j + n) + 1 /\ j + n \in Nat
      OBVIOUS
    <3>. QED  BY <3>1, PowSteps
  <2>2. I!Pow10[n + 1] = 10 * I!Pow10[n]
    BY PowSteps
  <2>3. \A a, b \in Nat : 10 * (a * b) = a * (10 * b)
    OBVIOUS
  <2>4. I!Pow10[j] \in Nat /\ I!Pow10[n] \in Nat
    BY PowIsPositive
  <2>. QED  BY <2>1, <2>2, <2>3, <2>4
<1>3. G = Nat
  <2> HIDE DEF G
  <2>1. G \in SUBSET Nat
    BY DEF G
  <2>. QED  BY <1>1, <1>2, <2>1, AllNumbers
<1>. QED  BY <1>3

-----------------------------------------------------------------------------
(* Division by a positive number: one quotient leaves a rest below it.      *)
LEMMA OneQuotient ==
  ASSUME NEW u \in Nat \ {0}, NEW m \in Int, NEW r \in Int, 0 <= r, r < u
  PROVE  (m * u + r) \div u = m /\ (m * u + r) % u = r
<1> DEFINE x == m * u + r  q == x \div u  s == x % u
<1>1. x \in Int /\ m * u \in Int
  OBVIOUS
<1>2. q \in Int /\ s \in Int /\ 0 <= s /\ s < u /\ x = u * q + s
  <2> HIDE DEF x
  <2>. QED  BY <1>1
<1>3. u * q \in Int /\ u * q = q * u
  <2> HIDE DEF q
  <2>. QED  BY <1>2
<1>4. m * u + r = q * u + s
  BY <1>2, <1>3
<1> HIDE DEF q, s
<1>5. (m - q) * u = s - r
  <2>1. (m - q) * u = m * u - q * u
    BY <1>2
  <2>. QED  BY <1>1, <1>2, <1>3, <1>4, <2>1
<1>6. m - q = 0
  <2> DEFINE d == m - q
  <2>1. d \in Int /\ d * u = s - r /\ s - r < u /\ -u < s - r
    BY <1>2, <1>5
  <2> HIDE DEF d
  <2>2. d >= 1 => d * u >= u
    BY <2>1
  <2>3. d <= -1 => d * u <= -u
    BY <2>1
  <2>4. d = 0
    BY <2>1, <2>2, <2>3
  <2>. QED  BY <2>4 DEF d
<1>7. q = m /\ s = r
  <2>1. q = m
    BY <1>2, <1>6
  <2>. QED  BY <1>1, <1>2, <1>4, <2>1
<1>. QED  BY <1>7 DEF q, s

(* What has no more places than are kept is not changed by the rounding.    *)
LEMMA RoundingKeeps ==
  ASSUME NEW k \in Nat, NEW scale \in Nat, k <= scale, NEW m \in Nat
  PROVE  LET unit == I!Pow10[scale - k]
         IN I!RoundTo(m * unit, k, scale) = m * unit
<1> DEFINE u == I!Pow10[scale - k]
<1>1. u \in Nat \ {0}
  BY PowIsPositive
<1> HIDE DEF u
<1>2. m * u \in Nat /\ I!Abs(m * u) = m * u /\ ~(m * u < 0)
  BY <1>1 DEF I!Abs
<1>3. (2 * (m * u) + u) \div (2 * u) = m
  <2>1. 2 * u \in Nat \ {0} /\ 0 <= u /\ u < 2 * u /\ u \in Int
    BY <1>1
  <2>2. 2 * (m * u) = m * (2 * u)
    BY <1>1
  <2>. QED  BY <2>1, <2>2, OneQuotient
<1>4. I!RoundTo(m * u, k, scale) = m * u
  BY <1>1, <1>2, <1>3 DEF I!RoundTo, u
<1>. QED  BY <1>4 DEF u

(* round() of the database and ROUND_HALF_UP of the rules agree on what is  *)
(* not negative.                                                            *)
LEMMA RoundingsAgree ==
  ASSUME NEW k \in Nat, NEW scale \in Nat, k <= scale, NEW x \in Nat
  PROVE  LET unit == I!Pow10[scale - k]
         IN I!RoundTo(x, k, scale) \div unit =
              IF 2 * (x % unit) >= unit THEN (x \div unit) + 1 ELSE x \div unit
<1> DEFINE u == I!Pow10[scale - k]
           half == (2 * x + u) \div (2 * u)
<1>1. u \in Nat \ {0}
  BY PowIsPositive
<1> HIDE DEF u
<1> DEFINE d == x \div u  r == x % u
<1>2. d \in Int /\ r \in Int /\ 0 <= r /\ r < u /\ x = u * d + r
  BY <1>1
<1> HIDE DEF d, r
<1>3. 2 * u \in Nat \ {0} /\ u * d \in Int /\ d * (2 * u) = 2 * (u * d)
  BY <1>1, <1>2
<1>4. half = IF 2 * r >= u THEN d + 1 ELSE d
  <2>1. CASE 2 * r >= u
    <3>1. 2 * x + u = (d + 1) * (2 * u) + (2 * r - u)
      <4>1. (d + 1) * (2 * u) = d * (2 * u) + 2 * u
        BY <1>1, <1>2
      <4>. QED  BY <1>1, <1>2, <1>3, <4>1
    <3>2. /\ 0 <= 2 * r - u /\ 2 * r - u < 2 * u
          /\ 2 * r - u \in Int /\ d + 1 \in Int
      BY <1>1, <1>2, <2>1
    <3>3. ((d + 1) * (2 * u) + (2 * r - u)) \div (2 * u) = d + 1
      BY <1>3, <3>2, OneQuotient
    <3>. QED  BY <2>1, <3>1, <3>3
  <2>2. CASE ~(2 * r >= u)
    <3>1. 2 * x + u = d * (2 * u) + (2 * r + u)
      BY <1>1, <1>2, <1>3
    <3>2. 0 <= 2 * r + u /\ 2 * r + u < 2 * u /\ 2 * r + u \in Int
      BY <1>1, <1>2, <2>2
    <3>3. (d * (2 * u) + (2 * r + u)) \div (2 * u) = d
      BY <1>2, <1>3, <3>2, OneQuotient
    <3>. QED  BY <2>2, <3>1, <3>3
  <2>. QED  BY <2>1, <2>2
<1>5. I!RoundTo(x, k, scale) = half * u
  BY <1>1 DEF I!RoundTo, I!Abs, u
<1>6. half \in Int
  BY <1>2, <1>4
<1> HIDE DEF half
<1>7. (half * u) \div u = half
  <2>1. half * u + 0 = half * u
    BY <1>1, <1>6
  <2>2. (half * u + 0) \div u = half
    BY <1>1, <1>6, OneQuotient
  <2>. QED  BY <2>1, <2>2
<1>8. I!RoundTo(x, k, scale) \div u = IF 2 * r >= u THEN d + 1 ELSE d
  BY <1>4, <1>5, <1>7
<1>. QED  BY <1>8 DEF u, d, r

(* What the rules accept: numbers with no more places than the columns.     *)
IsAccepted(c) ==
  /\ {c.quantity, c.price} \subseteq Number
  /\ c.quantity.n > 0 /\ c.quantity.e >= -QuantityPlaces
  /\ c.price.n >= 0 /\ c.price.e >= -PricePlaces

(* add_item goes on to the insert only with these.                          *)
LEMMA VerdictsAccept ==
  ASSUME NEW c \in I!Command, NEW whole,
         I!QuantityVerdict(c.quantity, whole, c.via) = I!Accepted,
         I!PriceVerdict(c.price, c.via) = I!Accepted
  PROVE  IsAccepted(c)
<1>1. {c.quantity, c.price} \subseteq Number \cup I!Odd
  BY DEF I!Command, I!Entered
<1>2. \A d, via : I!WordVerdict(d, via) # I!Accepted
  BY DEF I!WordVerdict, I!Accepted, I!Answer
<1>3. I!Refused # I!Accepted
  BY DEF I!Refused, I!Accepted, I!Answer
<1>4. \A d \in Number : d.n \in Int /\ d.e \in Int
  BY ApplicationAssumption DEF I!PlacesAssumption
<1>5. QuantityPlaces \in Nat /\ PricePlaces \in Nat
  BY ApplicationAssumption DEF I!PlacesAssumption
<1>6. /\ c.quantity \notin I!Odd /\ ~(c.quantity.n <= 0)
      /\ ~(c.quantity.e < -QuantityPlaces)
  BY <1>2, <1>3 DEF I!QuantityVerdict
<1>7. c.price \notin I!Odd /\ ~(c.price.n < 0) /\ ~(c.price.e < -PricePlaces)
  BY <1>2, <1>3 DEF I!PriceVerdict
<1>. QED  BY <1>1, <1>4, <1>5, <1>6, <1>7 DEF IsAccepted

(* A number whose places the column keeps is a whole number of its units.   *)
LEMMA ColumnKeeps ==
  ASSUME NEW d \in Number, d.n >= 0,
         NEW k \in Nat, k <= Scale, d.e >= -k
  PROVE  I!Value(d) \in Nat /\ I!RoundTo(I!Value(d), k, Scale) = I!Value(d)
<1>1. d.n \in Nat /\ d.e \in Int /\ Scale \in Nat
  BY ApplicationAssumption DEF I!PlacesAssumption
<1>2. /\ d.e + k \in Nat /\ Scale - k \in Nat
      /\ (d.e + k) + (Scale - k) = d.e + Scale
  BY <1>1
<1> DEFINE a == I!Pow10[d.e + k]  u == I!Pow10[Scale - k]
<1>3. a \in Nat /\ u \in Nat
  BY <1>2, PowIsPositive
<1>4. I!Pow10[d.e + Scale] = a * u
  BY <1>2, PowOfSum
<1>5. I!Value(d) = d.n * (a * u)
  BY <1>4 DEF I!Value
<1>6. d.n * (a * u) = (d.n * a) * u /\ d.n * a \in Nat
  <2> HIDE DEF a, u
  <2>. QED  BY <1>1, <1>3
<1>7. (d.n * a) * u \in Nat
  <2> HIDE DEF u
  <2>. QED  BY <1>3, <1>6
<1> DEFINE m == d.n * a
<1>8. m \in Nat
  BY <1>6
<1> HIDE DEF m
<1>9. I!RoundTo(m * u, k, Scale) = m * u
  BY <1>1, <1>8, RoundingKeeps
<1>. QED  BY <1>5, <1>6, <1>7, <1>9 DEF m

(* Neither column rounds them, and the amounts are the same.                *)
LEMMA AcceptedIsExact ==
  ASSUME NEW c, IsAccepted(c)
  PROVE  LET v == I!RoundTo(I!Value(c.quantity), QuantityPlaces, Scale)
             w == I!RoundTo(I!Value(c.price), PricePlaces, Scale)
         IN /\ v = I!Value(c.quantity) /\ w = I!Value(c.price)
            /\ I!Computed(v, w) = I!Amount(c.quantity, c.price)
<1> DEFINE v == I!Value(c.quantity)  w == I!Value(c.price)
<1>1. /\ QuantityPlaces \in Nat /\ PricePlaces \in Nat /\ AmountPlaces \in Nat
      /\ Scale \in Nat
      /\ QuantityPlaces <= Scale /\ PricePlaces <= Scale
      /\ AmountPlaces <= 2 * Scale
      /\ \A d \in Number : d.n \in Int
  BY ApplicationAssumption DEF I!PlacesAssumption
<1>2. v \in Nat /\ I!RoundTo(v, QuantityPlaces, Scale) = v
  BY <1>1, ColumnKeeps DEF IsAccepted
<1>3. w \in Nat /\ I!RoundTo(w, PricePlaces, Scale) = w
  BY <1>1, ColumnKeeps DEF IsAccepted
<1> HIDE DEF v, w
<1>4. v * w \in Nat /\ 2 * Scale \in Nat
  BY <1>1, <1>2, <1>3
<1> DEFINE x == v * w  s == 2 * Scale
<1>5. x \in Nat /\ s \in Nat /\ AmountPlaces <= s
  BY <1>1, <1>4
<1> HIDE DEF x, s
<1> DEFINE u == I!Pow10[s - AmountPlaces]
<1>6. I!RoundTo(x, AmountPlaces, s) \div u =
        IF 2 * (x % u) >= u THEN (x \div u) + 1 ELSE x \div u
  BY <1>1, <1>5, RoundingsAgree
<1>7. I!Computed(v, w) = I!RoundTo(x, AmountPlaces, s) \div u
  BY DEF I!Computed, x, s
<1>8. I!Amount(c.quantity, c.price) =
        IF 2 * (x % u) >= u THEN (x \div u) + 1 ELSE x \div u
  BY DEF I!Amount, v, w, x, s
<1>. QED  BY <1>2, <1>3, <1>6, <1>7, <1>8 DEF v, w

(* The inductive invariant: what is about to be stored was accepted.  The   *)
(* unit of the material may change meanwhile, the places do not.            *)
EnteredInv ==
  /\ \A q \in Request : itemPc[q] = "writing" => IsAccepted(itemCmd[q])
  /\ itemPc = [q \in Request |-> itemPc[q]] /\ itemCmd = [q \in Request |-> itemCmd[q]]
  /\ I!StoredAsEntered /\ I!AmountsAgree

LEMMA InitEnteredInv == I!Init => EnteredInv
BY DEF I!Init, EnteredInv, I!StoredAsEntered, I!AmountsAgree

LEMMA NextEnteredInv == EnteredInv /\ [I!Next]_itemVars => EnteredInv'
<1> SUFFICES ASSUME EnteredInv, [I!Next]_itemVars PROVE EnteredInv'
  OBVIOUS
<1>0. /\ \A q \in Request : itemPc[q] = "writing" => IsAccepted(itemCmd[q])
      /\ itemPc = [q \in Request |-> itemPc[q]] /\ itemCmd = [q \in Request |-> itemCmd[q]]
      /\ I!StoredAsEntered /\ I!AmountsAgree
  BY DEF EnteredInv
<1>1. ASSUME NEW q \in Request, I!Insert(q)
      PROVE  EnteredInv'
  <2> DEFINE c == itemCmd[q]
             v == I!RoundTo(I!Value(c.quantity), QuantityPlaces, Scale)
             w == I!RoundTo(I!Value(c.price), PricePlaces, Scale)
             x == [material |-> c.material, quantity |-> v, price |-> w,
                   amount |-> I!Computed(v, w),
                   entered |-> <<c.quantity, c.price>>]
  <2>1. /\ itemPc[q] = "writing" /\ itemPc' = [itemPc EXCEPT ![q] = "idle"]
        /\ itemCmd' = [itemCmd EXCEPT ![q] = None]
        /\ stock' \subseteq stock \cup {x}
    BY <1>1 DEF I!Insert
  <2>2. /\ v = I!Value(c.quantity) /\ w = I!Value(c.price)
        /\ I!Computed(v, w) = I!Amount(c.quantity, c.price)
    BY <1>0, <2>1, AcceptedIsExact
  <2>3. /\ x.quantity = I!Value(x.entered[1]) /\ x.price = I!Value(x.entered[2])
        /\ x.amount = I!Amount(x.entered[1], x.entered[2])
    BY <2>2
  <2> HIDE DEF x
  <2>4. I!StoredAsEntered' /\ I!AmountsAgree'
    BY <1>0, <2>1, <2>3 DEF I!StoredAsEntered, I!AmountsAgree
  <2>5. \A r \in Request : itemPc'[r] = "writing" => IsAccepted(itemCmd'[r])
    BY <1>0, <2>1
  <2>6. /\ itemPc' = [r \in Request |-> itemPc'[r]]
        /\ itemCmd' = [r \in Request |-> itemCmd'[r]]
    BY <1>0, <2>1
  <2>. QED  BY <2>4, <2>5, <2>6 DEF EnteredInv
<1>2. ASSUME NEW q \in Request, NEW c \in I!Command, I!Check(q, c)
      PROVE  EnteredInv'
  <2>1. UNCHANGED stock
    BY <1>2 DEF I!Check
  <2>2. CASE UNCHANGED <<itemPc, itemCmd>>
    BY <1>0, <2>1, <2>2 DEF EnteredInv, I!StoredAsEntered, I!AmountsAgree
  <2>3. CASE ~UNCHANGED <<itemPc, itemCmd>>
    <3>1. /\ I!QuantityVerdict(c.quantity, piece[c.material], c.via) = I!Accepted
          /\ I!PriceVerdict(c.price, c.via) = I!Accepted
          /\ itemPc' = [itemPc EXCEPT ![q] = "writing"]
          /\ itemCmd' = [itemCmd EXCEPT ![q] = c]
      BY <1>2, <2>3 DEF I!Check
    <3>2. IsAccepted(c)
      BY <3>1, VerdictsAccept
    <3>3. \A r \in Request : itemPc'[r] = "writing" => IsAccepted(itemCmd'[r])
      BY <1>0, <3>1, <3>2
    <3>4. /\ itemPc' = [r \in Request |-> itemPc'[r]]
          /\ itemCmd' = [r \in Request |-> itemCmd'[r]]
      BY <1>0, <3>1
    <3>. QED  BY <1>0, <2>1, <3>3, <3>4
              DEF EnteredInv, I!StoredAsEntered, I!AmountsAgree
  <2>. QED  BY <2>2, <2>3
<1>3. ASSUME NEW m \in Counted, I!ChangeUnit(m)
      PROVE  EnteredInv'
  BY <1>0, <1>3 DEF I!ChangeUnit, EnteredInv, I!StoredAsEntered, I!AmountsAgree
<1>4. ASSUME NEW x \in stock, I!DeleteItem(x)
      PROVE  EnteredInv'
  BY <1>0, <1>4 DEF I!DeleteItem, EnteredInv, I!StoredAsEntered, I!AmountsAgree
<1>5. CASE UNCHANGED itemVars
  BY <1>0, <1>5 DEF itemVars, EnteredInv, I!StoredAsEntered, I!AmountsAgree
<1>. QED  BY <1>1, <1>2, <1>3, <1>4, <1>5 DEF I!Next

LEMMA ItemSteps == AllNext \/ UNCHANGED allVars => [I!Next]_itemVars
BY DEF AllNext, InnStep, ItemStep, TextStep, ReportStep, SessionStep, allVars

(* rules.py, BP-02: what a client entered is what is stored; the columns    *)
(* round nothing the rules accept, whatever places both keep.               *)
THEOREM EnteredIsStored == AllSpec => []StoredAsEntered
<1>1. AllInit => EnteredInv
  BY InitEnteredInv DEF AllInit
<1>2. EnteredInv /\ [AllNext]_allVars => EnteredInv'
  BY ItemSteps, NextEnteredInv
<1>3. EnteredInv => StoredAsEntered
  BY DEF EnteredInv, StoredAsEntered
<1>. QED  BY <1>1, <1>2, <1>3, PTL DEF AllSpec

(* rules.py, BP-03: the amount the database generates, rounded by its own   *)
(* rule, is the one the rules compute from what was entered.                *)
THEOREM AmountsAreComputed == AllSpec => []AmountsAgree
<1>1. AllInit => EnteredInv
  BY InitEnteredInv DEF AllInit
<1>2. EnteredInv /\ [AllNext]_allVars => EnteredInv'
  BY ItemSteps, NextEnteredInv
<1>3. EnteredInv => AmountsAgree
  BY DEF EnteredInv, AmountsAgree
<1>. QED  BY <1>1, <1>2, <1>3, PTL DEF AllSpec

-----------------------------------------------------------------------------
(* What FlattenSeq computes.                                                *)
LEMMA FlattenLaw ==
  ASSUME NEW parts, Len(parts) \in Nat \ {0}
  PROVE  \E f : IsFlat(f, parts, Len(parts)) /\ T!FlattenSeq(parts) = f[Len(parts)]
<1> DEFINE n == Len(parts)
           F == CHOOSE f :
                  f = [i \in 1 .. n |-> IF i = 1 THEN parts[i] ELSE f[i - 1] \o parts[i]]
<1>1. IsFlat(F, parts, n)
  BY FlatExists DEF IsFlat
<1>2. T!FlattenSeq(parts) = F[n]
  BY DEF T!FlattenSeq
<1>. QED  BY <1>1, <1>2

(* A text whose characters stand each for itself is put together unchanged. *)
LEMMA FlattenSingles ==
  ASSUME NEW t \in Seq(T!Character), NEW parts,
         parts = [i \in DOMAIN t |-> parts[i]],
         \A i \in DOMAIN t : parts[i] = <<t[i]>>
  PROVE  T!FlattenSeq(parts) = t
<1>1. /\ DOMAIN t = 1 .. Len(t) /\ Len(t) \in Nat
      /\ \A i \in 1 .. Len(t) : t[i] \in T!Character
  OBVIOUS
<1>2. Len(parts) = Len(t)
  BY <1>1
<1>3. CASE Len(t) = 0
  <2>1. T!FlattenSeq(parts) = parts
    BY <1>2, <1>3 DEF T!FlattenSeq
  <2>2. \A i \in DOMAIN t : parts[i] = t[i]
    BY <1>1, <1>3
  <2>3. parts = [i \in DOMAIN t |-> t[i]] /\ t = [i \in DOMAIN t |-> t[i]]
    BY <2>2
  <2>. QED  BY <2>1, <2>3
<1>4. CASE Len(t) # 0
  <2>1. Len(parts) \in Nat \ {0}
    BY <1>1, <1>2, <1>4
  <2>2. PICK f : IsFlat(f, parts, Len(t)) /\ T!FlattenSeq(parts) = f[Len(t)]
    BY <1>2, <2>1, FlattenLaw
  <2> DEFINE G == {n \in Nat : n + 1 \in 1 .. Len(t) => f[n + 1] = SubSeq(t, 1, n + 1)}
  <2>3. 0 \in G
    <3>1. f[1] = <<t[1]>>
      BY <1>1, <1>4, <2>2 DEF IsFlat
    <3>2. SubSeq(t, 1, 1) = SubSeq(t, 1, 0) \o <<t[1]>>
      <4>1. 1 \in 1 .. Len(t) /\ 1 - 1 = 0
        BY <1>1, <1>4
      <4>. QED  BY <4>1, SubSeqRecursiveSecond
    <3>3. SubSeq(t, 1, 0) = <<>> /\ <<>> \o <<t[1]>> = <<t[1]>>
      BY SubSeqEmpty
    <3>. QED  BY <3>1, <3>2, <3>3
  <2>4. ASSUME NEW n \in G
        PROVE  n + 1 \in G
    <3>1. SUFFICES ASSUME (n + 1) + 1 \in 1 .. Len(t)
          PROVE  f[(n + 1) + 1] = SubSeq(t, 1, (n + 1) + 1)
      OBVIOUS
    <3>2. n + 1 \in 1 .. Len(t) /\ f[n + 1] = SubSeq(t, 1, n + 1)
      BY <1>1, <3>1
    <3> DEFINE k == n + 1
    <3>3. k \in 1 .. Len(t) /\ k + 1 \in 1 .. Len(t) /\ f[k] = SubSeq(t, 1, k)
      BY <3>1, <3>2
    <3> HIDE DEF k
    <3>4. f[k + 1] = f[k] \o parts[k + 1]
      <4>1. k + 1 # 1 /\ (k + 1) - 1 = k
        BY <3>3
      <4>. QED  BY <2>2, <3>3, <4>1 DEF IsFlat
    <3>5. SubSeq(t, 1, k + 1) = SubSeq(t, 1, k) \o <<t[k + 1]>>
      <4>1. 1 \in 1 .. Len(t) /\ k + 1 \in 1 .. Len(t) /\ (k + 1) - 1 = k
        BY <1>1, <3>3
      <4>. QED  BY <4>1, SubSeqRecursiveSecond
    <3>6. parts[k + 1] = <<t[k + 1]>>
      BY <1>1, <3>3
    <3>. QED  BY <3>3, <3>4, <3>5, <3>6 DEF k
  <2>5. G = Nat
    <3> HIDE DEF G
    <3>1. G \in SUBSET Nat
      BY DEF G
    <3>. QED  BY <2>3, <2>4, <3>1, AllNumbers
  <2>6. Len(t) - 1 \in Nat /\ (Len(t) - 1) + 1 = Len(t)
    BY <1>1, <1>4
  <2>7. f[Len(t)] = SubSeq(t, 1, Len(t))
    <3> DEFINE n == Len(t) - 1
    <3>1. n \in G
      BY <2>5, <2>6
    <3>2. n + 1 = Len(t) /\ Len(t) \in 1 .. Len(t)
      BY <1>1, <1>4
    <3> HIDE DEF n
    <3>. QED  BY <3>1, <3>2
  <2>8. SubSeq(t, 1, Len(t)) = t
    BY SubSeqFull
  <2>. QED  BY <2>2, <2>7, <2>8
<1>. QED  BY <1>3, <1>4

-----------------------------------------------------------------------------
(* The first and the last of some positions of a text.                      *)
LEMMA FirstAndLast ==
  ASSUME NEW n \in Nat, NEW K \in SUBSET (1 .. n), K # {}
  PROVE  /\ T!Min(K) \in K /\ \A k \in K : T!Min(K) <= k
         /\ T!Max(K) \in K /\ \A k \in K : T!Max(K) >= k
<1>1. K \subseteq Nat
  OBVIOUS
<1>2. \E k \in K : \A j \in K : k <= j
  BY <1>1, Least
<1>3. \E k \in K : \A j \in K : k >= j
  BY Greatest
<1>. QED  BY <1>2, <1>3 DEF T!Min, T!Max

(* A text that neither begins nor ends with a blank.                        *)
IsTrimmed(t) ==
  /\ t \in Seq(T!Character)
  /\ t # <<>> => t[1] \notin T!Blank /\ t[Len(t)] \notin T!Blank

LEMMA StripTrims ==
  ASSUME NEW s \in Seq(T!Character)
  PROVE  IsTrimmed(T!Strip(s))
<1> DEFINE K == {i \in DOMAIN s : s[i] \notin T!Blank}
<1>1. DOMAIN s = 1 .. Len(s) /\ Len(s) \in Nat
  OBVIOUS
<1>2. CASE K = {}
  BY <1>2 DEF T!Strip, IsTrimmed
<1>3. CASE K # {}
  <2> DEFINE a == T!Min(K)  b == T!Max(K)
  <2>1. a \in K /\ b \in K /\ a <= b
    <3>1. K \in SUBSET (1 .. Len(s))
      BY <1>1
    <3> HIDE DEF K
    <3>. QED  BY <1>1, <1>3, <3>1, FirstAndLast
  <2>2. T!Strip(s) = SubSeq(s, a, b)
    BY <1>3 DEF T!Strip
  <2>3. /\ a \in 1 .. Len(s) /\ b \in 1 .. Len(s)
        /\ s[a] \notin T!Blank /\ s[b] \notin T!Blank
    <3> HIDE DEF a, b
    <3>. QED  BY <1>1, <2>1
  <2> HIDE DEF a, b
  <2> DEFINE t == SubSeq(s, a, b)
  <2>4. /\ t \in Seq(T!Character) /\ Len(t) = (b - a) + 1
        /\ \A i \in 1 .. Len(t) : t[i] = s[a + i - 1]
    BY <1>1, <2>1, <2>3
  <2>5. 1 \in 1 .. Len(t) /\ Len(t) \in 1 .. Len(t)
    BY <1>1, <2>1, <2>3, <2>4
  <2>6. t[1] = s[a] /\ t[Len(t)] = s[b]
    <3>1. a + 1 - 1 = a /\ a + Len(t) - 1 = b
      BY <1>1, <2>1, <2>3, <2>4
    <3>. QED  BY <2>4, <2>5, <3>1
  <2>. QED  BY <2>2, <2>3, <2>4, <2>6 DEF IsTrimmed
<1>. QED  BY <1>2, <1>3

LEMMA StripKeeps ==
  ASSUME NEW t, IsTrimmed(t)
  PROVE  T!Strip(t) = t
<1> DEFINE K == {i \in DOMAIN t : t[i] \notin T!Blank}
<1>1. t \in Seq(T!Character) /\ DOMAIN t = 1 .. Len(t) /\ Len(t) \in Nat
  BY DEF IsTrimmed
<1>2. CASE t = <<>>
  <2>1. K = {}
    BY <1>2
  <2>. QED  BY <1>2, <2>1 DEF T!Strip
<1>3. CASE t # <<>>
  <2>1. 1 \in K /\ Len(t) \in K /\ K \in SUBSET (1 .. Len(t))
    BY <1>1, <1>3 DEF IsTrimmed
  <2>2. T!Strip(t) = SubSeq(t, T!Min(K), T!Max(K))
    BY <2>1 DEF T!Strip
  <2> HIDE DEF K
  <2>3. T!Min(K) = 1 /\ T!Max(K) = Len(t)
    <3>1. /\ T!Min(K) \in 1 .. Len(t) /\ T!Min(K) <= 1
          /\ T!Max(K) \in 1 .. Len(t) /\ T!Max(K) >= Len(t)
      BY <1>1, <2>1, FirstAndLast
    <3>. QED  BY <1>1, <3>1
  <2>4. SubSeq(t, 1, Len(t)) = t
    BY <1>1
  <2>. QED  BY <2>2, <2>3, <2>4
<1>. QED  BY <1>2, <1>3

-----------------------------------------------------------------------------
(* Parts of which the first and the last are one character each.            *)
LEMMA FlattenEnds ==
  ASSUME NEW C, NEW parts, NEW a \in C, NEW b \in C, NEW n \in Nat \ {0},
         Len(parts) = n, \A i \in 1 .. n : parts[i] \in Seq(C),
         parts[1] = <<a>>, parts[n] = <<b>>
  PROVE  /\ T!FlattenSeq(parts)[1] = a
         /\ T!FlattenSeq(parts)[Len(T!FlattenSeq(parts))] = b
<1>1. Len(parts) = n
  OBVIOUS
<1>2. PICK f : IsFlat(f, parts, n) /\ T!FlattenSeq(parts) = f[n]
  BY <1>1, FlattenLaw
<1>3. /\ f[1] = parts[1]
      /\ \A k \in 1 .. n : k # 1 => f[k] = f[k - 1] \o parts[k]
  <2>1. ASSUME NEW k \in 1 .. n
        PROVE  f[k] = IF k = 1 THEN parts[k] ELSE f[k - 1] \o parts[k]
    BY <1>2 DEF IsFlat
  <2>2. 1 \in 1 .. n
    OBVIOUS
  <2>. QED  BY <2>1, <2>2
<1> DEFINE Begins(v) == v \in Seq(C) /\ v # <<>> /\ v[1] = a
           G == {m \in Nat : m + 1 \in 1 .. n => Begins(f[m + 1])}
<1>4. \A k \in 1 .. n : Begins(f[k])
  <2>1. 0 \in G
    <3>1. Begins(<<a>>)
      OBVIOUS
    <3> HIDE DEF Begins
    <3>2. Begins(f[1]) /\ 0 + 1 = 1
      BY <1>3, <3>1
    <3>. QED  BY <3>2
  <2>2. ASSUME NEW m \in G
        PROVE  m + 1 \in G
    <3> DEFINE k == m + 1
    <3>1. SUFFICES ASSUME k + 1 \in 1 .. n PROVE Begins(f[k + 1])
      BY DEF G
    <3>2. /\ k \in 1 .. n /\ Begins(f[k])
          /\ k + 1 # 1 /\ (k + 1) - 1 = k
      BY <3>1
    <3> HIDE DEF k, G
    <3>3. f[k + 1] = f[k] \o parts[k + 1] /\ parts[k + 1] \in Seq(C)
      BY <1>3, <3>1, <3>2
    <3> DEFINE v == f[k]  w == parts[k + 1]
    <3>4. v \in Seq(C) /\ w \in Seq(C) /\ v # <<>> /\ v[1] = a
      BY <3>2, <3>3
    <3> HIDE DEF v, w
    <3>5. Begins(v \o w)
      <4>1. Len(v) \in Nat \ {0} /\ Len(w) \in Nat
        BY <3>4, EmptySeq, LenProperties
      <4>2. /\ v \o w \in Seq(C) /\ Len(v \o w) = Len(v) + Len(w)
            /\ \A i \in 1 .. Len(v) + Len(w) :
                 (v \o w)[i] = IF i <= Len(v) THEN v[i] ELSE w[i - Len(v)]
        BY <3>4, ConcatProperties
      <4>3. v \o w # <<>>
        BY <3>4, ConcatEqualIffEmpty
      <4>4. (v \o w)[1] = v[1]
        BY <4>1, <4>2
      <4>. QED  BY <3>4, <4>2, <4>3, <4>4
    <3>. QED  BY <3>3, <3>5 DEF v, w
  <2>3. G = Nat
    <3>1. G \in SUBSET Nat
      OBVIOUS
    <3> HIDE DEF G
    <3>. QED  BY <2>1, <2>2, <3>1, AllNumbers
  <2>4. ASSUME NEW k \in 1 .. n
        PROVE  Begins(f[k])
    <3> DEFINE m == k - 1
    <3>1. m \in Nat /\ m + 1 = k
      OBVIOUS
    <3> HIDE DEF m, Begins
    <3>2. m \in G
      BY <2>3, <3>1
    <3>. QED  BY <3>1, <3>2
  <2>. QED  BY <2>4
<1>5. f[n][Len(f[n])] = b
  <2>1. CASE n = 1
    BY <1>3, <2>1
  <2>2. CASE n # 1
    <3> DEFINE v == f[n - 1]
    <3>1. v \in Seq(C)
      BY <1>4, <2>2
    <3>2. f[n] = v \o <<b>>
      <4>1. n \in 1 .. n
        OBVIOUS
      <4>. QED  BY <1>3, <2>2, <4>1
    <3> HIDE DEF v
    <3>3. <<b>> \in Seq(C) /\ Len(<<b>>) = 1 /\ <<b>>[1] = b /\ Len(v) \in Nat
      BY <3>1, LenProperties
    <3>4. /\ Len(v \o <<b>>) = Len(v) + 1
          /\ (v \o <<b>>)[Len(v) + 1] = b
      <4>1. /\ Len(v \o <<b>>) = Len(v) + Len(<<b>>)
            /\ \A i \in 1 .. Len(v) + Len(<<b>>) :
                 (v \o <<b>>)[i] = IF i <= Len(v) THEN v[i] ELSE <<b>>[i - Len(v)]
        BY <3>1, <3>3, ConcatProperties
      <4>2. /\ Len(v) + 1 \in 1 .. Len(v) + 1 /\ ~(Len(v) + 1 <= Len(v))
            /\ (Len(v) + 1) - Len(v) = 1
        BY <3>3
      <4>. QED  BY <3>3, <4>1, <4>2
    <3>. QED  BY <3>2, <3>4
  <2>. QED  BY <2>1, <2>2
<1>. QED  BY <1>2, <1>4, <1>5

LEMMA OneIsText ==
  ASSUME NEW C, NEW c \in C
  PROVE  <<c>> \in Seq(C)
OBVIOUS

(* An invoice number neither begins nor ends with a space, as the CHECK     *)
(* ck_receipt_invoice wants it.                                             *)
LEMMA JoinedEnds ==
  ASSUME NEW s \in Seq(T!Character), T!Joined(s) # <<>>
  PROVE  T!Joined(s)[1] # " " /\ T!Joined(s)[Len(T!Joined(s))] # " "
<1> DEFINE t == T!Strip(s)
           one(i) == IF t[i] \notin T!Blank THEN <<t[i]>>
                     ELSE IF t[i - 1] \in T!Blank THEN <<>> ELSE <<" ">>
           parts == [i \in DOMAIN t |-> one(i)]
<1>1. T!Joined(s) = T!FlattenSeq(parts)
  BY DEF T!Joined
<1>2. IsTrimmed(t)
  BY StripTrims
<1> HIDE DEF t
<1>3. /\ t \in Seq(T!Character) /\ DOMAIN t = 1 .. Len(t) /\ Len(t) \in Nat
      /\ \A i \in 1 .. Len(t) : t[i] \in T!Character
  BY <1>2, LenProperties, ElementOfSeq DEF IsTrimmed
<1>4. ASSUME NEW i \in 1 .. Len(t)
      PROVE  one(i) \in Seq(T!Character)
  <2>1. <<>> \in Seq(T!Character) /\ <<" ">> \in Seq(T!Character)
    <3>1. " " \in T!Character
      BY DEF T!Character, T!Blank
    <3>. QED  BY <3>1, OneIsText, EmptySeq
  <2>2. <<t[i]>> \in Seq(T!Character)
    BY <1>3, OneIsText
  <2>3. one(i) \in {<<t[i]>>, <<>>, <<" ">>}
    BY Zenon
  <2> HIDE DEF one
  <2>. QED  BY <2>1, <2>2, <2>3
<1>5. Len(parts) = Len(t)
  BY <1>3
<1>6. Len(t) # 0
  <2>1. SUFFICES ASSUME Len(t) = 0 PROVE FALSE
    OBVIOUS
  <2>2. T!FlattenSeq(parts) = parts
    BY <1>5, <2>1 DEF T!FlattenSeq
  <2>3. parts = <<>>
    BY <1>3, <2>1
  <2>. QED  BY <1>1, <2>2, <2>3
<1>7. /\ t[1] \notin T!Blank /\ t[Len(t)] \notin T!Blank
      /\ 1 \in 1 .. Len(t) /\ Len(t) \in 1 .. Len(t)
  BY <1>2, <1>3, <1>6 DEF IsTrimmed
<1>8. one(1) = <<t[1]>> /\ one(Len(t)) = <<t[Len(t)]>>
  BY <1>7, Zenon
<1>9. " " \in T!Blank
  BY DEF T!Blank
<1> HIDE DEF one
<1>10. /\ parts = [i \in 1 .. Len(t) |-> parts[i]]
       /\ \A i \in 1 .. Len(t) : parts[i] = one(i)
  BY <1>3
<1> HIDE DEF parts
<1> DEFINE v == T!FlattenSeq(parts)
<1>11. v[1] = t[1] /\ v[Len(v)] = t[Len(t)]
  <2> DEFINE a == t[1]  b == t[Len(t)]  n == Len(t)
  <2>1. /\ n \in Nat \ {0} /\ a \in T!Character /\ b \in T!Character
        /\ \A i \in 1 .. n : parts[i] \in Seq(T!Character)
        /\ parts[1] = <<a>> /\ parts[n] = <<b>>
        /\ Len(parts) = n
    BY <1>3, <1>4, <1>5, <1>6, <1>7, <1>8, <1>10
  <2> HIDE DEF a, b, n
  <2> HIDE DEF v
  <2>2. v[1] = a /\ v[Len(v)] = b
    BY <2>1, FlattenEnds DEF v
  <2>. QED  BY <2>2 DEF a, b
<1>. QED  BY <1>1, <1>7, <1>9, <1>11

-----------------------------------------------------------------------------
(* What is put together of texts is a text.                                 *)
LEMMA FlattenIsText ==
  ASSUME NEW C, NEW parts, NEW n \in Nat, parts = [i \in 1 .. n |-> parts[i]],
         Len(parts) = n, \A i \in 1 .. n : parts[i] \in Seq(C)
  PROVE  T!FlattenSeq(parts) \in Seq(C)
<1>1. CASE n = 0
  <2>1. parts = <<>>
    BY <1>1
  <2>. QED  BY <1>1, <2>1 DEF T!FlattenSeq
<1>2. CASE n # 0
  <2>1. PICK f : IsFlat(f, parts, n) /\ T!FlattenSeq(parts) = f[n]
    BY <1>2, FlattenLaw
  <2>2. ASSUME NEW k \in 1 .. n
        PROVE  f[k] = IF k = 1 THEN parts[k] ELSE f[k - 1] \o parts[k]
    BY <2>1 DEF IsFlat
  <2> DEFINE G == {m \in Nat : m + 1 \in 1 .. n => f[m + 1] \in Seq(C)}
  <2>3. 0 \in G
    <3>1. 1 \in 1 .. n /\ 0 + 1 = 1
      BY <1>2
    <3>2. f[1] \in Seq(C)
      BY <2>2, <3>1
    <3>. QED  BY <3>1, <3>2
  <2>4. ASSUME NEW m \in G
        PROVE  m + 1 \in G
    <3> DEFINE k == m + 1
    <3>1. SUFFICES ASSUME k + 1 \in 1 .. n PROVE f[k + 1] \in Seq(C)
      BY DEF G
    <3>2. /\ k \in 1 .. n /\ f[k] \in Seq(C)
          /\ k + 1 # 1 /\ (k + 1) - 1 = k
      BY <3>1
    <3> HIDE DEF k, G
    <3>3. f[k + 1] = f[k] \o parts[k + 1] /\ parts[k + 1] \in Seq(C)
      BY <2>2, <3>1, <3>2
    <3>. QED  BY <3>2, <3>3
  <2>5. G = Nat
    <3>1. G \in SUBSET Nat
      OBVIOUS
    <3> HIDE DEF G
    <3>. QED  BY <2>3, <2>4, <3>1, AllNumbers
  <2>6. n - 1 \in Nat /\ (n - 1) + 1 = n /\ n \in 1 .. n
    BY <1>2
  <2> DEFINE m == n - 1
  <2>7. m \in G /\ m + 1 = n /\ n \in 1 .. n
    <3> HIDE DEF G
    <3>. QED  BY <2>5, <2>6
  <2> HIDE DEF m
  <2>8. f[n] \in Seq(C)
    BY <2>7
  <2>. QED  BY <2>1, <2>8
<1>. QED  BY <1>1, <1>2

LEMMA UpperIsText ==
  ASSUME NEW t \in Seq(T!Character)
  PROVE  T!UpperText(t) \in Seq(T!Character)
<1> DEFINE parts == [i \in DOMAIN t |-> T!Upper(t[i])]
<1>1. DOMAIN t = 1 .. Len(t) /\ Len(t) \in Nat
  OBVIOUS
<1>2. {"a", "ya", "Ya", "ligature", "A"} \subseteq T!Character
  BY DEF T!Character, T!Alnum, T!Plain
<1>3. ASSUME NEW c \in T!Character
      PROVE  T!Upper(c) \in Seq(T!Character)
  <2>1. <<c>> \in Seq(T!Character)
    BY OneIsText
  <2>2. <<"A">> \in Seq(T!Character) /\ <<"Ya">> \in Seq(T!Character)
    BY <1>2, OneIsText
  <2>3. <<"A", "A">> \in Seq(T!Character)
    <3> DEFINE C == T!Character  a == "A"
    <3>1. a \in C
      BY <1>2
    <3> HIDE DEF C, a
    <3>2. <<a, a>> \in Seq(C)
      BY <3>1
    <3>. QED  BY <3>2 DEF C, a
  <2>4. T!Upper(c) \in {<<"A">>, <<"Ya">>, <<"A", "A">>, <<c>>}
    BY DEF T!Upper
  <2>. QED  BY <2>1, <2>2, <2>3, <2>4
<1>4. \A i \in 1 .. Len(t) : parts[i] \in Seq(T!Character)
  BY <1>1, <1>3
<1>5. parts = [i \in 1 .. Len(t) |-> parts[i]] /\ Len(parts) = Len(t)
  BY <1>1
<1> HIDE DEF parts
<1>6. T!FlattenSeq(parts) \in Seq(T!Character)
  BY <1>1, <1>4, <1>5, FlattenIsText
<1>. QED  BY <1>6 DEF T!UpperText, parts

(* A sku is written in capitals, which str.upper() leaves alone.            *)
LEMMA UpperKeeps ==
  ASSUME NEW t \in Seq(T!Character), T!Range(t) \subseteq T!SkuPattern
  PROVE  T!UpperText(t) = t
<1> DEFINE parts == [i \in DOMAIN t |-> T!Upper(t[i])]
<1>1. ASSUME NEW i \in DOMAIN t
      PROVE  parts[i] = <<t[i]>>
  <2>1. t[i] \in T!SkuPattern
    BY DEF T!Range
  <2>. QED  BY <2>1 DEF T!SkuPattern, T!Upper
<1>2. parts = [i \in DOMAIN t |-> parts[i]]
  OBVIOUS
<1> HIDE DEF parts
<1>3. T!FlattenSeq(parts) = t
  BY <1>1, <1>2, FlattenSingles
<1>. QED  BY <1>3 DEF T!UpperText, parts

LEMMA SkuIsTrimmed ==
  ASSUME NEW t \in Seq(T!Character), T!Range(t) \subseteq T!SkuPattern
  PROVE  IsTrimmed(t)
<1>1. T!SkuPattern \cap T!Blank = {}
  BY DEF T!SkuPattern, T!Blank
<1>2. ASSUME t # <<>>
      PROVE  t[1] \in T!Range(t) /\ t[Len(t)] \in T!Range(t)
  BY <1>2 DEF T!Range
<1>. QED  BY <1>1, <1>2 DEF IsTrimmed

-----------------------------------------------------------------------------
(* A free text that holds U+0000. *)
FreeNul(f, s) == f \in {"name", "phone"} /\ "NUL" \in T!Range(s)

(* A trimmed text has no character the text had not.                        *)
LEMMA StripAddsNothing ==
  ASSUME NEW s \in Seq(T!Character)
  PROVE  T!Range(T!Strip(s)) \subseteq T!Range(s)
<1> DEFINE K == {i \in DOMAIN s : s[i] \notin T!Blank}
<1>1. DOMAIN s = 1 .. Len(s) /\ Len(s) \in Nat
  OBVIOUS
<1>2. CASE K = {}
  BY <1>2 DEF T!Strip, T!Range
<1>3. CASE K # {}
  <2> DEFINE a == T!Min(K)  b == T!Max(K)
  <2>1. a \in K /\ b \in K /\ a <= b
    <3>1. K \in SUBSET (1 .. Len(s))
      BY <1>1
    <3> HIDE DEF K
    <3>. QED  BY <1>1, <1>3, <3>1, FirstAndLast
  <2>2. T!Strip(s) = SubSeq(s, a, b)
    BY <1>3 DEF T!Strip
  <2>3. a \in 1 .. Len(s) /\ b \in 1 .. Len(s)
    <3> HIDE DEF a, b
    <3>. QED  BY <1>1, <2>1
  <2> HIDE DEF a, b
  <2> DEFINE t == SubSeq(s, a, b)
  <2>4. DOMAIN t = 1 .. (b - a) + 1 /\ \A i \in DOMAIN t : t[i] = s[a + i - 1]
    BY <1>1, <2>1, <2>3
  <2>5. \A i \in DOMAIN t : a + i - 1 \in DOMAIN s
    BY <1>1, <2>1, <2>3, <2>4
  <2> HIDE DEF t
  <2>6. T!Range(t) \subseteq T!Range(s)
    BY <2>4, <2>5 DEF T!Range
  <2>. QED  BY <2>2, <2>6 DEF t
<1>. QED  BY <1>2, <1>3

(* What a rule accepts its column holds and its CHECK passes, U+0000 in a   *)
(* free text aside.                                                         *)
LEMMA RulesAreStrict ==
  ASSUME NEW f \in T!Fields, NEW s \in Seq(T!Character), T!Validated(f, s).ok
  PROVE  LET v == T!Validated(f, s).value
         IN /\ T!FitsColumn(f, v) \/ FreeNul(f, s)
            /\ T!Checked(f, v)
<1> DEFINE v == T!Validated(f, s).value
<1>a. ASSUME NEW accepted, NEW x, T!Unless(accepted, x).ok
      PROVE  accepted /\ T!Unless(accepted, x).value = x
  BY <1>a DEF T!Unless, T!Value, T!Refused
<1>b. \A g \in T!Fields : Limits[g][1] \in Nat /\ Limits[g][2] \in Nat /\ 1 <= Limits[g][1]
                          /\ Limits[g][1] <= Limits[g][2]
  BY ApplicationAssumption DEF T!LimitsAssumption
<1>1. CASE f = "okei_code"
  <2> DEFINE u == T!Strip(s)
             accepted == u \in Okei
  <2>1. T!Validated(f, s) = T!Unless(accepted, u)
    BY <1>1 DEF T!Validated, T!validate_okei
  <2>2. accepted /\ v = u
    <3> HIDE DEF accepted
    <3>. QED  BY <2>1, <1>a
  <2> HIDE DEF v, u
  <2>3. v \in Seq({"1"}) /\ Len(v) = Limits[f][2]
    BY <1>1, <2>2, ApplicationAssumption DEF T!LimitsAssumption
  <2>4. T!Range(v) \subseteq {"1"}
    BY <2>3 DEF T!Range
  <2>5. T!Checked(f, v)
    BY <1>1, <1>b, <2>3, <2>4 DEF T!Checked, T!Matches
  <2>6. T!FitsColumn(f, v)
    BY <1>b, <2>3, <2>4 DEF T!FitsColumn
  <2>. QED  BY <2>5, <2>6 DEF v
<1>2. CASE f = "sku"
  <2> DEFINE u == T!UpperText(T!Strip(s))
  <2>1. T!Validated(f, s) = T!Unless(T!Matches(u, T!SkuPattern, "sku"), u)
    BY <1>2 DEF T!Validated, T!validate_sku
  <2>2. v = u /\ T!Matches(v, T!SkuPattern, "sku")
    BY <2>1, <1>a
  <2> HIDE DEF v, u
  <2>3. T!Checked(f, v) /\ T!FitsColumn(f, v)
    BY <1>2, <2>2 DEF T!Checked, T!FitsColumn, T!Matches, T!SkuPattern
  <2>. QED  BY <2>3 DEF v
<1>3. CASE f = "login"
  <2> DEFINE u == T!LowerText(T!Strip(s))
  <2>1. T!Validated(f, s) = T!Unless(T!Matches(u, T!LoginPattern, "login"), u)
    BY <1>3 DEF T!Validated, T!validate_login
  <2>2. v = u /\ T!Matches(v, T!LoginPattern, "login")
    BY <2>1, <1>a
  <2> HIDE DEF v, u
  <2>3. T!Checked(f, v) /\ T!FitsColumn(f, v)
    BY <1>3, <2>2 DEF T!Checked, T!FitsColumn, T!Matches, T!LoginPattern
  <2>. QED  BY <2>3 DEF v
<1>4. CASE f = "invoice_number"
  <2> DEFINE u == T!Joined(s)
             accepted == /\ T!Matches(u, T!InvoicePattern, "invoice_number")
                         /\ T!Range(u) \cap T!Alnum # {}
  <2>1. T!Validated(f, s) = T!Unless(accepted, u)
    BY <1>4 DEF T!Validated, T!validate_invoice_number
  <2>2. accepted /\ v = u
    <3> HIDE DEF accepted
    <3>. QED  BY <2>1, <1>a
  <2>3. u # <<>>
    BY <2>2 DEF T!Range
  <2>4. u[1] # " " /\ u[Len(u)] # " "
    BY <2>3, JoinedEnds
  <2> HIDE DEF v, u
  <2>5. T!Checked(f, v) /\ T!FitsColumn(f, v)
    BY <1>4, <2>2, <2>3, <2>4
       DEF T!Checked, T!FitsColumn, T!Matches, T!InvoicePattern, T!Plain
  <2>. QED  BY <2>5 DEF v
<1>5. CASE f = "password"
  BY <1>5 DEF T!Checked, T!FitsColumn
<1>6. CASE f \in {"name", "phone"}
  <2> DEFINE u == T!Strip(s)
  <2>1. T!Validated(f, s) =
          IF u = <<>> THEN T!Unless(f = "phone", u)
          ELSE T!Unless(Limits[f][1] <= Len(u) /\ Len(u) <= Limits[f][2], u)
    BY <1>6 DEF T!Validated, T!validate_text
  <2>2. v = u /\ (u = <<>> \/ Len(u) <= Limits[f][2])
    BY <2>1, <1>a
  <2>3. Len(u) <= Limits[f][2]
    <3>1. u = <<>> => Len(u) = 0
      OBVIOUS
    <3> HIDE DEF u
    <3>. QED  BY <1>b, <2>2, <3>1
  <2>4. T!Range(u) \subseteq T!Range(s)
    BY StripAddsNothing
  <2> HIDE DEF v, u
  <2>5. T!Checked(f, v) /\ (T!FitsColumn(f, v) \/ FreeNul(f, s))
    BY <1>6, <2>2, <2>3, <2>4 DEF T!Checked, T!FitsColumn, FreeNul
  <2>. QED  BY <2>5 DEF v
<1>. QED  BY <1>1, <1>2, <1>3, <1>4, <1>5, <1>6 DEF T!Fields

(* A rule leaves alone what it accepted before.                             *)
LEMMA RulesKeep ==
  ASSUME NEW f \in {"okei_code", "sku", "name", "phone"},
         NEW s \in Seq(T!Character), T!Validated(f, s).ok
  PROVE  T!Validated(f, T!Validated(f, s).value) = T!Validated(f, s)
<1>a. ASSUME NEW accepted, NEW x, T!Unless(accepted, x).ok
      PROVE  accepted /\ T!Unless(accepted, x).value = x
  BY <1>a DEF T!Unless, T!Value, T!Refused
<1> DEFINE t == T!Strip(s)
<1>1. IsTrimmed(t) /\ T!Strip(t) = t
  BY StripTrims, StripKeeps
<1> HIDE DEF t
<1>2. CASE f = "okei_code"
  <2>1. T!Validated(f, s) = T!Unless(t \in Okei, t)
    BY <1>2 DEF T!Validated, T!validate_okei, t
  <2>2. T!Validated(f, s).value = t
    BY <2>1, <1>a
  <2>3. T!Validated(f, t) = T!Unless(t \in Okei, t)
    BY <1>1, <1>2 DEF T!Validated, T!validate_okei
  <2>. QED  BY <2>1, <2>2, <2>3
<1>3. CASE f = "sku"
  <2> DEFINE u == T!UpperText(t)
  <2>1. T!Validated(f, s) = T!Unless(T!Matches(u, T!SkuPattern, "sku"), u)
    BY <1>3 DEF T!Validated, T!validate_sku, t
  <2>2. T!Matches(u, T!SkuPattern, "sku") /\ T!Validated(f, s).value = u
    BY <2>1, <1>a
  <2>3. u \in Seq(T!Character) /\ T!Range(u) \subseteq T!SkuPattern
    BY <1>1, <2>2, UpperIsText DEF IsTrimmed, T!Matches
  <2> HIDE DEF u
  <2>4. T!Strip(u) = u /\ T!UpperText(u) = u
    BY <2>3, SkuIsTrimmed, StripKeeps, UpperKeeps
  <2>5. T!Validated(f, u) = T!Unless(T!Matches(u, T!SkuPattern, "sku"), u)
    BY <1>3, <2>4 DEF T!Validated, T!validate_sku
  <2>. QED  BY <2>1, <2>2, <2>5 DEF u
<1>4. CASE f \in {"name", "phone"}
  <2> DEFINE verdict == IF t = <<>> THEN T!Unless(f = "phone", t)
               ELSE T!Unless(Limits[f][1] <= Len(t) /\ Len(t) <= Limits[f][2], t)
  <2>1. T!Validated(f, s) = verdict
    BY <1>4 DEF T!Validated, T!validate_text, t
  <2>2. T!Validated(f, s).value = t
    BY <2>1, <1>a
  <2>3. T!Validated(f, t) = verdict
    BY <1>1, <1>4 DEF T!Validated, T!validate_text
  <2>. QED  BY <2>1, <2>2, <2>3
<1>. QED  BY <1>2, <1>3, <1>4

LEMMA LoginIsSought ==
  ASSUME NEW s, T!Validated("login", s).ok
  PROVE  T!Value(T!Sought(s)) = T!Validated("login", s)
BY DEF T!Validated, T!validate_login, T!Sought, T!Unless, T!Refused

-----------------------------------------------------------------------------
(* The inductive invariant: what is stored is what the rule accepted of the *)
(* text first entered.                                                      *)
TextInv ==
  /\ field \in T!Fields /\ entered \in Seq(T!Character)
  /\ status = 200 => stored = T!Validated(field, entered) /\ stored.ok
  /\ T!AcceptedIsStored /\ T!StoredComesBack

LEMMA InitTextInv == T!Init => TextInv
<1> SUFFICES ASSUME T!Init PROVE TextInv
  OBVIOUS
<1>1. field \in T!Fields /\ entered \in Typed /\ status = 0
  BY DEF T!Init
<1>2. entered \in Seq(T!Character)
  BY <1>1, ApplicationAssumption DEF T!LimitsAssumption
<1>. QED  BY <1>1, <1>2 DEF TextInv, T!AcceptedIsStored, T!StoredComesBack

LEMMA NextTextInv == TextInv /\ [T!Next]_textVars => TextInv'
<1> SUFFICES ASSUME TextInv, [T!Next]_textVars PROVE TextInv'
  OBVIOUS
<1>0. /\ field \in T!Fields /\ entered \in Seq(T!Character)
      /\ status = 200 => stored = T!Validated(field, entered) /\ stored.ok
      /\ T!AcceptedIsStored /\ T!StoredComesBack
  BY DEF TextInv
<1>1. CASE T!Save
  <2> DEFINE v == T!Validated(field, entered)
  <2>1. v.ok => /\ T!FitsColumn(field, v.value) \/ FreeNul(field, entered)
                /\ T!Checked(field, v.value)
    BY <1>0, RulesAreStrict
  <2>2. /\ UNCHANGED <<field, entered>>
        /\ \/ status' = 422
           \/ status' = 200 /\ stored' = v /\ v.ok
           \/ status' = 500 /\ FreeNul(field, entered)
    BY <1>1, <2>1 DEF T!Save
  <2>. QED
    BY <1>0, <2>2 DEF TextInv, T!AcceptedIsStored, T!StoredComesBack, FreeNul
<1>2. CASE T!SendBack
  <2>1. /\ status = 200 /\ field \in {"okei_code", "sku", "name", "phone"}
        /\ again' = T!Validated(field, stored.value) /\ status' = 201
        /\ UNCHANGED <<field, entered, stored>>
    BY <1>2 DEF T!SendBack
  <2>2. again' = stored
    BY <1>0, <2>1, RulesKeep
  <2>. QED  BY <1>0, <2>1, <2>2 DEF TextInv, T!AcceptedIsStored, T!StoredComesBack
<1>3. CASE T!LogIn
  <2>1. /\ status = 200 /\ field = "login"
        /\ again' = T!Value(T!Sought(entered)) /\ status' = 201
        /\ UNCHANGED <<field, entered, stored>>
    BY <1>3 DEF T!LogIn
  <2>2. again' = stored
    BY <1>0, <2>1, LoginIsSought
  <2>. QED  BY <1>0, <2>1, <2>2 DEF TextInv, T!AcceptedIsStored, T!StoredComesBack
<1>4. CASE UNCHANGED textVars
  BY <1>0, <1>4 DEF textVars, TextInv, T!AcceptedIsStored, T!StoredComesBack
<1>. QED  BY <1>1, <1>2, <1>3, <1>4 DEF T!Next

LEMMA TextSteps == AllNext \/ UNCHANGED allVars => [T!Next]_textVars
BY DEF AllNext, InnStep, ItemStep, TextStep, ReportStep, SessionStep, allVars

(* rules.py and 0001_initial.py state each rule twice: no CHECK and no      *)
(* length of a column refuses a text the rule accepted, whatever the limits *)
(* and the text, and what ends as an unexpected error is a free text with   *)
(* U+0000.                                                                  *)
THEOREM AcceptedTextsAreStored == AllSpec => []AcceptedIsStored
<1>1. AllInit => TextInv
  BY InitTextInv DEF AllInit
<1>2. TextInv /\ [AllNext]_allVars => TextInv'
  BY TextSteps, NextTextInv
<1>3. TextInv => AcceptedIsStored
  BY DEF TextInv, AcceptedIsStored
<1>. QED  BY <1>1, <1>2, <1>3, PTL DEF AllSpec

(* web.py, auth.py: a form sent back unchanged changes nothing, and an      *)
(* account is found by the login it was created with.                       *)
THEOREM StoredTextsComeBack == AllSpec => []StoredComesBack
<1>1. AllInit => TextInv
  BY InitTextInv DEF AllInit
<1>2. TextInv /\ [AllNext]_allVars => TextInv'
  BY TextSteps, NextTextInv
<1>3. TextInv => StoredComesBack
  BY DEF TextInv, StoredComesBack
<1>. QED  BY <1>1, <1>2, <1>3, PTL DEF AllSpec

-----------------------------------------------------------------------------
(* The three sums of the report: amounts of items, amounts in the rows of   *)
(* the join, totals of suppliers.                                           *)
LEMMA TotalLaw ==
  ASSUME NEW All, IsFiniteSet(All), \A x \in All : x.amount \in Nat
  PROVE  \E f : InAnyOrder(f, [x \in All |-> x.amount], All) /\ R!Total(All) = f[All]
<1> DEFINE g == [x \in All |-> x.amount]
           Step(f, s) == IF s = {} THEN 0
                         ELSE LET x == CHOOSE x \in s : TRUE IN x.amount + f[s \ {x}]
           F == CHOOSE f : f = [s \in SUBSET All |-> Step(f, s)]
<1>1. PICK f : Sums(f, g, SUBSET All)
  BY SumsExist
<1>2. ASSUME NEW h
      PROVE  h = [s \in SUBSET All |-> Step(h, s)] <=> Sums(h, g, SUBSET All)
  <2>1. ASSUME NEW s \in SUBSET All
        PROVE  Step(h, s) = IF s = {} THEN 0 ELSE g[Picked(s)] + h[s \ {Picked(s)}]
    <3>1. CASE s = {}
      BY <3>1
    <3>2. CASE s # {}
      <4>1. Picked(s) \in All
        BY <3>2 DEF Picked
      <4>. QED  BY <3>2, <4>1 DEF Picked
    <3>. QED  BY <3>1, <3>2
  <2> HIDE DEF Step
  <2>. QED  BY <2>1 DEF Sums
<1>3. Sums(F, g, SUBSET All)
  <2>1. f = [s \in SUBSET All |-> Step(f, s)]
    BY <1>1, <1>2
  <2> HIDE DEF Step
  <2>2. F = [s \in SUBSET All |-> Step(F, s)]
    BY <2>1
  <2>. QED  BY <1>2, <2>2
<1>4. R!Total(All) = F[All]
  BY DEF R!Total, R!MapThenSumSet, R!MapThenFoldSet
<1>5. InAnyOrder(F, g, All)
  <2>1. g \in [All -> Nat]
    OBVIOUS
  <2> HIDE DEF F, g
  <2>. QED  BY <1>3, <2>1, OrderDoesNotMatter
<1>. QED  BY <1>4, <1>5

(* Amounts in the rows of the join. *)
LEMMA JoinLaw ==
  ASSUME NEW All, IsFiniteSet(All), \A x \in All : x[3].amount \in Nat
  PROVE  \E f : InAnyOrder(f, [x \in All |-> x[3].amount], All) /\ R!MapThenSumSet(LAMBDA x : x[3].amount, All) = f[All]
<1> DEFINE g == [x \in All |-> x[3].amount]
           Step(f, s) == IF s = {} THEN 0
                         ELSE LET x == CHOOSE x \in s : TRUE IN x[3].amount + f[s \ {x}]
           F == CHOOSE f : f = [s \in SUBSET All |-> Step(f, s)]
<1>1. PICK f : Sums(f, g, SUBSET All)
  BY SumsExist
<1>2. ASSUME NEW h
      PROVE  h = [s \in SUBSET All |-> Step(h, s)] <=> Sums(h, g, SUBSET All)
  <2>1. ASSUME NEW s \in SUBSET All
        PROVE  Step(h, s) = IF s = {} THEN 0 ELSE g[Picked(s)] + h[s \ {Picked(s)}]
    <3>1. CASE s = {}
      BY <3>1
    <3>2. CASE s # {}
      <4>1. Picked(s) \in All
        BY <3>2 DEF Picked
      <4>. QED  BY <3>2, <4>1 DEF Picked
    <3>. QED  BY <3>1, <3>2
  <2> HIDE DEF Step
  <2>. QED  BY <2>1 DEF Sums
<1>3. Sums(F, g, SUBSET All)
  <2>1. f = [s \in SUBSET All |-> Step(f, s)]
    BY <1>1, <1>2
  <2> HIDE DEF Step
  <2>2. F = [s \in SUBSET All |-> Step(F, s)]
    BY <2>1
  <2>. QED  BY <1>2, <2>2
<1>4. R!MapThenSumSet(LAMBDA x : x[3].amount, All) = F[All]
  BY DEF R!MapThenSumSet, R!MapThenFoldSet
<1>5. InAnyOrder(F, g, All)
  <2>1. g \in [All -> Nat]
    OBVIOUS
  <2> HIDE DEF F, g
  <2>. QED  BY <1>3, <2>1, OrderDoesNotMatter
<1>. QED  BY <1>4, <1>5

(* Totals of the suppliers. *)
LEMMA RowsLaw ==
  ASSUME NEW All, IsFiniteSet(All), \A x \in All : x.total \in Nat
  PROVE  \E f : InAnyOrder(f, [x \in All |-> x.total], All) /\ R!MapThenSumSet(LAMBDA x : x.total, All) = f[All]
<1> DEFINE g == [x \in All |-> x.total]
           Step(f, s) == IF s = {} THEN 0
                         ELSE LET x == CHOOSE x \in s : TRUE IN x.total + f[s \ {x}]
           F == CHOOSE f : f = [s \in SUBSET All |-> Step(f, s)]
<1>1. PICK f : Sums(f, g, SUBSET All)
  BY SumsExist
<1>2. ASSUME NEW h
      PROVE  h = [s \in SUBSET All |-> Step(h, s)] <=> Sums(h, g, SUBSET All)
  <2>1. ASSUME NEW s \in SUBSET All
        PROVE  Step(h, s) = IF s = {} THEN 0 ELSE g[Picked(s)] + h[s \ {Picked(s)}]
    <3>1. CASE s = {}
      BY <3>1
    <3>2. CASE s # {}
      <4>1. Picked(s) \in All
        BY <3>2 DEF Picked
      <4>. QED  BY <3>2, <4>1 DEF Picked
    <3>. QED  BY <3>1, <3>2
  <2> HIDE DEF Step
  <2>. QED  BY <2>1 DEF Sums
<1>3. Sums(F, g, SUBSET All)
  <2>1. f = [s \in SUBSET All |-> Step(f, s)]
    BY <1>1, <1>2
  <2> HIDE DEF Step
  <2>2. F = [s \in SUBSET All |-> Step(F, s)]
    BY <2>1
  <2>. QED  BY <1>2, <2>2
<1>4. R!MapThenSumSet(LAMBDA x : x.total, All) = F[All]
  BY DEF R!MapThenSumSet, R!MapThenFoldSet
<1>5. InAnyOrder(F, g, All)
  <2>1. g \in [All -> Nat]
    OBVIOUS
  <2> HIDE DEF F, g
  <2>. QED  BY <1>3, <2>1, OrderDoesNotMatter
<1>. QED  BY <1>4, <1>5

(* The total of some items, read off a table for more.                      *)
LEMMA TotalOf ==
  ASSUME NEW All, IsFiniteSet(All), \A i \in All : i.amount \in Nat,
         NEW f, InAnyOrder(f, [i \in All |-> i.amount], All), NEW t \in SUBSET All
  PROVE  R!Total(t) = f[t]
<1> DEFINE g == [i \in All |-> i.amount]  e == [i \in t |-> i.amount]
           h == [i \in t |-> i]
<1>1. IsFiniteSet(t) /\ \A i \in t : i.amount \in Nat
  BY FS_Subset
<1>2. PICK k : InAnyOrder(k, e, t) /\ R!Total(t) = k[t]
  BY <1>1, TotalLaw
<1>3. {h[x] : x \in t} = t
  OBVIOUS
<1>4. OneForEach(h, t, t)
  BY <1>3 DEF OneForEach
<1>5. \A x \in t : e[h[x]] = g[x]
  OBVIOUS
<1>6. InAnyOrder(f, g, All)
  OBVIOUS
<1> HIDE DEF g, e, h
<1>7. k[t] = f[t]
  BY <1>1, <1>2, <1>4, <1>5, <1>6, SumOfImage
<1>. QED  BY <1>2, <1>7

(* What the report adds up for a filter: the suppliers asked for, the       *)
(* receipts of one in the period, and their items.                          *)
Asked(f) == {s \in suppliers : f.supplier # Empty => s = f.supplier}
Dated(f, s) == {r \in receipts : r.supplier = s /\ R!InPeriod(r.date, f)}
Sold(f, s) == {i \in items : \E r \in Dated(f, s) : r.id = i.receipt}

(* Finitely many rows, each of the shape of its table.                      *)
Tables ==
  /\ IsFiniteSet(suppliers) /\ IsFiniteSet(receipts) /\ IsFiniteSet(items)
  /\ receipts \subseteq [id : Receipt, supplier : Supplier, date : Int]
  /\ items \subseteq [receipt : Receipt, material : Material, amount : Amounts]
  /\ Issued

(* The rows of the join: one for each item of a receipt, one for a receipt  *)
(* without items, and one for a supplier without receipts.                  *)
LEMMA JoinRows ==
  ASSUME Tables, NEW f
  PROVE  /\ {x[1] : x \in R!Joined(f)} = Asked(f)
         /\ \A s \in Asked(f) :
              /\ {x[2] : x \in {x \in R!Joined(f) : x[1] = s /\ x[2] # None}} = Dated(f, s)
              /\ {x \in R!Joined(f) : x[1] = s /\ x[3] # None} =
                   {<<s, CHOOSE r \in Dated(f, s) : r.id = i.receipt, i>> : i \in Sold(f, s)}
<1> DEFINE second(s) == R!OrNone(Dated(f, s))
           third(r) == R!OrNone(IF r = None THEN {} ELSE R!ItemsOf(r.id, items))
           J == R!Joined(f)
<1>1. J = UNION {UNION {{<<s, r, i>> : i \in third(r)} : r \in second(s)} : s \in Asked(f)}
  BY DEF R!Joined, R!OuterJoin, Dated, Asked
<1>2. None \notin receipts /\ None \notin items
  BY ApplicationAssumption DEF Tables, R!ReportAssumption
<1>3. /\ \A s : second(s) # {} /\ Dated(f, s) \subseteq second(s)
               /\ second(s) \subseteq Dated(f, s) \cup {None}
      /\ \A r : /\ third(r) # {} /\ third(r) \subseteq items \cup {None}
                /\ r # None => R!ItemsOf(r.id, items) \subseteq third(r)
                /\ \A i \in third(r) : i # None => r # None /\ i \in R!ItemsOf(r.id, items)
  BY DEF R!OrNone, R!ItemsOf
<1> HIDE DEF second, third, J
<1>4. ASSUME NEW s \in Asked(f), NEW r \in second(s), NEW i \in third(r)
      PROVE  <<s, r, i>> \in J
  BY <1>1
<1>5. ASSUME NEW x \in J
      PROVE  \E s, r, i : /\ s \in Asked(f) /\ r \in second(s) /\ i \in third(r)
                        /\ x = <<s, r, i>>
  BY <1>1
<1>6. {x[1] : x \in J} = Asked(f)
  <2>1. ASSUME NEW s \in Asked(f)
        PROVE  \E x \in J : x[1] = s
    <3>1. PICK r \in second(s) : TRUE
      BY <1>3
    <3>2. PICK i \in third(r) : TRUE
      BY <1>3
    <3>3. <<s, r, i>> \in J /\ <<s, r, i>>[1] = s
      BY <1>4
    <3>. QED  BY <3>3
  <2>2. ASSUME NEW x \in J
        PROVE  x[1] \in Asked(f)
    BY <1>5
  <2>. QED  BY <2>1, <2>2
<1>7. ASSUME NEW s \in Asked(f)
      PROVE  {x[2] : x \in {x \in J : x[1] = s /\ x[2] # None}} = Dated(f, s)
  <2>1. ASSUME NEW r \in Dated(f, s)
        PROVE  \E x \in J : x[1] = s /\ x[2] # None /\ x[2] = r
    <3>1. r \in second(s) /\ r # None
      BY <1>2, <1>3 DEF Dated
    <3>2. PICK i \in third(r) : TRUE
      BY <1>3
    <3>3. <<s, r, i>> \in J /\ <<s, r, i>>[1] = s /\ <<s, r, i>>[2] = r
      BY <1>4, <3>1
    <3>. QED  BY <3>1, <3>3
  <2>2. ASSUME NEW x \in J, x[1] = s, x[2] # None
        PROVE  x[2] \in Dated(f, s)
    <3>1. PICK s1, r, i : /\ s1 \in Asked(f) /\ r \in second(s1) /\ i \in third(r)
                         /\ x = <<s1, r, i>>
      BY <1>5
    <3>2. s1 = s /\ x[2] = r
      BY <2>2, <3>1
    <3>. QED  BY <1>3, <2>2, <3>1, <3>2
  <2>. QED  BY <2>1, <2>2
<1>8. ASSUME NEW s \in Asked(f)
      PROVE  {x \in J : x[1] = s /\ x[3] # None} =
               {<<s, CHOOSE r \in Dated(f, s) : r.id = i.receipt, i>> : i \in Sold(f, s)}
  <2> DEFINE of(i) == CHOOSE r \in Dated(f, s) : r.id = i.receipt
  <2>1. ASSUME NEW i \in Sold(f, s)
        PROVE  of(i) \in Dated(f, s) /\ of(i).id = i.receipt
    BY DEF Sold
  <2>2. ASSUME NEW i, NEW r \in Dated(f, s), r.id = i.receipt
        PROVE  r = of(i)
    <3>1. of(i) \in Dated(f, s) /\ of(i).id = i.receipt
      BY <2>2
    <3>. QED  BY <2>2, <3>1 DEF Dated, Tables, Issued
  <2> HIDE DEF of
  <2>3. ASSUME NEW i \in Sold(f, s)
        PROVE  LET x == <<s, of(i), i>> IN x \in J /\ x[1] = s /\ x[3] # None
    <3>1. of(i) \in second(s) /\ of(i) # None /\ i \in items
      BY <1>2, <1>3, <2>1 DEF Dated, Sold
    <3>2. i \in third(of(i)) /\ i # None
      BY <1>2, <1>3, <2>1, <3>1 DEF R!ItemsOf
    <3>. QED  BY <1>4, <3>1, <3>2
  <2>4. ASSUME NEW x \in J, x[1] = s, x[3] # None
        PROVE  \E i \in Sold(f, s) : x = <<s, of(i), i>>
    <3>1. PICK s1, r, i : /\ s1 \in Asked(f) /\ r \in second(s1) /\ i \in third(r)
                         /\ x = <<s1, r, i>>
      BY <1>5
    <3>2. s1 = s /\ x[3] = i /\ i # None
      BY <2>4, <3>1
    <3>3. r # None /\ i \in items /\ i.receipt = r.id
      BY <1>3, <3>1, <3>2 DEF R!ItemsOf
    <3>4. r \in Dated(f, s)
      BY <1>3, <3>1, <3>2, <3>3
    <3>5. r = of(i) /\ i \in Sold(f, s)
      BY <2>2, <3>3, <3>4 DEF Sold
    <3>. QED  BY <3>1, <3>2, <3>5
  <2>5. {x \in J : x[1] = s /\ x[3] # None} = {<<s, of(i), i>> : i \in Sold(f, s)}
    BY <2>3, <2>4
  <2>. QED  BY <2>5 DEF of
<1>. QED  BY <1>6, <1>7, <1>8 DEF J

(* The report says what is stored: the rows, and the total of their totals. *)
LEMMA ReportAdds ==
  ASSUME Tables, NEW f
  PROVE  LET rows == R!Grouped(R!Joined(f))
         IN  /\ rows = {[supplier |-> s, receipts |-> R!Cardinality(Dated(f, s)),
                         total |-> R!Total(Sold(f, s))] : s \in Asked(f)}
             /\ R!MapThenSumSet(LAMBDA x : x.total, rows) =
                  R!Total({i \in items :
                             \E r \in UNION {Dated(f, s) : s \in Asked(f)} : r.id = i.receipt})
<1> DEFINE A == Asked(f)
           J == R!Joined(f)
           rows == R!Grouped(J)
           row == [s \in A |-> [supplier |-> s, receipts |-> R!Cardinality(Dated(f, s)),
                                total |-> R!Total(Sold(f, s))]]
           of(s, i) == CHOOSE r \in Dated(f, s) : r.id = i.receipt
           amount == [i \in items |-> i.amount]
<1>1. IsFiniteSet(items) /\ (\A i \in items : i.amount \in Nat) /\ IsFiniteSet(A)
  BY ApplicationAssumption, FS_Subset DEF Tables, R!ReportAssumption, Asked
<1>2. PICK F : InAnyOrder(F, amount, items)
  BY <1>1, TotalLaw
<1>3. /\ \A t \in SUBSET items : R!Total(t) = F[t] /\ F[t] \in Nat
      /\ \A s : Sold(f, s) \in SUBSET items
  <2>1. InAnyOrder(F, [i \in items |-> i.amount], items)
    BY <1>2
  <2>2. \A t \in SUBSET items : R!Total(t) = F[t]
    BY <1>1, <2>1, TotalOf
  <2>. QED  BY <2>1, <2>2 DEF InAnyOrder, Sold
<1>4. ASSUME NEW s \in A
      PROVE  R!MapThenSumSet(LAMBDA x : x[3].amount, {x \in J : x[1] = s /\ x[3] # None})
               = R!Total(Sold(f, s))
  <2> DEFINE D == Sold(f, s)
             joined == {x \in J : x[1] = s /\ x[3] # None}
             h == [i \in D |-> <<s, of(s, i), i>>]
             e == [x \in joined |-> x[3].amount]
  <2>1. IsFiniteSet(D) /\ D \in SUBSET items
    BY <1>1, <1>3, FS_Subset
  <2>2. OneForEach(h, D, joined)
    <3>1. joined = {<<s, of(s, i), i>> : i \in D}
      BY JoinRows
    <3>2. \A i \in D : h[i] = <<s, of(s, i), i>>
      OBVIOUS
    <3> HIDE DEF h, of, joined, D
    <3>3. joined = {h[i] : i \in D}
      BY <3>1, <3>2
    <3>4. \A i, j \in D : h[i] = h[j] => i = j
      BY <3>2
    <3>. QED  BY <3>3, <3>4 DEF OneForEach
  <2>3. \A i \in D : h[i] \in joined /\ h[i][3] = i
    <3>1. \A i \in D : h[i][3] = i
      OBVIOUS
    <3> HIDE DEF h, D, joined
    <3>. QED  BY <2>2, <3>1 DEF OneForEach
  <2>4. \A i \in D : e[h[i]] = amount[i]
    <3>1. \A i \in D : e[h[i]] = h[i][3].amount
      BY <2>3
    <3>2. \A i \in D : amount[i] = i.amount
      BY <2>1
    <3> HIDE DEF h, e, amount
    <3>. QED  BY <2>3, <3>1, <3>2
  <2>5. IsFiniteSet(joined)
    <3> HIDE DEF h, joined, D
    <3>. QED  BY <2>1, <2>2, ImageIsFinite
  <2>6. \A x \in joined : x[3].amount \in Nat
    <3> HIDE DEF h, joined, D
    <3>. QED  BY <1>1, <2>1, <2>2, <2>3 DEF OneForEach
  <2>7. PICK k : /\ InAnyOrder(k, e, joined)
                 /\ R!MapThenSumSet(LAMBDA x : x[3].amount, joined) = k[joined]
    <3> HIDE DEF joined
    <3>. QED  BY <2>5, <2>6, JoinLaw
  <2>8. k[joined] = F[D]
    <3> HIDE DEF joined, h, e, D, amount
    <3>. QED  BY <1>2, <2>1, <2>2, <2>4, <2>7, SumOfImage
  <2>. QED  BY <1>3, <2>7, <2>8
<1>5. rows = {row[s] : s \in A}
  <2>1. {x[1] : x \in J} = A
    BY JoinRows
  <2>2. ASSUME NEW s \in A
        PROVE  row[s] =
                 [supplier |-> s,
                  receipts |-> R!Cardinality({x[2] : x \in {x \in J : x[1] = s /\ x[2] # None}}),
                  total |-> R!MapThenSumSet(LAMBDA x : x[3].amount,
                              {x \in J : x[1] = s /\ x[3] # None})]
    <3>1. {x[2] : x \in {x \in J : x[1] = s /\ x[2] # None}} = Dated(f, s)
      BY JoinRows
    <3>2. row[s] = [supplier |-> s, receipts |-> R!Cardinality(Dated(f, s)),
                    total |-> R!Total(Sold(f, s))]
      OBVIOUS
    <3> HIDE DEF row, J
    <3>. QED  BY <1>4, <3>1, <3>2
  <2> HIDE DEF row, J, A
  <2>. QED  BY <2>1, <2>2 DEF R!Grouped
<1>6. OneForEach(row, A, rows)
  <2>1. \A s \in A : row[s].supplier = s
    OBVIOUS
  <2> HIDE DEF row, A, rows
  <2>. QED  BY <1>5, <2>1 DEF OneForEach
<1>7. R!MapThenSumSet(LAMBDA x : x.total, rows) =
        R!Total({i \in items : \E r \in UNION {Dated(f, s) : s \in A} : r.id = i.receipt})
  <2> DEFINE part == [s \in A |-> Sold(f, s)]
             g == [s \in A |-> F[part[s]]]
             e == [x \in rows |-> x.total]
             all == UNION {part[s] : s \in A}
  <2>1. g \in [A -> Nat] /\ part \in [A -> SUBSET items]
    BY <1>3
  <2>2. PICK K : InAnyOrder(K, g, A)
    <3> HIDE DEF g, A
    <3>. QED  BY <1>1, <2>1, SumsExist, OrderDoesNotMatter
  <2>3. \A s \in A : row[s] \in rows /\ row[s].total = g[s]
    <3>1. \A s \in A : row[s].total = R!Total(Sold(f, s)) /\ g[s] = F[Sold(f, s)]
      OBVIOUS
    <3> HIDE DEF row, g, A, rows
    <3>. QED  BY <1>3, <1>5, <3>1
  <2>4. IsFiniteSet(rows) /\ \A x \in rows : x.total \in Nat
    <3> HIDE DEF row, rows, A, g
    <3>1. IsFiniteSet(rows)
      BY <1>1, <1>6, ImageIsFinite
    <3>. QED  BY <1>5, <2>1, <2>3, <3>1
  <2>5. PICK k : InAnyOrder(k, e, rows) /\ R!MapThenSumSet(LAMBDA x : x.total, rows) = k[rows]
    <3> HIDE DEF rows
    <3>. QED  BY <2>4, RowsLaw
  <2>6. k[rows] = K[A]
    <3>1. \A s \in A : e[row[s]] = g[s]
      <4>1. \A x \in rows : e[x] = x.total
        OBVIOUS
      <4> HIDE DEF row, rows, A, g, e
      <4>. QED  BY <2>3, <4>1
    <3> HIDE DEF row, rows, A, g, e
    <3>2. A \in SUBSET A
      OBVIOUS
    <3>. QED  BY <1>1, <1>6, <2>2, <2>5, <3>1, <3>2, SumOfImage
  <2>7. K[A] = F[all]
    <3>1. ASSUME NEW s \in A, NEW t \in A, s # t
          PROVE  part[s] \cap part[t] = {}
      <4>1. part[s] = Sold(f, s) /\ part[t] = Sold(f, t)
        OBVIOUS
      <4> HIDE DEF part
      <4>. QED  BY <3>1, <4>1 DEF Tables, Issued, Sold, Dated
    <3>2. InAnyOrder(K, [s \in A |-> F[part[s]]], A)
      BY <2>2
    <3>3. amount \in [items -> Nat]
      BY <1>1
    <3> HIDE DEF part, amount, A, g
    <3>. QED  BY <1>1, <1>2, <2>1, <3>1, <3>2, <3>3, SumOfParts
  <2>8. all = {i \in items : \E r \in UNION {Dated(f, s) : s \in A} : r.id = i.receipt}
    <3>1. all = UNION {Sold(f, s) : s \in A}
      OBVIOUS
    <3> HIDE DEF all, A, part
    <3>. QED  BY <3>1 DEF Sold
  <2>9. R!Total(all) = F[all]
    BY <1>3
  <2>. QED  BY <2>5, <2>6, <2>7, <2>8, <2>9
<1>. QED  BY <1>5, <1>7

(* The inductive invariant: nothing is written while the report is shown.   *)
ReportInv == Tables /\ R!ReportIsTrue

LEMMA InitReportInv == R!Init => ReportInv
BY FS_EmptySet DEF R!Init, ReportInv, Tables, Issued, R!ReportIsTrue

(* A write keeps the tables finite and their rows in shape.                 *)
LEMMA WriteKeepsTables ==
  ASSUME Tables, R!Write
  PROVE  Tables'
<1>1. Issued'
  BY WriteKeeps DEF Tables
<1>2. ASSUME NEW s \in Supplier, R!NewSupplier(s) \/ R!DeleteSupplier(s)
      PROVE  Tables'
  <2>1. /\ suppliers' \in {suppliers \cup {s}, suppliers \ {s}}
        /\ UNCHANGED <<receipts, items>>
    BY <1>2 DEF R!NewSupplier, R!DeleteSupplier
  <2>2. IsFiniteSet(suppliers')
    BY <2>1, FS_AddElement, FS_RemoveElement DEF Tables
  <2>. QED  BY <1>1, <2>1, <2>2 DEF Tables
<1>3. ASSUME NEW id \in Receipt, NEW s \in Supplier, NEW d \in R!Day,
             R!CreateReceipt(id, s, d)
      PROVE  Tables'
  <2> DEFINE n == [id |-> id, supplier |-> s, date |-> d]
  <2>1. n \in [id : Receipt, supplier : Supplier, date : Int]
    BY ApplicationAssumption DEF R!Day, R!ReportAssumption
  <2>2. receipts' = receipts \cup {n} /\ UNCHANGED <<suppliers, items>>
    BY <1>3 DEF R!CreateReceipt
  <2> HIDE DEF n
  <2>3. IsFiniteSet(receipts')
    BY <2>2, FS_AddElement DEF Tables
  <2>. QED  BY <1>1, <2>1, <2>2, <2>3 DEF Tables
<1>4. ASSUME NEW r \in receipts, R!DeleteReceipt(r)
      PROVE  Tables'
  <2>1. /\ receipts' \in SUBSET receipts /\ items' \in SUBSET items
        /\ UNCHANGED suppliers
    BY <1>4 DEF R!DeleteReceipt
  <2>2. IsFiniteSet(receipts') /\ IsFiniteSet(items')
    BY <2>1, FS_Subset DEF Tables
  <2>. QED  BY <1>1, <2>1, <2>2 DEF Tables
<1>5. ASSUME NEW r \in receipts, NEW m \in Material, NEW a \in Amounts,
             R!AddItem(r, m, a)
      PROVE  Tables'
  <2> DEFINE n == [receipt |-> r.id, material |-> m, amount |-> a]
  <2>1. n \in [receipt : Receipt, material : Material, amount : Amounts]
    BY DEF Tables
  <2>2. items' = items \cup {n} /\ UNCHANGED <<suppliers, receipts>>
    BY <1>5 DEF R!AddItem
  <2> HIDE DEF n
  <2>3. IsFiniteSet(items')
    BY <2>2, FS_AddElement DEF Tables
  <2>. QED  BY <1>1, <2>1, <2>2, <2>3 DEF Tables
<1>6. ASSUME NEW i \in items, R!DeleteItem(i)
      PROVE  Tables'
  <2>1. items' = items \ {i} /\ UNCHANGED <<suppliers, receipts>>
    BY <1>6 DEF R!DeleteItem
  <2>2. IsFiniteSet(items')
    BY <2>1, FS_RemoveElement DEF Tables
  <2>. QED  BY <1>1, <2>1, <2>2 DEF Tables
<1>. QED  BY <1>2, <1>3, <1>4, <1>5, <1>6 DEF R!Write

(* What the report must show, in terms of what was stored before the step.  *)
LEMMA SameReport ==
  ASSUME UNCHANGED <<suppliers, receipts, items>>, NEW f, filter' = f
  PROVE  R!ReportIsTrue' <=>
           (pc' = "shown" /\ page'.status = 201 =>
              /\ page'.rows = {[supplier |-> s, receipts |-> R!Cardinality(Dated(f, s)),
                                total |-> R!Total(Sold(f, s))] : s \in Asked(f)}
              /\ page'.total =
                   R!Total({i \in items :
                      \E r \in UNION {Dated(f, s) : s \in Asked(f)} : r.id = i.receipt}))
<1> DEFINE of == UNION {Dated(f, s) : s \in Asked(f)}
           later == UNION {Dated(filter, s)' : s \in Asked(filter)'}
           here == {i \in items : \E r \in of : r.id = i.receipt}
           then == {i \in items' : \E r \in later : r.id = i.receipt}
           truth(s) == [supplier |-> s, receipts |-> R!Cardinality(Dated(f, s)),
                        total |-> R!Total(Sold(f, s))]
           next(s) == [supplier |-> s, receipts |-> R!Cardinality(Dated(filter, s)'),
                       total |-> R!Total(Sold(filter, s)')]
<1>1. /\ Asked(filter)' = Asked(f)
      /\ \A s : Dated(filter, s)' = Dated(f, s) /\ Sold(filter, s)' = Sold(f, s)
  BY DEF Asked, Dated, Sold
<1>2. R!ReportIsTrue' <=>
        (pc' = "shown" /\ page'.status = 201 =>
           /\ page'.rows = {next(s) : s \in Asked(filter)'}
           /\ page'.total = R!Total(then))
  BY DEF R!ReportIsTrue, Asked, Dated, Sold
<1>3. {next(s) : s \in Asked(filter)'} = {truth(s) : s \in Asked(f)}
  BY <1>1
<1>4. then = here
  <2>1. later = of
    BY <1>1
  <2> HIDE DEF later, of
  <2>. QED  BY <2>1
<1> HIDE DEF truth, next, then, here
<1>5. R!ReportIsTrue' <=>
        (pc' = "shown" /\ page'.status = 201 =>
           page'.rows = {truth(s) : s \in Asked(f)} /\ page'.total = R!Total(here))
  BY <1>2, <1>3, <1>4
<1>. QED  BY <1>5 DEF truth, here

LEMMA NextReportInv == ReportInv /\ [R!Next]_reportVars => ReportInv'
<1> SUFFICES ASSUME ReportInv, [R!Next]_reportVars PROVE ReportInv'
  OBVIOUS
<1>0. Tables /\ R!ReportIsTrue
  BY DEF ReportInv
<1>1. CASE R!Write
  <2>1. Tables' /\ pc' = pc /\ pc # "shown"
    BY <1>0, <1>1, WriteKeeps, WriteKeepsTables DEF Tables, R!reader
  <2>. QED  BY <2>1 DEF ReportInv, R!ReportIsTrue
<1>2. ASSUME UNCHANGED <<suppliers, receipts, items, issued>>
      PROVE  Tables'
  BY <1>0, <1>2 DEF Tables, Issued
<1>3. ASSUME NEW f \in Filters, R!AskReport(f)
      PROVE  ReportInv'
  <2> DEFINE rows == R!Grouped(R!Joined(f))
             truth(s) == [supplier |-> s, receipts |-> R!Cardinality(Dated(f, s)),
                          total |-> R!Total(Sold(f, s))]
             counted == {i \in items :
                           \E r \in UNION {Dated(f, s) : s \in Asked(f)} : r.id = i.receipt}
  <2>1. /\ UNCHANGED <<suppliers, receipts, items, issued>> /\ filter' = f
        /\ page'.status = 201 =>
             /\ page'.rows = rows
             /\ page'.total = R!MapThenSumSet(LAMBDA x : x.total, rows)
    BY <1>3 DEF R!AskReport, R!Page, R!store
  <2>2. /\ rows = {truth(s) : s \in Asked(f)}
        /\ R!MapThenSumSet(LAMBDA x : x.total, rows) = R!Total(counted)
    BY <1>0, ReportAdds
  <2>3. R!ReportIsTrue' <=>
          (pc' = "shown" /\ page'.status = 201 =>
             page'.rows = {truth(s) : s \in Asked(f)} /\ page'.total = R!Total(counted))
    BY <2>1, SameReport
  <2> HIDE DEF rows, truth, counted
  <2>4. R!ReportIsTrue'
    BY <2>1, <2>2, <2>3
  <2>. QED  BY <1>2, <2>1, <2>4 DEF ReportInv
<1>4. ASSUME NEW f \in Filters, R!AskList(f)
      PROVE  ReportInv'
  <2>1. /\ UNCHANGED <<suppliers, receipts, items, issued>>
        /\ page'.status \in {0, 422}
    BY <1>4 DEF R!AskList, R!store, R!Page, R!NoPage
  <2>. QED  BY <1>2, <2>1 DEF ReportInv, R!ReportIsTrue
<1>5. CASE R!LoadItems
  <2>1. UNCHANGED <<suppliers, receipts, items, issued>> /\ pc' = "suppliers"
    BY <1>5 DEF R!LoadItems, R!store
  <2>. QED  BY <1>2, <2>1 DEF ReportInv, R!ReportIsTrue
<1>6. CASE R!ShowList
  <2>1. /\ UNCHANGED <<suppliers, receipts, items, issued>>
        /\ page'.status \in {500, 422, 200}
    BY <1>6 DEF R!ShowList, R!store, R!Page
  <2>. QED  BY <1>2, <2>1 DEF ReportInv, R!ReportIsTrue
<1>7. CASE R!Leave
  <2>1. UNCHANGED <<suppliers, receipts, items, issued>> /\ pc' = "idle"
    BY <1>7 DEF R!Leave, R!store
  <2>. QED  BY <1>2, <2>1 DEF ReportInv, R!ReportIsTrue
<1>8. CASE UNCHANGED reportVars
  <2>1. UNCHANGED <<suppliers, receipts, items, issued, pc, filter, page>>
    BY <1>8 DEF reportVars
  <2>2. R!ReportIsTrue'
    <3> DEFINE f == filter
               truth(s) == [supplier |-> s, receipts |-> R!Cardinality(Dated(f, s)),
                            total |-> R!Total(Sold(f, s))]
               counted == {i \in items :
                             \E r \in UNION {Dated(f, s) : s \in Asked(f)} : r.id = i.receipt}
    <3>1. pc = "shown" /\ page.status = 201 =>
            page.rows = {truth(s) : s \in Asked(f)} /\ page.total = R!Total(counted)
      BY <1>0 DEF R!ReportIsTrue, Asked, Dated, Sold
    <3>2. R!ReportIsTrue' <=>
            (pc' = "shown" /\ page'.status = 201 =>
               page'.rows = {truth(s) : s \in Asked(f)} /\ page'.total = R!Total(counted))
      BY <2>1, SameReport
    <3> HIDE DEF truth, counted
    <3>. QED  BY <2>1, <3>1, <3>2
  <2>. QED  BY <1>2, <2>1, <2>2 DEF ReportInv
<1>. QED  BY <1>1, <1>3, <1>4, <1>5, <1>6, <1>7, <1>8 DEF R!Next

(* services.receipts_report: grouped rows of an outer join say what is      *)
(* stored.  Every supplier asked for has its row, every receipt of the      *)
(* period counts once, and the total is that of the items of the rows.      *)
THEOREM ReportSaysWhatIsStored == AllSpec => []ReportIsTrue
<1>1. AllInit => ReportInv
  BY InitReportInv DEF AllInit
<1>2. ReportInv /\ [AllNext]_allVars => ReportInv'
  BY ReportSteps, NextReportInv
<1>3. ReportInv => ReportIsTrue
  BY DEF ReportInv, ReportIsTrue
<1>. QED  BY <1>1, <1>2, <1>3, PTL DEF AllSpec

=============================================================================
