--------------------------------- MODULE Inn ---------------------------------
(***************************************************************************)
(* BP-05, the INN of a supplier: the checksum of rules.validate_inn, what  *)
(* it is there for (a digit typed wrong is noticed) and the CHECK          *)
(* ck_supplier_inn behind it.  A user copies the number of an organisation *)
(* (10 digits) or of an entrepreneur (12 digits) into the form, exactly,   *)
(* with one digit replaced, or with characters that are not 0 to 9.        *)
(***************************************************************************)
EXTENDS Integers

CONSTANT Numbers    (* the numbers users copy *)

Digit == 0..9

-----------------------------------------------------------------------------
(* _checksum with the weights _INN10, _INN11 and _INN12, written out. *)

Sum10(d) == 2*d[1] + 4*d[2] + 10*d[3] + 3*d[4] + 5*d[5] + 9*d[6] + 4*d[7]
            + 6*d[8] + 8*d[9]

Sum11(d) == 7*d[1] + 2*d[2] + 4*d[3] + 10*d[4] + 3*d[5] + 5*d[6] + 9*d[7]
            + 4*d[8] + 6*d[9] + 8*d[10]

(* Faulty: the weights start at the second of them. *)
Sum12Shifted(d) == 7*d[1] + 2*d[2] + 4*d[3] + 10*d[4] + 3*d[5] + 5*d[6] + 9*d[7]
                   + 4*d[8] + 6*d[9] + 8*d[10] + 3*d[11]

Sum12(d) == 3*d[1] + 7*d[2] + 2*d[3] + 4*d[4] + 10*d[5] + 3*d[6] + 5*d[7]
            + 9*d[8] + 4*d[9] + 6*d[10] + 8*d[11]

Control(sum) == (sum % 11) % 10

Correct10(d) == Control(Sum10(d)) = d[10]

Correct12(d) == Control(Sum11(d)) = d[11] /\ Control(Sum12(d)) = d[12]

Inn10 == {d \in [1..10 -> Digit] : Correct10(d)}
Inn12 == {d \in [1..12 -> Digit] : Correct12(d)}

ASSUME NumbersAssumption ==
  \A d \in Numbers : \/ d \in [1..10 -> Digit] /\ Correct10(d)
                     \/ d \in [1..12 -> Digit] /\ Correct12(d)

-----------------------------------------------------------------------------
VARIABLES
  number,   (* the number the user copies                                  *)
  typed,    (* the digits typed                                            *)
  script,   (* what the characters are: "ascii" for 0 to 9; "wide" for     *)
            (* other decimal digits; "raised" for digits without a decimal *)
            (* value, such as superscripts; "letter" for anything else     *)
  answer    (* 0, or the status                                            *)

vars == <<number, typed, script, answer>>

Scripts == {"ascii", "wide", "raised", "letter"}

Init ==
  /\ number \in Numbers /\ typed = number
  /\ script = "ascii" /\ answer = 0

Replace(i, e) ==
  /\ answer = 0 /\ typed = number /\ e # number[i]
  /\ typed' = [typed EXCEPT ![i] = e]
  /\ UNCHANGED <<number, script, answer>>

(* The last digit is left out, or one is typed after it. *)
Lengthen(e) ==
  /\ answer = 0 /\ typed = number
  /\ LET n == IF e = 0 THEN 9 ELSE 11
     IN typed' = [i \in 1..n |-> IF i = 11 THEN e ELSE number[i]]
  /\ DOMAIN number = 1..10
  /\ UNCHANGED <<number, script, answer>>

Write(how) ==
  /\ answer = 0 /\ script = "ascii"
  /\ script' = how
  /\ UNCHANGED <<number, typed, answer>>

(* value.isdigit() and the length. *)
IsWellFormed == script # "letter" /\ DOMAIN typed \in {1..10, 1..12}

IsCorrect == IF DOMAIN typed = 1..10 THEN Correct10(typed) ELSE Correct12(typed)

(* validate_inn, then ck_supplier_inn when the supplier is stored; int()   *)
(* of a raised digit is a ValueError, which nothing catches.               *)
Validate ==
  /\ answer = 0
  /\ answer' = IF ~IsWellFormed THEN 422
               ELSE IF script = "raised" THEN 500
               ELSE IF ~IsCorrect THEN 422
               ELSE IF script # "ascii" THEN 409 ELSE 201
  /\ UNCHANGED <<number, typed, script>>

Next ==
  \/ \E i \in DOMAIN number, e \in Digit : Replace(i, e)
  \/ \E e \in Digit : Lengthen(e)
  \/ \E how \in Scripts \ {"ascii"} : Write(how)
  \/ Validate

Spec == Init /\ [][Next]_vars

-----------------------------------------------------------------------------
(* The digit typed wrong, if there is one. *)
Mistyped == typed # number /\ DOMAIN typed = DOMAIN number

(* The checksum notices every digit typed wrong in a number of 12 digits,  *)
(* and in one of 10 unless its control digit is 0, which stands for the    *)
(* remainders 0 and 10.                                                    *)
MistakesAreNoticed ==
  answer = 201 /\ Mistyped => DOMAIN number = 1..10 /\ number[10] = 0
                              /\ typed[10] = 0

(* Why it holds: what is typed differs from the number in one digit at     *)
(* most, or has another length, and 201 is the answer to a correct one.    *)
OneReplaced ==
  \E i \in DOMAIN number, e \in Digit :
    e # number[i] /\ typed = [number EXCEPT ![i] = e]

IInv ==
  /\ number \in Numbers
  /\ \/ typed = number \/ OneReplaced
     \/ typed \in [1..9 -> Digit] \cup [1..11 -> Digit]
  /\ answer = 201 => IsWellFormed /\ IsCorrect

(* tests/unit/test_rules.py: a replaced digit makes a correct INN wrong.   *)
EveryDigitMatters == answer = 201 => ~Mistyped

(* 0001_initial.py: the rule is checked by the application as well as by   *)
(* the database, so the CHECK never refuses what the rule accepts.         *)
RuleAndCheckAgree == answer # 409

(* docs/API.md: a supplier is created, or refused with 409 or 422.         *)
EveryNumberIsAnswered == answer # 500

=============================================================================
