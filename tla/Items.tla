-------------------------------- MODULE Items --------------------------------
(***************************************************************************)
(* Quantities, prices and amounts of receipt items: the rules of           *)
(* app/rules.py (BP-02, BP-03), the numeric columns of the database and    *)
(* the generated column amount, with edits that change the unit of a       *)
(* material while items are being entered.                                 *)
(*                                                                         *)
(* A number is a Python Decimal: n and e stand for n * 10^e.  The limits   *)
(* of the columns are constants, so that small numbers reach them: the     *)
(* code has QuantityPlaces = 3, PricePlaces = AmountPlaces = 2, and 9, 10  *)
(* and 12 digits before the point.                                         *)
(***************************************************************************)
EXTENDS Integers, FiniteSets

CONSTANTS
  Request, Material,
  Number,          (* decimals clients enter                               *)
  QuantityPlaces, PricePlaces, AmountPlaces,  (* digits after the point    *)
  QuantityDigits, PriceDigits, AmountDigits,  (* digits before it          *)
  Scale,           (* places enough to compare every value exactly         *)
  MaxItems,        (* bound: items stored at once                          *)
  None

PlacesAssumption ==
  /\ {QuantityPlaces, PricePlaces, AmountPlaces, Scale, MaxItems} \subseteq Nat
  /\ QuantityPlaces <= Scale /\ PricePlaces <= Scale /\ AmountPlaces <= 2 * Scale
  /\ \A d \in Number : d.kind = "number" /\ d.n \in Int /\ d.e \in Int /\ d.e + Scale >= 0

(* What Decimal(str(value)) reads besides: a form may hold these words;    *)
(* the HTTP API, where the field is a Decimal of pydantic, refuses them.   *)
Odd == [kind : {"NaN", "Infinity", "text"}, n : {0}, e : {0}]

Entered == Number \cup Odd

Pow10[k \in Nat] == IF k = 0 THEN 1 ELSE 10 * Pow10[k - 1]

(* The exact value of a decimal in units of 10^-Scale. *)
Value(d) == d.n * Pow10[d.e + Scale]

Abs(v) == IF v < 0 THEN -v ELSE v

(* PostgreSQL round(numeric, k): half away from zero. *)
RoundTo(v, k, scale) ==
  LET unit == Pow10[scale - k]
      half == (2 * Abs(v) + unit) \div (2 * unit)
  IN (IF v < 0 THEN -1 ELSE 1) * half * unit

(* A value fits numeric(digits + places, places) when, rounded, it has no  *)
(* more digits before the point.                                           *)
Fits(v, digits, places) == Abs(RoundTo(v, places, Scale)) < Pow10[digits + Scale]

-----------------------------------------------------------------------------
VARIABLES
  piece,   (* whether the unit of each material is counted in pieces       *)
  items,   (* stored items                                                 *)
  pc, cmd, (* the requests that enter items                                *)
  answer

vars == <<piece, items, pc, cmd, answer>>

Command == [material : Material, quantity : Entered, price : Entered,
            via : {"form", "api"}]

Init ==
  /\ piece \in [Material -> BOOLEAN]
  /\ items = {}
  /\ pc = [q \in Request |-> "idle"]
  /\ cmd = [q \in Request |-> None]
  /\ answer = [q \in Request |-> None]

(***************************************************************************)
(* Answers: the status and what the request was refused for.  The rules    *)
(* give accepted, 422, or an exception that is not an AppError (500):      *)
(* Decimal comparisons with NaN raise InvalidOperation, the exponent of    *)
(* Infinity is no number.                                                  *)
(***************************************************************************)
Answer(status, about) == [status |-> status, about |-> about]

Accepted == Answer(201, "nothing")
Refused == Answer(422, "value")
TooLong == Answer(500, "column")

WordVerdict(d, via) ==
  Answer(IF d.kind = "text" \/ via = "api" THEN 422 ELSE 500, "word")

(* Faulty: one place more than the column keeps. *)
QuantityVerdictLoose(d, whole, via) ==
  IF d \in Odd THEN WordVerdict(d, via)
  ELSE IF d.n <= 0 \/ d.e < -QuantityPlaces - 1 THEN Refused
  ELSE IF whole /\ Value(d) % Pow10[Scale] # 0 THEN Refused ELSE Accepted

QuantityVerdict(d, whole, via) ==
  IF d \in Odd THEN WordVerdict(d, via)
  ELSE IF d.n <= 0 \/ d.e < -QuantityPlaces THEN Refused
  ELSE IF whole /\ Value(d) % Pow10[Scale] # 0 THEN Refused ELSE Accepted

PriceVerdict(d, via) ==
  IF d \in Odd THEN WordVerdict(d, via)
  ELSE IF d.n < 0 \/ d.e < -PricePlaces THEN Refused ELSE Accepted

(* rules.amount: quantize to AmountPlaces, ROUND_HALF_UP (on a value that  *)
(* is not negative: down, and one more when the rest is half or above).    *)
Amount(q, p) ==
  LET exact == Value(q) * Value(p)
      unit == Pow10[2 * Scale - AmountPlaces]
      down == exact \div unit
  IN IF 2 * (exact % unit) >= unit THEN down + 1 ELSE down

(* The generated column: the product of the stored numbers, rounded, in    *)
(* units of 10^-AmountPlaces.                                              *)

(* Faulty: a price rounded before it is multiplied. *)
ComputedCoarse(v, w) ==
  RoundTo(v * RoundTo(w, 0, Scale), AmountPlaces, 2 * Scale)
    \div Pow10[2 * Scale - AmountPlaces]

Computed(v, w) ==
  RoundTo(v * w, AmountPlaces, 2 * Scale) \div Pow10[2 * Scale - AmountPlaces]

-----------------------------------------------------------------------------
(* services.add_item up to _save: the material is read, then the rules in  *)
(* their order; the first that refuses answers.                            *)
Check(q, c) ==
  LET verdicts == <<QuantityVerdict(c.quantity, piece[c.material], c.via),
                    PriceVerdict(c.price, c.via)>>
  IN /\ pc[q] = "idle"
     /\ \/ /\ \A i \in {1, 2} : verdicts[i] = Accepted
           /\ pc' = [pc EXCEPT ![q] = "writing"]
           /\ cmd' = [cmd EXCEPT ![q] = c]
           /\ answer' = [answer EXCEPT ![q] = None]
        \/ /\ \E i \in {1, 2} : verdicts[i] # Accepted
           /\ answer' = [answer EXCEPT ![q] =
                IF verdicts[1] # Accepted THEN verdicts[1] ELSE verdicts[2]]
           /\ UNCHANGED <<pc, cmd>>
     /\ UNCHANGED <<piece, items>>

(* _save: the numbers are stored as their columns keep them; a number or   *)
(* an amount too long is a DataError, which _save passes on.               *)
Insert(q) ==
  LET c == cmd[q]
      v == RoundTo(Value(c.quantity), QuantityPlaces, Scale)
      w == RoundTo(Value(c.price), PricePlaces, Scale)
      fits == /\ Fits(v, QuantityDigits, QuantityPlaces)
              /\ Fits(w, PriceDigits, PricePlaces)
              /\ Computed(v, w) < Pow10[AmountDigits + AmountPlaces]
  IN /\ pc[q] = "writing"
     /\ Cardinality(items) < MaxItems
     /\ pc' = [pc EXCEPT ![q] = "idle"]
     /\ cmd' = [cmd EXCEPT ![q] = None]
     /\ answer' = [answer EXCEPT ![q] = IF fits THEN Accepted ELSE TooLong]
     /\ items' = IF ~fits THEN items ELSE items \cup
          {[material |-> c.material, quantity |-> v, price |-> w,
            amount |-> Computed(v, w), entered |-> <<c.quantity, c.price>>]}
     /\ UNCHANGED piece

(* services.save_material gives the material a unit of the other kind; no  *)
(* rule looks at the items entered for it.                                 *)
ChangeUnit(m) ==
  /\ piece' = [piece EXCEPT ![m] = ~@]
  /\ UNCHANGED <<items, pc, cmd, answer>>

DeleteItem(x) == items' = items \ {x} /\ UNCHANGED <<piece, pc, cmd, answer>>

Next ==
  \/ \E q \in Request : Insert(q) \/ \E c \in Command : Check(q, c)
  \/ \E m \in Material : ChangeUnit(m)
  \/ \E x \in items : DeleteItem(x)

Spec == Init /\ [][Next]_vars

-----------------------------------------------------------------------------
(* What a client entered is what is stored: the columns never round it.    *)
(* The rules on places are what keeps PostgreSQL from rounding silently.   *)
StoredAsEntered ==
  \A x \in items : /\ x.quantity = Value(x.entered[1])
                   /\ x.price = Value(x.entered[2])

(* BP-03: the amount the database computes is the amount rules.amount      *)
(* computes from what was entered, half a kopeck up in both.               *)
AmountsAgree ==
  \A x \in items : x.amount = Amount(x.entered[1], x.entered[2])

(* README.md, BP-02: a material counted in pieces has whole quantities.    *)
PieceQuantitiesAreWhole ==
  \A x \in items : piece[x.material] => x.quantity % Pow10[Scale] = 0

(* docs/API.md: an item is created, or refused with 404, 409 or 422; a     *)
(* value the rules accept is never too long for the column.                *)
AcceptedValuesFit == \A q \in Request : answer[q] # TooLong

(* rules.to_decimal: what is not a number is refused with a message.       *)
WordsAreRefused ==
  \A q \in Request : answer[q] # None /\ answer[q].about = "word" =>
    answer[q].status = 422

=============================================================================
