---------------------------- MODULE MCApplication ----------------------------
(* Small instances of the rules, the pages and the sessions: each behaviour *)
(* belongs to one part, and the other parts stand still.                    *)
EXTENDS Application, TLC, FiniteSets, SequencesExt

CONSTANT First   (* one of the suppliers *)

VARIABLE part                                                  (* who moves *)

-----------------------------------------------------------------------------
(* INNs: correct numbers with two digits free and the others fixed.         *)
Ten(a, b) ==
  LET d == [i \in 1..10 |-> CASE i = 1 -> a [] i = 7 -> b [] i = 10 -> 0 [] OTHER -> i]
  IN [d EXCEPT ![10] = Control(Sum10(d))]

Twelve(a, b) ==
  LET d == [i \in 1..12 |-> CASE i = 2 -> a [] i = 9 -> b [] i > 10 -> 0 [] OTHER -> 10 - i]
      e == [d EXCEPT ![11] = Control(Sum11(d))]
  IN [e EXCEPT ![12] = Control(Sum12(e))]

MCNumbers == {Ten(a, b) : a, b \in Digit} \cup {Twelve(a, b) : a, b \in Digit}

(* Items: columns of one digit before and one after the point, amounts of   *)
(* two digits, decimals around every limit.                                 *)
Decimal(n, e) == [kind |-> "number", n |-> n, e |-> e]

Decimals ==
  {Decimal(n, -1) : n \in {-1, 0, 1, 15, 99}}
  \cup {Decimal(5, -2), Decimal(25, -1), Decimal(3, 0), Decimal(1, 1), Decimal(12, -2)}

MCRequest == {"q1"}
MCCounted == {"m1"}

(* Texts of up to four characters of every class, limits of two.            *)
MCOkei == {<<"1", "1">>}
MCLimits ==
  [f \in {"invoice_number", "password"} |-> <<1, 2>>]
  @@ [f \in {"okei_code", "sku", "login", "name", "phone"} |-> <<2, 2>>]
MCEntered ==
  BoundedSeq({" ", "tab", "1", "A", "a", "wide 1", "ligature", "Kelvin", "ya", "-",
              "NUL"}, 3)
  \cup [1..4 -> {" ", "A", "a", "1", "No"}]

(* The report: filters that leave every field empty, fill it, or fill it    *)
(* with a text that is no date.                                             *)
Filter(from, to, s, via) == [from |-> from, to |-> to, supplier |-> s, via |-> via]

MCFilters ==
  {Filter(Empty, Empty, Empty, "form"), Filter(1, 1, Empty, "form"),
   Filter(2, 1, Empty, "api"), Filter(Empty, 1, First, "api"),
   Filter(2, Empty, Empty, "api"), Filter(Wrong, Empty, First, "form"),
   Filter(1, Wrong, Empty, "api")}

MCMaterial == {"m1", "m2"}
MCAmount == {1, 2}

(* Sessions of two seconds, under a clock of half seconds.                  *)
MCBrowser == {"b1"}

-----------------------------------------------------------------------------
MCInit ==
  /\ part \in {"inn", "items", "texts", "report", "sessions"}
  /\ Init /\ (part # "inn" => number = Ten(1, 7))
  /\ I!Init /\ (part # "items" => piece["m1"])
  /\ T!Init /\ (part # "texts" => field = "sku" /\ entered = <<>>)
  /\ R!Init /\ S!Init

MCNext ==
  /\ \/ part = "inn" /\ InnStep
     \/ part = "items" /\ ItemStep
     \/ part = "texts" /\ TextStep
     \/ part = "report" /\ ReportStep
     \/ part = "sessions" /\ SessionStep
  /\ UNCHANGED part

MCSpec == MCInit /\ [][MCNext]_<<part, allVars>>

Symmetry == Permutations(Receipt)

(* What documents, comments or tests say and the code does not do: no run   *)
(* checks these, and each is refuted when it is put into application.cfg,   *)
(* as are TextsAreAnswered of Application and the claims of Inn.            *)
PieceQuantitiesAreWhole == I!PieceQuantitiesAreWhole
AcceptedValuesFit == I!AcceptedValuesFit
WordsAreRefused == I!WordsAreRefused
ListIsAnswered == R!ListIsAnswered
SessionsAreOwn == S!SessionsAreOwn

=============================================================================
