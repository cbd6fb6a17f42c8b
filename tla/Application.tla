----------------------------- MODULE Application -----------------------------
(***************************************************************************)
(* The rules, the pages and the sessions of the application next to each   *)
(* other.  What one of them keeps none of the others reads, so a step of   *)
(* one leaves the rest as it is.                                           *)
(***************************************************************************)
EXTENDS Inn

CONSTANTS
  Request, Counted, Number, QuantityPlaces, PricePlaces, AmountPlaces,
  QuantityDigits, PriceDigits, AmountDigits, Scale, MaxItems,  (* Items     *)
  Limits, Okei, Typed,                                         (* Texts     *)
  Supplier, Receipt, Material, Amounts, MinDate, Today, Empty, Wrong, Filters,
                                                               (* Report    *)
  Browser, Hours, Fine, MaxNow, MaxAccounts, Restores,         (* Sessions  *)
  None

VARIABLES
  piece, stock, itemPc, itemCmd, itemAnswer,                   (* Items     *)
  field, entered, stored, again, status,                       (* Texts     *)
  suppliers, receipts, items, issued, pc, filter, found, seen, touched, page,
                                                               (* Report    *)
  now, accounts, sequence, created, copy, restored, jar, reply, asked
                                                               (* Sessions  *)

itemVars == <<piece, stock, itemPc, itemCmd, itemAnswer>>
textVars == <<field, entered, stored, again, status>>
reportVars ==
  <<suppliers, receipts, items, issued, pc, filter, found, seen, touched, page>>
sessionVars ==
  <<now, accounts, sequence, created, copy, restored, jar, reply, asked>>
allVars == <<vars, itemVars, textVars, reportVars, sessionVars>>

I == INSTANCE Items WITH
  Material <- Counted,
  items <- stock, pc <- itemPc, cmd <- itemCmd, answer <- itemAnswer
T == INSTANCE Texts WITH Entered <- Typed
R == INSTANCE Report WITH Amount <- Amounts
S == INSTANCE Sessions WITH answer <- asked

ASSUME ApplicationAssumption ==
  /\ I!PlacesAssumption /\ T!LimitsAssumption
  /\ R!ReportAssumption /\ R!FiltersAssumption /\ S!SessionsAssumption

-----------------------------------------------------------------------------
AllInit == Init /\ I!Init /\ T!Init /\ R!Init /\ S!Init

InnStep == Next /\ UNCHANGED <<itemVars, textVars, reportVars, sessionVars>>
ItemStep == I!Next /\ UNCHANGED <<vars, textVars, reportVars, sessionVars>>
TextStep == T!Next /\ UNCHANGED <<vars, itemVars, reportVars, sessionVars>>
ReportStep == R!Next /\ UNCHANGED <<vars, itemVars, textVars, sessionVars>>
SessionStep == S!Next /\ UNCHANGED <<vars, itemVars, textVars, reportVars>>

AllNext == InnStep \/ ItemStep \/ TextStep \/ ReportStep \/ SessionStep

AllSpec == AllInit /\ [][AllNext]_allVars

-----------------------------------------------------------------------------
(* The properties of the parts; MistakesAreNoticed is in Inn.               *)

(* rules.py, BP-02: what a client entered is what is stored.                *)
StoredAsEntered == I!StoredAsEntered

(* rules.py, BP-03: the amount the database computes is the one the rules   *)
(* compute.                                                                 *)
AmountsAgree == I!AmountsAgree

(* 0001_initial.py: what the rules accept the database stores, except free  *)
(* text with U+0000.                                                        *)
AcceptedIsStored == T!AcceptedIsStored

(* The claim of docs/API.md:74, that a client is told what is wrong with a  *)
(* text; no run checks it, and it is refuted (README.md).                   *)
TextsAreAnswered == T!TextsAreAnswered

(* web.py, auth.py: a form sent back unchanged changes nothing, an account  *)
(* is found by the login it was created with.                               *)
StoredComesBack == T!StoredComesBack

(* services.receipts_report: every supplier asked for has its row, every    *)
(* receipt of the period counts once.                                       *)
ReportIsTrue == R!ReportIsTrue

(* services.list_receipts: a receipt nobody changed while the list was read *)
(* is shown if and only if the filter wants it, with its total.             *)
UntouchedAreShownRight == R!UntouchedAreShownRight

(* auth.py: a session serves for its hours and no longer.                   *)
SessionsLastTheirHours == S!SessionsLastTheirHours

(* auth.find_user: while no copy is restored, a session opens the account   *)
(* that signed in.                                                          *)
SessionsAreOwnUntilRestored == S!SessionsAreOwnUntilRestored

=============================================================================
