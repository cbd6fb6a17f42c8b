-------------------------------- MODULE Texts --------------------------------
(***************************************************************************)
(* The texts of forms: how app/rules.py trims, converts and refuses them,  *)
(* what the columns and CHECKs of the database accept, and what happens    *)
(* when a stored value comes back, from the form that edits it or from the *)
(* page where a user logs in.                                              *)
(*                                                                         *)
(* A text is a sequence of characters, one for each class the rules tell   *)
(* apart.  The limits are constants, so that short texts reach them:       *)
(* Limits[field] = <<least, most>> is <<3, 32>> for sku, <<1, 30>> for     *)
(* invoice_number, <<3, 50>> for login, <<3, 200>> for name and <<5, 20>>  *)
(* for phone; okei_code has exactly 3 characters and password at least     *)
(* PASSWORD_MIN_LENGTH.                                                    *)
(***************************************************************************)
EXTENDS Integers, SequencesExt

CONSTANTS
  Limits,     (* [Fields -> Nat \X Nat]                                    *)
  Okei,       (* the codes of the classifier                               *)
  Entered     (* texts users enter                                         *)

Fields == {"okei_code", "sku", "invoice_number", "login", "name", "phone",
           "password"}

(* Characters.  A ligature has two capitals; the Kelvin sign is a letter   *)
(* whose small form is a plain k; a cyrillic letter has both forms, but is *)
(* in no pattern except that of an invoice number.  NUL is U+0000, which a *)
(* client can send and no text column takes.                               *)
Blank == {" ", "tab"}
Plain == {"1", "A", "a"}
Alnum == Plain \cup {"wide 1", "ligature", "Kelvin", "Ya", "ya"}
Character == Alnum \cup Blank \cup {"-", ".", "_", "No", "NUL", "other"}

LimitsAssumption ==
  /\ Limits \in [Fields -> Nat \X Nat]
  /\ \A f \in Fields : 1 <= Limits[f][1] /\ Limits[f][1] <= Limits[f][2]
  /\ \A code \in Okei : code \in Seq({"1"}) /\ Len(code) = Limits["okei_code"][2]
  /\ Entered \subseteq Seq(Character)

-----------------------------------------------------------------------------
Upper(c) == CASE c = "a" -> <<"A">>
              [] c = "ya" -> <<"Ya">>
              [] c = "ligature" -> <<"A", "A">>
              [] OTHER -> <<c>>

Lower(c) == CASE c = "A" -> <<"a">>
              [] c = "Ya" -> <<"ya">>
              [] c = "Kelvin" -> <<"a">>
              [] OTHER -> <<c>>

(* str.upper() and str.lower(). *)
UpperText(s) == FlattenSeq([i \in DOMAIN s |-> Upper(s[i])])
LowerText(s) == FlattenSeq([i \in DOMAIN s |-> Lower(s[i])])

(* str.strip(). *)
Strip(s) ==
  LET kept == {i \in DOMAIN s : s[i] \notin Blank}
  IN IF kept = {} THEN <<>>
     ELSE SubSeq(s, Min(kept), Max(kept))

(* " ".join(s.split()). *)
Joined(s) ==
  LET t == Strip(s)
      one(i) == IF t[i] \notin Blank THEN <<t[i]>>
                ELSE IF t[i - 1] \in Blank THEN <<>> ELSE <<" ">>
  IN FlattenSeq([i \in DOMAIN t |-> one(i)])

Matches(s, allowed, f) ==
  /\ Limits[f][1] <= Len(s) /\ Len(s) <= Limits[f][2]
  /\ Range(s) \subseteq allowed

SkuPattern == {"1", "A", "-"}
LoginPattern == {"1", "a", "-", "_", "."}
InvoicePattern == Plain \cup {"Ya", "ya", "No", "-", ".", "_", " "}

-----------------------------------------------------------------------------
(* The rules: the value to store, or a refusal (422).                      *)
Value(v) == [ok |-> TRUE, value |-> v]
Refused == [ok |-> FALSE, value |-> <<>>]
Unless(accepted, v) == IF accepted THEN Value(v) ELSE Refused

validate_okei(s) == Unless(Strip(s) \in Okei, Strip(s))

(* Faulty: a sku stored as it was entered. *)
validate_sku_kept(s) == Unless(Matches(UpperText(Strip(s)), SkuPattern, "sku"), Strip(s))

validate_sku(s) ==
  LET v == UpperText(Strip(s)) IN Unless(Matches(v, SkuPattern, "sku"), v)

validate_invoice_number(s) ==
  LET v == Joined(s)
  IN Unless(/\ Matches(v, InvoicePattern, "invoice_number")
            /\ Range(v) \cap Alnum # {}, v)

validate_login(s) ==
  LET v == LowerText(Strip(s)) IN Unless(Matches(v, LoginPattern, "login"), v)

(* The length of a password is all the rules know of it. *)
validate_password(s) == Unless(Len(s) >= Limits["password"][1], s)

(* name is required, phone is not: the empty text here is its None. *)
validate_text(s, f) ==
  LET v == Strip(s)
  IN IF v = <<>> THEN Unless(f = "phone", v)
     ELSE Unless(Limits[f][1] <= Len(v) /\ Len(v) <= Limits[f][2], v)

Validated(f, s) ==
  CASE f = "okei_code" -> validate_okei(s)
    [] f = "sku" -> validate_sku(s)
    [] f = "invoice_number" -> validate_invoice_number(s)
    [] f = "login" -> validate_login(s)
    [] f = "password" -> validate_password(s)
    [] OTHER -> validate_text(s, f)

(* services.authenticate looks for this login. *)

(* Faulty: the search without lower(). *)
SoughtAsEntered(s) == Strip(s)

Sought(s) == LowerText(Strip(s))

-----------------------------------------------------------------------------
(* The database: the length of the column and the CHECKs ck_unit_okei,     *)
(* ck_material_sku, ck_user_login and ck_receipt_invoice (btrim knows only *)
(* the space).  No text of PostgreSQL has U+0000: psycopg raises DataError.*)
(* A hash is stored for a password.                                        *)
FitsColumn(f, v) ==
  f = "password" \/ (Len(v) <= Limits[f][2] /\ "NUL" \notin Range(v))

Checked(f, v) ==
  CASE f = "okei_code" -> Matches(v, {"1"}, f)
    [] f = "sku" -> Matches(v, SkuPattern, f)
    [] f = "login" -> Matches(v, LoginPattern, f)
    [] f = "invoice_number" -> v # <<>> /\ v[1] # " " /\ v[Len(v)] # " "
    [] OTHER -> TRUE

VARIABLES
  field,    (* what the user fills in                                      *)
  entered,  (* the text first entered                                      *)
  stored,   (* the value in the database, or the refusal                   *)
  again,    (* what the same rule says of the stored value                 *)
  status    (* the answer: 0 before it                                     *)

vars == <<field, entered, stored, again, status>>

Init ==
  /\ field \in Fields /\ entered \in Entered
  /\ stored = Refused /\ again = Refused /\ status = 0

(* save_supplier, save_material, create_unit, create_user, create_receipt: *)
(* _save makes an answer of a broken CHECK and raises every other error    *)
(* again.                                                                  *)
Save ==
  LET v == Validated(field, entered)
  IN /\ status = 0
     /\ \/ ~v.ok /\ status' = 422 /\ stored' = Refused
        \/ /\ v.ok /\ FitsColumn(field, v.value) /\ Checked(field, v.value)
           /\ status' = 200 /\ stored' = v
        \/ /\ v.ok /\ FitsColumn(field, v.value) /\ ~Checked(field, v.value)
           /\ status' = 409 /\ stored' = Refused
        \/ /\ v.ok /\ ~FitsColumn(field, v.value)
           /\ status' = 500 /\ stored' = Refused
     /\ UNCHANGED <<field, entered, again>>

(* The form that edits a supplier or a material shows what is stored and   *)
(* sends it back.                                                          *)
SendBack ==
  /\ status = 200 /\ field \in {"okei_code", "sku", "name", "phone"}
  /\ again' = Validated(field, stored.value)
  /\ status' = 201
  /\ UNCHANGED <<field, entered, stored>>

(* The user logs in with the login the administrator entered. *)
LogIn ==
  /\ status = 200 /\ field = "login"
  /\ again' = Value(Sought(entered))
  /\ status' = 201
  /\ UNCHANGED <<field, entered, stored>>

Next == Save \/ SendBack \/ LogIn

Spec == Init /\ [][Next]_vars

-----------------------------------------------------------------------------
(* What the rules accept the database stores: the message of a rule, and   *)
(* never that of a CHECK or an overlong column, tells the user what is     *)
(* wrong with a text (0001_initial.py states each rule in both places).    *)
(* One character is beyond the rules: a name or a phone with U+0000 ends   *)
(* as an unexpected error.                                                 *)
AcceptedIsStored ==
  /\ status # 409
  /\ status = 500 => field \in {"name", "phone"} /\ "NUL" \in Range(entered)

(* The claim of docs/API.md:74: a supplier is stored (201), or refused as  *)
(* a conflict (409) or by a rule (422), whatever its texts.                *)
TextsAreAnswered == status # 500

(* A form sent back unchanged changes nothing, and an account is found by  *)
(* the login it was created with.                                          *)
StoredComesBack == status = 201 => again = stored

=============================================================================
