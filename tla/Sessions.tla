------------------------------ MODULE Sessions -------------------------------
(***************************************************************************)
(* Sessions (app/auth.py): signing in and out, the signed cookie a browser *)
(* keeps, and the accounts it stands for, which are created, deleted and   *)
(* brought back by the restoring of a copy of the database.                *)
(*                                                                         *)
(* The clock runs finer than the second the cookie is stamped with.  A     *)
(* cookie holds an identifier; that it opens the account it was given to   *)
(* is a property, so the model also remembers whose it was (an account is  *)
(* told from every other by its number of creation).  The signature is     *)
(* always right here: only cookies the application gave are sent.          *)
(***************************************************************************)
EXTENDS Naturals

CONSTANTS
  Browser,
  Hours,      (* session_hours, here in seconds                            *)
  Fine,       (* steps of the clock in a second                            *)
  MaxNow, MaxAccounts, Restores   (* bounds: clock, accounts, restorings   *)

SessionsAssumption ==
  /\ Hours \in Nat \ {0} /\ Fine \in Nat \ {0}
  /\ MaxNow \in Nat /\ MaxAccounts \in Nat \ {0} /\ Restores \in Nat

(* The jar of a browser that keeps no cookie. *)
NoCookie == [cookie |-> [uid |-> 0], until |-> 0]

VARIABLES
  now,       (* the clock, in parts of a second                            *)
  accounts,  (* the rows of app_user: [id, who]                            *)
  sequence,  (* the last identifier given                                  *)
  created,   (* how many accounts were ever created                        *)
  copy,      (* the copy of the database: rows and sequence                *)
  restored,  (* how many times it was restored                             *)
  jar,       (* of each browser: its cookie [uid, ts, who, since] and the   *)
             (* time until which it is kept                                *)
  reply,     (* the reply under way to each browser: nothing, a cookie, or *)
             (* the order to delete it                                     *)
  answer     (* the answer to the last request that carried a cookie       *)

vars == <<now, accounts, sequence, created, copy, restored, jar, reply, answer>>

NoAnswer == [kind |-> "none"]
NoReply == [kind |-> "none"]
Delete == [kind |-> "delete"]
Set(c) == [kind |-> "set", cookie |-> c]

Init ==
  /\ now = 0
  /\ accounts = {[id |-> 1, who |-> 1]} /\ sequence = 1 /\ created = 1
  /\ copy = [rows |-> accounts, sequence |-> 1] /\ restored = 0
  /\ jar = [b \in Browser |-> NoCookie]
  /\ reply = [b \in Browser |-> NoReply]
  /\ answer = NoAnswer

-----------------------------------------------------------------------------
Second(t) == t \div Fine

(* services.authenticate and start_session: ts is cut to a whole second. *)
SignIn(b, u) ==
  /\ reply[b].kind = "none"
  /\ reply' = [reply EXCEPT ![b] =
       Set([uid |-> u.id, ts |-> Second(now), who |-> u.who, since |-> now])]
  /\ answer' = NoAnswer
  /\ UNCHANGED <<now, accounts, sequence, created, copy, restored, jar>>

(* max_age: the browser keeps the cookie for that long from now on. *)
Receive(b) ==
  /\ reply[b].kind # "none"
  /\ jar' = [jar EXCEPT ![b] =
       IF reply[b].kind = "delete" THEN NoCookie
       ELSE [cookie |-> reply[b].cookie, until |-> now + Hours * Fine]]
  /\ reply' = [reply EXCEPT ![b] = NoReply]
  /\ answer' = NoAnswer
  /\ UNCHANGED <<now, accounts, sequence, created, copy, restored>>

Sends(b) == now < jar[b].until

(* Faulty: the time of the request is cut to a second too. *)
HasEndedBySeconds(c) == Second(now) > c.ts + Hours

(* _user_id_from_cookie: time.time() - ts > session_hours * 3600. *)
HasEnded(c) == now > (c.ts + Hours) * Fine

(* find_user: the row with the identifier, if the session has not ended. *)
Found(c) == IF HasEnded(c) THEN {} ELSE {u \in accounts : u.id = c.uid}

Answer(b) ==
  LET c == jar[b].cookie IN
  answer' = [kind |-> IF Found(c) = {} THEN "refused" ELSE "served",
             cookie |-> c, users |-> Found(c),
             living |-> {u.who : u \in accounts}]

Ask(b) ==
  /\ Sends(b) /\ Answer(b)
  /\ UNCHANGED <<now, accounts, sequence, created, copy, restored, jar, reply>>

(* end_session: current_user, then the browser is told to forget. *)
SignOut(b) ==
  /\ Sends(b) /\ reply[b].kind = "none" /\ Found(jar[b].cookie) # {}
  /\ Answer(b)
  /\ reply' = [reply EXCEPT ![b] = Delete]
  /\ UNCHANGED <<now, accounts, sequence, created, copy, restored, jar>>

(* Faulty: the identifier after the largest in use. *)
NextOfRows == 1 + (CHOOSE n \in 0 .. created :
  /\ \A u \in accounts : u.id <= n
  /\ n = 0 \/ \E u \in accounts : u.id = n)

(* The sequence of the table: no number is given twice. *)
NextId == sequence + 1

CreateUser ==
  /\ created < MaxAccounts /\ created' = created + 1
  /\ accounts' = accounts \cup {[id |-> NextId, who |-> created + 1]}
  /\ sequence' = NextId /\ answer' = NoAnswer
  /\ UNCHANGED <<now, copy, restored, jar, reply>>

(* The author of no receipt, deleted by another administrator. *)
DeleteUser(u) ==
  /\ u.id # 1
  /\ accounts' = accounts \ {u} /\ answer' = NoAnswer
  /\ UNCHANGED <<now, sequence, created, copy, restored, jar, reply>>

(* dbadmin: a copy holds the rows and the sequences. *)
Backup ==
  /\ restored < Restores
  /\ copy' = [rows |-> accounts, sequence |-> sequence] /\ answer' = NoAnswer
  /\ UNCHANGED <<now, accounts, sequence, created, restored, jar, reply>>

Restore ==
  /\ restored < Restores /\ restored' = restored + 1
  /\ accounts' = copy.rows /\ sequence' = copy.sequence /\ answer' = NoAnswer
  /\ UNCHANGED <<now, created, copy, jar, reply>>

Tick ==
  /\ now < MaxNow /\ now' = now + 1 /\ answer' = NoAnswer
  /\ UNCHANGED <<accounts, sequence, created, copy, restored, jar, reply>>

Next ==
  \/ \E b \in Browser :
       \/ \E u \in accounts : SignIn(b, u)
       \/ Receive(b) \/ Ask(b) \/ SignOut(b)
  \/ CreateUser
  \/ \E u \in accounts : DeleteUser(u)
  \/ Backup \/ Restore \/ Tick

Spec == Init /\ [][Next]_vars

-----------------------------------------------------------------------------
(* docs/TESTING.md:73: a session serves no later than SESSION_HOURS after  *)
(* the moment of signing in, however the cookie is cut and whenever it     *)
(* reached the browser; and while the account exists it serves until then, *)
(* less the part of a second that was cut.                                 *)
Age(c) == now - c.since

SessionsLastTheirHours ==
  /\ answer.kind = "served" => Age(answer.cookie) <= Hours * Fine
  /\ answer.kind = "refused" /\ answer.cookie.who \in answer.living =>
       Age(answer.cookie) > (Hours - 1) * Fine

(* auth.find_user, «Пользователь сеанса или None»: a session opens the     *)
(* account that signed in, whatever was deleted and created since.         *)
SessionsAreOwn ==
  answer.kind = "served" => answer.cookie.who \in {u.who : u \in answer.users}

(* app_user.id comes from a sequence: while no copy is restored, whatever  *)
(* accounts are deleted and created, no session passes to another account. *)
SessionsAreOwnUntilRestored == restored = 0 => SessionsAreOwn

=============================================================================
