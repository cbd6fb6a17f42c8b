-------------------------------- MODULE Pool ---------------------------------
(***************************************************************************)
(* One instance of the application: the worker threads that run handlers   *)
(* and dependencies, the pool of database connections behind db.engine(),  *)
(* the check of its health, and its stop.                                  *)
(*                                                                         *)
(* A request uses a thread twice, for find_user and for its handler, and   *)
(* keeps the connection it took in find_user while it waits for the second *)
(* thread; its connection goes back after the response.  What the server   *)
(* and the pool do (anyio: 40 threads; SQLAlchemy: 5 connections and 10    *)
(* more, 30 s to wait for one) is external.                                *)
(***************************************************************************)
EXTENDS Naturals, FiniteSets

CONSTANTS
  Request,      (* requests of users                                       *)
  Probe,        (* checks of the health of the container                   *)
  Threads, Connections

PoolAssumption ==
  Request \cap Probe = {} /\ Threads \in Nat \ {0} /\ Connections \in Nat \ {0}

Caller == Request \cup Probe

VARIABLES
  stage,      (* where each caller is                                      *)
  answer,     (* what each was answered, or that it stopped waiting        *)
  database,   (* whether PostgreSQL accepts connections                    *)
  down,       (* the probes during which it once did not                   *)
  server      (* "up", "stopping", "disposed"                              *)

vars == <<stage, answer, database, down, server>>

(* "new" has come; "user" runs find_user and "handle" the handler, each on *)
(* a thread; "wait" also has a thread but no connection yet; "between" has *)
(* a connection but no thread, and so has "answered".                      *)
OnThread == {"wait", "user", "handle", "select 1"}
Connected == {"user", "between", "handle", "answered", "select 1"}
Begun == OnThread \cup Connected

In(places) == {c \in Caller : stage[c] \in places}

FreeThread == Cardinality(In(OnThread)) < Threads
FreeConnection == Cardinality(In(Connected)) < Connections

Init ==
  /\ stage = [c \in Caller |-> "idle"]
  /\ answer = [c \in Caller |-> "none"]
  /\ database = TRUE /\ down = {} /\ server = "up"

Move(c, from, to) == stage[c] = from /\ stage' = [stage EXCEPT ![c] = to]

Answer(c, a) ==
  answer' = IF answer[c] = "none" THEN [answer EXCEPT ![c] = a] ELSE answer

-----------------------------------------------------------------------------
Arrive(c) ==
  /\ server = "up" /\ Move(c, "idle", "new")
  /\ UNCHANGED <<answer, database, down, server>>

(* A thread is free: a session is opened, which takes no connection yet. *)
Start(c) ==
  /\ FreeThread /\ Move(c, "new", "wait")
  /\ down' = IF database THEN down ELSE down \cup {c}
  /\ UNCHANGED <<answer, database, server>>

(* The first query takes a connection: db.get in find_user, or connect()   *)
(* of database_is_available.                                               *)
Connect(c) ==
  /\ database /\ FreeConnection
  /\ Move(c, "wait", IF c \in Probe THEN "select 1" ELSE "user")
  /\ UNCHANGED <<answer, database, down, server>>

(* Faulty: a pool without a timeout. *)
MayFailWithoutTimeout(c) == ~database

(* No connection: the database refuses it, or none came back for 30 s.     *)
(* session_scope passes the error on, database_is_available answers False. *)
MayFail(c) == ~database \/ ~FreeConnection

NoConnection(c) ==
  /\ MayFail(c) /\ Move(c, "wait", "done")
  /\ Answer(c, IF c \in Probe THEN "503" ELSE "500")
  /\ UNCHANGED <<database, down, server>>

(* SELECT 1, and the connection goes back at once. *)
Select(p) ==
  /\ Move(p, "select 1", "done")
  /\ Answer(p, IF database THEN "200" ELSE "503")
  /\ UNCHANGED <<database, down, server>>

(* find_user ends; the handler needs a thread again. *)
Found(r) ==
  /\ Move(r, "user", "between")
  /\ UNCHANGED <<answer, database, down, server>>

Handle(r) ==
  /\ FreeThread /\ Move(r, "between", "handle")
  /\ UNCHANGED <<answer, database, down, server>>

Respond(r) ==
  /\ Move(r, "handle", "answered")
  /\ Answer(r, IF database THEN "200" ELSE "500")
  /\ UNCHANGED <<database, down, server>>

(* The dependency ends: commit or rollback, then close() in any case; it   *)
(* has a thread of its own.                                                *)
Close(r) ==
  /\ Move(r, "answered", "done")
  /\ UNCHANGED <<answer, database, down, server>>

(* healthcheck.check waits TIMEOUT = 3 s; the request it made goes on. *)
GiveUp(p) ==
  /\ stage[p] \in {"new"} \cup Begun /\ answer[p] = "none"
  /\ answer' = [answer EXCEPT ![p] = "timeout"]
  /\ UNCHANGED <<stage, database, down, server>>

(* PostgreSQL stops accepting connections, or accepts them again. *)
Toggle ==
  /\ database' = ~database
  /\ down' = IF database THEN down \cup (In(Begun) \cap Probe) ELSE down
  /\ UNCHANGED <<stage, answer, server>>

(* SIGTERM: no new connections; what has come is served for 15 s at most   *)
(* (--timeout-graceful-shutdown), then lifespan goes on to db.dispose().   *)
Stop ==
  /\ server = "up" /\ server' = "stopping"
  /\ UNCHANGED <<stage, answer, database, down>>

Dispose ==
  /\ server = "stopping" /\ server' = "disposed"
  /\ UNCHANGED <<stage, answer, database, down>>

Serve(c) ==
  \/ Start(c) \/ Connect(c) \/ NoConnection(c)
  \/ c \in Probe /\ Select(c)
  \/ c \in Request /\ (Found(c) \/ Handle(c) \/ Respond(c) \/ Close(c))

Next ==
  \/ \E c \in Caller : Arrive(c) \/ Serve(c)
  \/ \E p \in Probe : GiveUp(p)
  \/ Toggle \/ Stop \/ Dispose

Spec == Init /\ [][Next]_vars

(* Threads go on running, the pool wakes who waits for a connection and    *)
(* counts its 30 s, and threads are given in the order they were asked for.*)
Fairness == \A c \in Caller : WF_vars(Serve(c))

FairSpec == Spec /\ Fairness

-----------------------------------------------------------------------------
(* Every request that has come is answered, even when the requests that    *)
(* hold all the connections wait for threads, and the requests that hold   *)
(* all the threads wait for connections; and its connection comes back.    *)
EveryRequestEnds ==
  \A c \in Caller : stage[c] = "new" ~> stage[c] = "done" /\ answer[c] # "none"

(* main.healthz, healthcheck.py: the answer tells whether the database is  *)
(* available.                                                              *)
HealthIsTrue == \A p \in Probe : answer[p] = "503" => p \in down

(* main.lifespan: connections are closed once every request has ended.     *)
NothingRunsAtDispose == server = "disposed" => In({"new"} \cup Begun) = {}

=============================================================================
