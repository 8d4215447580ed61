------------------------- MODULE DatabaseConnection -------------------------
(***************************************************************************)
(* db::Connection and db::Query as the work threads use them.              *)
(*                                                                         *)
(* Every request gets a handler, and every handler a db::Connection that   *)
(* opens itself at the first query and is closed by the handler's          *)
(* destructor.  Opening is serialised by one mutex for the whole process.  *)
(* A statement or an attempt to connect may throw; the exception unwinds   *)
(* to process(), which answers with an error and drops the handler.        *)
(*                                                                         *)
(* The database server is the environment: it goes down and comes back,    *)
(* and it keeps a session for every sql::Connection until that is deleted. *)
(***************************************************************************)
EXTENDS Integers, FiniteSets

CONSTANTS
    Threads,    \* the work threads
    NoThread,   \* nobody, as owner of the mutex
    Requests,   \* the requests the clients make during a run
    NoRequest   \* what a thread serves between two requests

ASSUME DatabaseAssumption ==
    /\ IsFiniteSet(Threads)
    /\ NoThread \notin Threads
    /\ NoRequest \notin Requests

VARIABLES
    up,        \* does the database server accept connections
    todo,      \* requests nobody serves yet
    req,       \* the request a thread serves
    pc,        \* where the thread is in process()
    m,         \* the thread that owns db::m
    isOpen,    \* Connection::_is_open of the thread's handler
    sessions,  \* the server's sessions, named by the request that opened them
    answered   \* the requests process() has answered

vars == <<up, todo, req, pc, m, isOpen, sessions, answered>>

Init ==
    /\ up = TRUE
    /\ todo = Requests
    /\ req = [t \in Threads |-> NoRequest]
    /\ pc = [t \in Threads |-> "idle"]
    /\ m = NoThread
    /\ isOpen = [t \in Threads |-> FALSE]
    /\ sessions = {}
    /\ answered = {}

\* The thread goes from one place to another.
Goto(t, from, to) == pc[t] = from /\ pc' = [pc EXCEPT ![t] = to]

-----------------------------------------------------------------------------

\* The database server goes down or comes back.
Outage ==
    /\ up' = ~up
    /\ UNCHANGED <<todo, req, pc, m, isOpen, sessions, answered>>

\* process() makes a handler, and base_handler its db::Connection.
Begin(t, r) ==
    /\ Goto(t, "idle", "handler")
    /\ r \in todo
    /\ todo' = todo \ {r}
    /\ req' = [req EXCEPT ![t] = r]
    /\ UNCHANGED <<up, m, isOpen, sessions, answered>>

\* Connection::query: the first of a handler opens its connection.
OpenLazily(t) ==
    /\ Goto(t, "handler", "lock")
    /\ ~isOpen[t]
    /\ UNCHANGED <<up, todo, req, m, isOpen, sessions, answered>>

\* Mutant: open() does not wait for the mutex.
LockDoesNotWait(t) ==
    /\ Goto(t, "lock", "connect")
    /\ m' = t
    /\ UNCHANGED <<up, todo, req, isOpen, sessions, answered>>

\* Connection::open, m.lock(): a thread that owns the mutex waits as well.
Lock(t) ==
    /\ Goto(t, "lock", "connect")
    /\ m = NoThread
    /\ m' = t
    /\ UNCHANGED <<up, todo, req, isOpen, sessions, answered>>

\* driver->connect returns a connection.
Connect(t) ==
    /\ Goto(t, "connect", "schema")
    /\ up
    /\ sessions' = sessions \cup {req[t]}
    /\ UNCHANGED <<up, todo, req, m, isOpen, answered>>

\* Mutant: the mutex is left to a destructor that does not run.
SetSchemaKeepsMutex(t) ==
    /\ Goto(t, "schema", "handler")
    /\ up
    /\ isOpen' = [isOpen EXCEPT ![t] = TRUE]
    /\ UNCHANGED <<up, todo, req, m, sessions, answered>>

\* setSchema returns, m.unlock() and _is_open = true.
SetSchema(t) ==
    /\ Goto(t, "schema", "handler")
    /\ up
    /\ m' = NoThread
    /\ isOpen' = [isOpen EXCEPT ![t] = TRUE]
    /\ UNCHANGED <<up, todo, req, sessions, answered>>

\* driver->connect or setSchema throws.  Nothing unlocks the mutex, and after
\* setSchema nothing deletes the connection, since _is_open is still false.
OpenThrows(t) ==
    /\ pc[t] \in {"connect", "schema"}
    /\ ~up
    /\ pc' = [pc EXCEPT ![t] = "failed"]
    /\ UNCHANGED <<up, todo, req, m, isOpen, sessions, answered>>

\* Connection::query on an open connection, or raw_query, which file_model::create
\* calls on one: the statement is prepared.
Prepare(t) ==
    /\ Goto(t, "handler", "query")
    /\ isOpen[t]
    /\ UNCHANGED <<up, todo, req, m, isOpen, sessions, answered>>

\* Query::execute; its rows are read and ~Query closes the statement.
Execute(t) ==
    /\ Goto(t, "query", "handler")
    /\ UNCHANGED <<up, todo, req, m, isOpen, sessions, answered>>

\* A statement throws.  process() swallows what refresh_session throws, and
\* file_handler::post what create throws; any other exception ends the request.
QueryThrows(t) ==
    /\ pc[t] = "query"
    /\ pc' \in {[pc EXCEPT ![t] = to] : to \in {"handler", "failed"}}
    /\ UNCHANGED <<up, todo, req, m, isOpen, sessions, answered>>

\* Mutant: the connection is closed only after the handler succeeded.
AnswerClosesOnSuccess(t) ==
    /\ pc[t] \in {"handler", "failed"}
    /\ pc' = [pc EXCEPT ![t] = "idle"]
    /\ answered' = answered \cup {req[t]}
    /\ sessions' = IF isOpen[t] /\ pc[t] = "handler" THEN sessions \ {req[t]} ELSE sessions
    /\ isOpen' = [isOpen EXCEPT ![t] = FALSE]
    /\ req' = [req EXCEPT ![t] = NoRequest]
    /\ UNCHANGED <<up, todo, m>>

\* process() answers, because the handler is done or after an exception, and
\* ~base_handler calls Connection::close.
Answer(t) ==
    /\ pc[t] \in {"handler", "failed"}
    /\ pc' = [pc EXCEPT ![t] = "idle"]
    /\ answered' = answered \cup {req[t]}
    /\ sessions' = IF isOpen[t] THEN sessions \ {req[t]} ELSE sessions
    /\ isOpen' = [isOpen EXCEPT ![t] = FALSE]
    /\ req' = [req EXCEPT ![t] = NoRequest]
    /\ UNCHANGED <<up, todo, m>>

-----------------------------------------------------------------------------

Open(t) == OpenLazily(t) \/ Lock(t) \/ Connect(t) \/ SetSchema(t) \/ OpenThrows(t)

Statement(t) == Prepare(t) \/ Execute(t) \/ QueryThrows(t)

Step(t) == Open(t) \/ Statement(t) \/ Answer(t)

Next ==
    \/ Outage
    \/ \E t \in Threads : Step(t) \/ \E r \in Requests : Begin(t, r)

Spec == Init /\ [][Next]_vars

\* Every thread runs, takes the mutex if it is free again and again, and ends
\* its handler after some queries; no call to the database hangs.
Fairness ==
    \A t \in Threads :
        /\ SF_vars(Lock(t))
        /\ SF_vars(Answer(t))
        /\ WF_vars(Open(t))
        /\ WF_vars(Execute(t))

FairSpec == Spec /\ Fairness

-----------------------------------------------------------------------------

\* Every variable has the type of its C++ counterpart.
TypeOK ==
    /\ up \in BOOLEAN
    /\ todo \in SUBSET Requests
    /\ req \in [Threads -> Requests \cup {NoRequest}]
    /\ pc \in [Threads -> {"idle", "handler", "lock", "connect", "schema", "query", "failed"}]
    /\ m \in Threads \cup {NoThread}
    /\ isOpen \in [Threads -> BOOLEAN]
    /\ sessions \in SUBSET Requests
    /\ answered \in SUBSET Requests

\* Is the thread between m.lock() and m.unlock()?
Opening(t) == pc[t] \in {"connect", "schema"}

\* The sessions of handlers that are not gone, opened or being opened.
HasSession(t) == isOpen[t] \/ pc[t] = "schema"
InUse == {req[t] : t \in {u \in Threads : HasSession(u)}}

\* The driver, which is not safe to be used by two threads while it connects,
\* is used by one thread at a time, whatever has thrown before.
ConnectSerialised ==
    \A t, u \in Threads : Opening(t) /\ Opening(u) => t = u

\* The server never keeps more sessions than there are work threads, although
\* an exception from setSchema leaves a session that nothing closes.
SessionBound == Cardinality(sessions) <= Cardinality(Threads)

\* A request that was answered, with or without an exception in a query, has
\* closed its session, unless an exception from open() left the mutex locked.
SessionsClosed ==
    m = NoThread \/ Opening(m) => sessions = InUse

\* While the database does not fail, every request a thread began is answered:
\* the mutex is always given back.
Answered ==
    []up => \A r \in Requests : r \notin todo ~> r \in answered

\* "There was an error processing your request - Please wait and try again":
\* once the database has come back for good, requests are answered again.
RetryAnswered ==
    <>[]up => \A r \in Requests : r \notin todo ~> r \in answered
=============================================================================
