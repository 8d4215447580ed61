------------------------------ MODULE Sessions ------------------------------
(***************************************************************************)
(* Users and sessions: auth_handler, user_model, session and the part of   *)
(* http_worker::process that authenticates a request.                      *)
(*                                                                         *)
(* Requests run on different threads and meet in two database tables.  A   *)
(* step of a request is one SQL statement together with the code up to the *)
(* next one; there are no transactions.  A request's handler, its          *)
(* user_model and its session object are its own.                          *)
(*                                                                         *)
(* A user's id and a session's token are positions in their tables: ids    *)
(* are generated, and tokens are 128 random bytes, which never repeat.     *)
(* The tables' constraints are not in the repository, so inserting an      *)
(* email again may succeed or throw.  Google's answers in the OAuth flow   *)
(* are the environment's.                                                  *)
(*                                                                         *)
(* A password's hash is 128 bytes, and strcmp compares two of them up to   *)
(* the first zero byte.  A row says which passwords' hashes agree with its *)
(* own so far (like), and like = {} is a hash without a zero byte: strcmp  *)
(* then reads past both arrays, and the right password may match or not.   *)
(***************************************************************************)
EXTENDS Integers, Sequences, FiniteSets

CONSTANTS
    Requests,       \* the requests of a run
    Emails,
    Passwords,
    Known,          \* the tables users that a run may start with
    Plans,          \* what the requests ask for: functions from Requests to Job
    SessionLength,  \* session::session_length
    MaxTime         \* bound on the clock

UserRow    == {row \in [email : Emails, pass : Passwords, like : SUBSET Passwords] :
                  row.like = {} \/ row.pass \in row.like}
\* The tasks of handlers that need a user; the others are auth_handler's.
Task       == {"user", "list", "create", "save", "upload"}
Job        == [kind : {"login", "register", "oauth"} \cup Task, email : Emails, pass : Passwords]
SessionRow == [user : Nat, created : Nat, expires : Nat, by : Requests]

ASSUME SessionsAssumption ==
    /\ Known \subseteq Seq(UserRow)
    /\ Plans \subseteq [Requests -> Job]
    /\ SessionLength \in Nat \ {0}
    /\ MaxTime \in Nat

VARIABLES
    now,       \* UNIX_TIMESTAMP()
    users,     \* the table users
    sessions,  \* the table sessions; by is the request that inserted (history)
    job,       \* what a request asks for
    sent,      \* the token in its session-token header, 0 if no session's
    pc,        \* the statement it executes next
    obj,       \* its handler's objects: user.id, session::create's new_token
               \* and user.current_session; 0 stands for what is not set
    status,    \* the status of the answer, 0 before
    given      \* the token in the answer's headers, 0 if there is none

tables == <<now, users, sessions>>
vars   == <<now, users, sessions, job, sent, pc, obj, status, given>>

NoSession == [token |-> 0, user |-> 0, expires |-> 0]
NoObjects == [uid |-> 0, token |-> 0, session |-> NoSession]

Init ==
    /\ now = 0
    /\ users \in Known
    /\ sessions = <<>>
    /\ job \in Plans
    /\ sent = [r \in Requests |-> 0]
    /\ pc = [r \in Requests |-> "new"]
    /\ obj = [r \in Requests |-> NoObjects]
    /\ status = [r \in Requests |-> 0]
    /\ given = [r \in Requests |-> 0]

\* The rows a WHERE clause selects.
ByEmail(e) == {i \in 1..Len(users) : users[i].email = e}

\* What strcmp may say of the hash of a row and that of a password.
MayMatch(row, p)  == p \in row.like \/ (row.like = {} /\ p = row.pass)
MayDiffer(row, p) == p \notin row.like

Valid(s) == s \in 1..Len(sessions) /\ sessions[s].expires > now

\* The tokens that answers have carried to clients.
Handed == {given[r] : r \in Requests} \ {0}

Goto(r, from, to) == pc[r] = from /\ pc' = [pc EXCEPT ![r] = to]

\* The handler goes on to its next statement with the objects o.
Proceed(r, from, to, o) ==
    /\ Goto(r, from, to)
    /\ obj' = [obj EXCEPT ![r] = o]
    /\ UNCHANGED <<job, sent, status, given>>

\* process() answers, with a token or without, and the handler is destroyed.
Answer(r, from, code, token) ==
    /\ Goto(r, from, "done")
    /\ obj' = [obj EXCEPT ![r] = NoObjects]
    /\ status' = [status EXCEPT ![r] = code]
    /\ given' = [given EXCEPT ![r] = token]
    /\ UNCHANGED <<job, sent>>

-----------------------------------------------------------------------------

Tick ==
    /\ now < MaxTime
    /\ now' = now + 1
    /\ UNCHANGED <<users, sessions, job, sent, pc, obj, status, given>>

\* A request arrives and is routed to its handler; a client uses a token that
\* it was sent, or one that no session has.
Begin(r) ==
    /\ Goto(r, "new", CASE job[r].kind = "login"    -> "authenticate"
                        [] job[r].kind = "register" -> "insertUser"
                        [] job[r].kind = "oauth"    -> "google"
                        [] job[r].kind \in Task     -> "lookup")
    /\ \E s \in {0} \cup IF job[r].kind \in Task THEN Handed ELSE {} :
          sent' = [sent EXCEPT ![r] = s]
    /\ UNCHANGED <<tables, job, obj, status, given>>

-----------------------------------------------------------------------------
(* auth_handler::put and post: user_model::create and authenticate. *)

\* create: INSERT INTO users, with the hash for a random salt.
InsertUser(r) ==
    /\ Proceed(r, "insertUser", "authenticate", obj[r])
    /\ \E row \in UserRow :
          /\ row.email = job[r].email /\ row.pass = job[r].pass
          /\ users' = Append(users, row)
    /\ UNCHANGED <<now, sessions>>

\* authenticate: SELECT ... WHERE email=?, one of the rows it selects, and the
\* hashes compare equal; fill_by_id, since users are never deleted.  It then
\* creates a session, which auth_handler replaces by another one.
AuthenticateOk(r) ==
    /\ pc[r] = "authenticate"
    /\ \E i \in ByEmail(job[r].email) :
          /\ MayMatch(users[i], job[r].pass)
          /\ Proceed(r, "authenticate", "insertFirst", [obj[r] EXCEPT !.uid = i])
    /\ UNCHANGED tables

\* Mutant: auth_handler::post does not look at what authenticate returns.
AuthenticateIgnored(r) ==
    /\ pc[r] = "authenticate"
    /\ \E i \in ByEmail(job[r].email) : MayDiffer(users[i], job[r].pass)
    /\ Proceed(r, "authenticate", "insertSession", obj[r])
    /\ UNCHANGED tables

\* The hashes differ: post answers 403; create only logs, and put goes on to
\* create a session for the uninitialised user.id.
AuthenticateFails(r) ==
    /\ pc[r] = "authenticate"
    /\ \E i \in ByEmail(job[r].email) : MayDiffer(users[i], job[r].pass)
    /\ \/ job[r].kind = "login" /\ Answer(r, "authenticate", 403, 0)
       \/ job[r].kind = "register" /\ Proceed(r, "authenticate", "insertSession", obj[r])
    /\ UNCHANGED tables

\* row() throws because no row was selected.
AuthenticateThrows(r) ==
    /\ pc[r] = "authenticate"
    /\ ByEmail(job[r].email) = {}
    /\ Answer(r, "authenticate", 500, 0)
    /\ UNCHANGED tables

-----------------------------------------------------------------------------
(* session::create, from authenticate ("First") and from auth_handler. *)

\* INSERT INTO sessions.  An uninitialised id has any value, the next user's
\* among them.
Insert(r, from, to) ==
    /\ \E u \in IF obj[r].uid = 0 THEN 0..Len(users) + 1 ELSE {obj[r].uid} :
          sessions' = Append(sessions, [user |-> u, created |-> now,
                                        expires |-> now + SessionLength, by |-> r])
    /\ Proceed(r, from, to, [obj[r] EXCEPT !.token = Len(sessions')])
    /\ UNCHANGED <<now, users>>

\* Mutant: the confirmation selects the newest session, not the new token.
ConfirmedNewest(r) ==
    [token |-> Len(sessions), user |-> obj[r].uid, expires |-> sessions[Len(sessions)].expires]

\* SELECT ... WHERE token=? confirms the insertion and fills the object.
Confirmed(r) ==
    LET s == obj[r].token
    IN  [token |-> s, user |-> obj[r].uid, expires |-> sessions[s].expires]

InsertFirst(r) == pc[r] = "insertFirst" /\ Insert(r, "insertFirst", "confirmFirst")

ConfirmFirst(r) ==
    /\ pc[r] = "confirmFirst"
    /\ Proceed(r, "confirmFirst", "insertSession", [obj[r] EXCEPT !.session = Confirmed(r)])
    /\ UNCHANGED tables

InsertSession(r) == pc[r] = "insertSession" /\ Insert(r, "insertSession", "confirmSession")

\* The answer carries the token: 302 with a location from get, else 200.
ConfirmSession(r) ==
    /\ pc[r] = "confirmSession"
    /\ Answer(r, "confirmSession", IF job[r].kind = "oauth" THEN 302 ELSE 200, Confirmed(r).token)
    /\ UNCHANGED tables

-----------------------------------------------------------------------------
(* auth_handler::get, the OAuth flow. *)

\* get_token and get_email return an address.
GoogleOk(r) == Proceed(r, "google", "fillByEmail", obj[r]) /\ UNCHANGED tables

\* The client reports an error or sends no code, or Google's answer has no
\* access token: a runtime_error, caught, and a redirect to the error page.
GoogleRefuses(r) == Answer(r, "google", 302, 0) /\ UNCHANGED tables

\* Google's answer is not JSON, or has no address and get_email returns
\* nullptr as a string: neither exception is a runtime_error, process()
\* catches it.
GoogleGarbled(r) == Answer(r, "google", 500, 0) /\ UNCHANGED tables

\* fill_by_email: SELECT id FROM users WHERE email=?.
FillByEmail(r) ==
    /\ pc[r] = "fillByEmail"
    /\ \/ \E i \in ByEmail(job[r].email) :
             Proceed(r, "fillByEmail", "insertSession", [obj[r] EXCEPT !.uid = i])
       \/ ByEmail(job[r].email) = {} /\ Answer(r, "fillByEmail", 302, 0)
    /\ UNCHANGED tables

-----------------------------------------------------------------------------
(* process(): a request with a session-token header. *)

\* The objects after SELECT user_id, created, expires found the session s.
Found(s) ==
    LET row == sessions[s]
    IN  [uid |-> row.user, token |-> 0,
         session |-> [token |-> s, user |-> row.user, expires |-> row.expires]]

\* Mutant: a session is still found at the second it expires.
LookupBoundary(r) ==
    LET s     == sent[r]
        valid == s \in 1..Len(sessions) /\ sessions[s].expires >= now
    IN  /\ \/ valid /\ Proceed(r, "lookup", "fillOwner", Found(s))
           \/ ~valid /\ Answer(r, "lookup", 401, 0)
        /\ UNCHANGED tables

\* fill_by_token: SELECT ... WHERE token=? AND expires > UNIX_TIMESTAMP().
Lookup(r) ==
    LET s == sent[r]
    IN  /\ \/ Valid(s) /\ Proceed(r, "lookup", "fillOwner", Found(s))
           \/ ~Valid(s) /\ Answer(r, "lookup", 401, 0)
        /\ UNCHANGED tables

\* fill_by_id in fill_by_token: without a row for the session's user, 401.
FillOwner(r) ==
    /\ \/ obj[r].uid \in 1..Len(users) /\ Proceed(r, "fillOwner", "refresh", obj[r])
       \/ obj[r].uid \notin 1..Len(users) /\ Answer(r, "fillOwner", 401, 0)
    /\ UNCHANGED tables

\* session::refresh sets expires of the row with this token and this user.
Update(session, expires) ==
    sessions' = [sessions EXCEPT ![session.token].expires =
                    IF sessions[session.token].user = session.user THEN expires ELSE @]

\* Mutant: the session's length is forgotten.
RefreshToNow(r) ==
    /\ Proceed(r, "refresh", "handler", obj[r])
    /\ Update(obj[r].session, now)
    /\ UNCHANGED <<now, users>>

\* refresh_session: UPDATE ... WHERE token=? AND user_id=?, expired or not.
Refresh(r) ==
    /\ Proceed(r, "refresh", "handler", obj[r])
    /\ Update(obj[r].session, now + SessionLength)
    /\ UNCHANGED <<now, users>>

\* user_handler::get, and any other handler that executes no statement.
Handle(r) == Answer(r, "handler", 200, 0) /\ UNCHANGED tables

-----------------------------------------------------------------------------

\* A statement throws: in fill_by_token that is a 401, in refresh_session it is
\* ignored, auth_handler::get redirects, and anything else ends in a 500.
StatementThrows(r) ==
    /\ \/ pc[r] \in {"lookup", "fillOwner"} /\ Answer(r, pc[r], 401, 0)
       \/ Proceed(r, "refresh", "handler", obj[r])
       \/ /\ pc[r] \in {"fillByEmail", "insertSession", "confirmSession"}
          /\ job[r].kind = "oauth"
          /\ Answer(r, pc[r], 302, 0)
       \/ /\ pc[r] \in {"insertUser", "authenticate", "insertFirst", "confirmFirst",
                        "insertSession", "confirmSession", "handler"}
          /\ job[r].kind # "oauth"
          /\ Answer(r, pc[r], 500, 0)
    /\ UNCHANGED tables

\* Everything before a handler that needs a user, and all of auth_handler.
Authenticate(r) ==
    \/ Begin(r)
    \/ InsertUser(r)
    \/ AuthenticateOk(r) \/ AuthenticateFails(r) \/ AuthenticateThrows(r)
    \/ InsertFirst(r) \/ ConfirmFirst(r)
    \/ InsertSession(r) \/ ConfirmSession(r)
    \/ GoogleOk(r) \/ GoogleRefuses(r) \/ GoogleGarbled(r)
    \/ FillByEmail(r)
    \/ Lookup(r) \/ FillOwner(r) \/ Refresh(r)
    \/ StatementThrows(r)

-----------------------------------------------------------------------------

\* create's authentication may have failed: some row of the email, its own or
\* another's, may differ from the password.
MayHaveFailed(q) ==
    /\ job[q].kind = "register"
    /\ \E i \in ByEmail(job[q].email) : MayDiffer(users[i], job[q].pass)

\* The user u is one that the request q named: with its email and, unless
\* Google vouched for it, a password that strcmp does not tell from hers.
Named(q, u) ==
    /\ u \in ByEmail(job[q].email)
    /\ job[q].kind # "oauth" => MayMatch(users[u], job[q].pass)

\* From the password to the handler: a request with a token runs as a user whom
\* the login, registration or OAuth return has named that was answered with the
\* token, however the statements of others came in between; only the token of a
\* registration whose authentication failed may be anybody's.
ServedAsOwner ==
    \A r, q \in Requests :
        pc[r] = "handler" /\ sent[r] = given[q] => Named(q, obj[r].uid) \/ MayHaveFailed(q)

\* Every session, also the ones that no answer carries, is of a user whom the
\* request has named that made it; put goes on after an authentication that
\* failed, and only then the session may be anybody's or nobody's.
SessionsOfUsers ==
    \A s \in 1..Len(sessions) :
        LET q == sessions[s].by
        IN  Named(q, sessions[s].user) \/ MayHaveFailed(q)

\* Requests that refresh the same session, in any order, never shorten it.
RefreshNeverShortens ==
    [][\A s \in 1..Len(sessions) : sessions'[s].expires >= sessions[s].expires]_vars

\* A session that has expired while no request was between its look-up and its
\* refresh: the UPDATE itself does not look at the time.
Expired(s) ==
    /\ s \in 1..Len(sessions) /\ ~Valid(s)
    /\ \A r \in Requests : pc[r] \in {"fillOwner", "refresh"} => obj[r].session.token # s

\* Such a session has expired for ever: no request is authenticated by it or
\* makes it valid again.
ExpiredForGood == [][\A s \in 1..Len(sessions) : Expired(s) => Expired(s)']_vars
=============================================================================
