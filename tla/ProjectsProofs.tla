---------------------------- MODULE ProjectsProofs ----------------------------
(***************************************************************************)
(* The safety properties of Sessions and Projects for any number of        *)
(* requests, users and ticks.                                              *)
(*                                                                         *)
(* A request is changed by its own steps alone, and the tables only grow:  *)
(* a row keeps its email, its hash and its user.  So what a request       *)
(* knows of the rows that it has inserted or found stays true while others *)
(* run, and only its own steps have to be looked at one by one.            *)
(***************************************************************************)
EXTENDS Projects, TLAPS

Kinds == {"login", "register", "oauth", "user", "list", "create", "save", "upload"}

\* What a request does in one step.
RequestStep(r) ==
    \/ Authenticate(r) /\ UNCHANGED projectVars
    \/ Doing(r, "user") /\ Handle(r) /\ UNCHANGED projectVars
    \/ ProjectStep(r)

LEMMA Steps ==
    ASSUME [ApiNext]_apiVars
    PROVE  \/ Tick /\ UNCHANGED projectVars
           \/ \E r \in Requests : RequestStep(r)
           \/ UNCHANGED apiVars
BY DEF ApiNext, RequestStep

LEMMA JobType ==
    ASSUME TypeOK, NEW r \in Requests
    PROVE  job[r].kind \in Kinds /\ job[r].email \in Emails /\ job[r].pass \in Passwords
<1>1. job[r] \in Job
    BY SessionsAssumption DEF TypeOK
<1> QED BY <1>1 DEF Job, Task, Kinds

LEMMA RowTypes ==
    ASSUME TypeOK
    PROVE  /\ \A i \in 1..Len(users) : users[i] \in UserRow
           /\ \A s \in 1..Len(sessions) : sessions[s] \in SessionRow
BY DEF TypeOK

-----------------------------------------------------------------------------
(* Types, and what a step may do to the tables. *)

\* A row that is there stays, with its user and its expiry for others than the
\* session that is refreshed.
Grow ==
    /\ Len(users) <= Len(users')
    /\ \A i \in 1..Len(users) : users'[i] = users[i]
    /\ Len(sessions) <= Len(sessions')
    /\ \A s \in 1..Len(sessions) :
          sessions'[s].user = sessions[s].user /\ sessions'[s].by = sessions[s].by

LEMMA SameTables ==
    ASSUME TypeOK, UNCHANGED tables
    PROVE  Grow
BY DEF Grow, tables, TypeOK

LEMMA InsertUserTables ==
    ASSUME TypeOK, NEW r \in Requests, InsertUser(r)
    PROVE  users' \in Seq(UserRow) /\ Grow
<1>1. PICK row \in UserRow : users' = Append(users, row)
    BY DEF InsertUser
<1>2. users \in Seq(UserRow) /\ sessions' = sessions /\ sessions \in Seq(SessionRow)
    BY DEF InsertUser, TypeOK
<1> HIDE DEF UserRow
<1> QED BY <1>1, <1>2 DEF Grow

\* Insert appends a session of the handler's user, or of anybody.
LEMMA InsertTables ==
    ASSUME TypeOK, NEW r \in Requests, NEW from, NEW to, Insert(r, from, to)
    PROVE  /\ sessions' \in Seq(SessionRow) /\ Len(sessions') = Len(sessions) + 1
           /\ \A s \in 1..Len(sessions) : sessions'[s] = sessions[s]
           /\ sessions'[Len(sessions')].expires = now + SessionLength
           /\ sessions'[Len(sessions')].by = r
           /\ obj[r].uid # 0 => sessions'[Len(sessions')].user = obj[r].uid
           /\ obj'[r] = [obj[r] EXCEPT !.token = Len(sessions')]
           /\ Grow
<1>1. PICK u \in IF obj[r].uid = 0 THEN 0..Len(users) + 1 ELSE {obj[r].uid} :
          sessions' = Append(sessions, [user |-> u, created |-> now,
                                        expires |-> now + SessionLength, by |-> r])
    BY DEF Insert
<1>2. u \in Nat /\ now \in Nat /\ Len(users) \in Nat /\ obj[r].uid \in Nat
    BY SessionsAssumption, SMTT(60) DEF TypeOK, Objects
<1>3. [user |-> u, created |-> now, expires |-> now + SessionLength, by |-> r] \in SessionRow
    BY <1>2, SessionsAssumption DEF SessionRow
<1>4. sessions \in Seq(SessionRow)
    BY DEF TypeOK
<1>5. /\ sessions' \in Seq(SessionRow) /\ Len(sessions') = Len(sessions) + 1
      /\ \A s \in 1..Len(sessions) : sessions'[s] = sessions[s]
      /\ sessions'[Len(sessions')] = [user |-> u, created |-> now,
                                      expires |-> now + SessionLength, by |-> r]
    BY <1>1, <1>3, <1>4
<1>6. users' = users /\ obj' = [obj EXCEPT ![r] = [obj[r] EXCEPT !.token = Len(sessions')]]
    BY DEF Insert, Proceed
<1> QED BY <1>1, <1>4, <1>5, <1>6 DEF Grow, TypeOK

\* An UPDATE changes the expiry of one session at most.
LEMMA UpdateTables ==
    ASSUME TypeOK, NEW session \in [token : Nat, user : Nat, expires : Nat], NEW expires \in Nat, Update(session, expires)
    PROVE  /\ sessions' \in Seq(SessionRow) /\ Len(sessions') = Len(sessions)
           /\ \A s \in 1..Len(sessions) :
                 /\ sessions'[s].user = sessions[s].user
                 /\ sessions'[s].by = sessions[s].by
                 /\ s # session.token => sessions'[s] = sessions[s]
                 /\ sessions'[s].expires \in {sessions[s].expires, expires}
<1> DEFINE t == session.token
           new == IF sessions[t].user = session.user THEN expires ELSE sessions[t].expires
<1>1. sessions \in Seq(SessionRow)
    BY DEF TypeOK
<1>2. sessions' = [sessions EXCEPT ![t] = [sessions[t] EXCEPT !.expires = new]]
    BY DEF Update
<1>3. \A s \in 1..Len(sessions) : sessions[s] \in SessionRow
    BY <1>1
<1>4. t \in 1..Len(sessions) =>
          /\ [sessions[t] EXCEPT !.expires = new] \in SessionRow
          /\ [sessions[t] EXCEPT !.expires = new].user = sessions[t].user
          /\ [sessions[t] EXCEPT !.expires = new].by = sessions[t].by
          /\ [sessions[t] EXCEPT !.expires = new].expires = new
    BY <1>3 DEF SessionRow
<1> DEFINE row == [sessions[t] EXCEPT !.expires = new]
<1>5. sessions' = [sessions EXCEPT ![t] = row]
    BY <1>2
<1>6. t \in 1..Len(sessions) =>
          /\ row \in SessionRow /\ row.expires = new
          /\ row.user = sessions[t].user /\ row.by = sessions[t].by
    BY <1>4
<1>7. new \in {sessions[t].expires, expires}
    OBVIOUS
<1>8. t \in Nat
    OBVIOUS
<1> HIDE DEF row, new, t
<1>9. sessions \in [1..Len(sessions) -> SessionRow] /\ Len(sessions) \in Nat
    BY <1>1
<1>10. sessions' \in [1..Len(sessions) -> SessionRow]
    BY <1>5, <1>6, <1>8, <1>9
<1>11. sessions' \in Seq(SessionRow) /\ Len(sessions') = Len(sessions)
    BY <1>9, <1>10
<1>12. ASSUME NEW s \in 1..Len(sessions)
      PROVE  /\ sessions'[s].user = sessions[s].user
             /\ sessions'[s].by = sessions[s].by
             /\ s # t => sessions'[s] = sessions[s]
             /\ sessions'[s].expires \in {sessions[s].expires, expires}
    <2>1. CASE s = t
        BY <1>5, <1>6, <1>7, <1>9, <2>1
    <2>2. CASE s # t
        BY <1>5, <1>8, <1>9, <2>2
    <2> QED BY <2>1, <2>2
<1> QED BY <1>11, <1>12 DEF t

-----------------------------------------------------------------------------

LEMMA RefreshTables ==
    ASSUME TypeOK, NEW r \in Requests, Refresh(r)
    PROVE  /\ sessions' \in Seq(SessionRow) /\ Grow
           /\ now' = now /\ users' = users
           /\ Update(obj[r].session, now + SessionLength)
<1>1. now + SessionLength \in Nat
    BY SessionsAssumption DEF TypeOK
<1>2. Update(obj[r].session, now + SessionLength) /\ now' = now /\ users' = users
    BY DEF Refresh
<1>0. obj[r].session \in [token : Nat, user : Nat, expires : Nat]
    BY DEF TypeOK, Objects
<1>3. /\ sessions' \in Seq(SessionRow) /\ Len(sessions') = Len(sessions)
      /\ \A s \in 1..Len(sessions) :
            sessions'[s].user = sessions[s].user /\ sessions'[s].by = sessions[s].by
    BY <1>0, <1>1, <1>2, UpdateTables
<1>4. Grow
    <2>1. Len(users) \in Nat /\ Len(sessions) \in Nat
        BY DEF TypeOK
    <2> QED BY <1>2, <1>3, <2>1 DEF Grow
<1> QED BY <1>2, <1>3, <1>4

\* The tables of Sessions after a step of a request.
LEMMA RequestTables ==
    ASSUME TypeOK, NEW r \in Requests, RequestStep(r)
    PROVE  /\ now' = now /\ users' \in Seq(UserRow) /\ sessions' \in Seq(SessionRow)
           /\ Grow
<1>1. CASE InsertUser(r)
    <2>1. now' = now /\ sessions' = sessions
        BY <1>1 DEF InsertUser
    <2> QED BY <1>1, <2>1, InsertUserTables DEF TypeOK
<1>2. CASE InsertFirst(r) \/ InsertSession(r)
    <2>1. now' = now /\ users' = users
        BY <1>2 DEF InsertFirst, InsertSession, Insert
    <2> QED BY <1>2, <2>1, InsertTables DEF InsertFirst, InsertSession, TypeOK
<1>3. CASE Refresh(r)
    BY <1>3, RefreshTables DEF TypeOK
<1>4. CASE ~InsertUser(r) /\ ~InsertFirst(r) /\ ~InsertSession(r) /\ ~Refresh(r)
    <2>1. UNCHANGED tables
        BY <1>4
           DEF RequestStep, Authenticate, Begin, AuthenticateOk, AuthenticateFails,
               AuthenticateThrows, ConfirmFirst, ConfirmSession, GoogleOk, GoogleRefuses,
               GoogleGarbled, FillByEmail, Lookup, FillOwner, StatementThrows, Handle,
               ProjectStep, InsertProject, ConfirmProject, FillProject, UpdateProject, List,
               Decode, InsertFile, ConfirmFile, ProjectThrows
    <2> QED BY <2>1, SameTables DEF tables, TypeOK
<1> QED BY <1>1, <1>2, <1>3, <1>4

\* A request leaves the handlers, the answers and the headers of the others.
LEMMA Others ==
    ASSUME TypeOK, NEW r \in Requests, RequestStep(r), NEW q \in Requests, q # r
    PROVE  /\ job' = job
           /\ sent'[q] = sent[q] /\ pc'[q] = pc[q] /\ obj'[q] = obj[q]
           /\ status'[q] = status[q] /\ given'[q] = given[q]
           /\ lastId'[q] = lastId[q] /\ model'[q] = model[q] /\ shown'[q] = shown[q]
<1> USE DEF TypeOK, Goto, Proceed, Answer, projectVars
<1>1. CASE Authenticate(r) /\ UNCHANGED projectVars
    <2>1. CASE Begin(r)
        BY <1>1, <2>1 DEF Begin
    <2>2. CASE InsertUser(r) \/ AuthenticateOk(r) \/ AuthenticateFails(r) \/ AuthenticateThrows(r)
        BY <1>1, <2>2, SMTT(60) DEF InsertUser, AuthenticateOk, AuthenticateFails, AuthenticateThrows
    <2>3. CASE InsertFirst(r) \/ ConfirmFirst(r) \/ InsertSession(r) \/ ConfirmSession(r)
        BY <1>1, <2>3 DEF InsertFirst, Insert, ConfirmFirst, InsertSession, ConfirmSession
    <2>4. CASE GoogleOk(r) \/ GoogleRefuses(r) \/ GoogleGarbled(r) \/ FillByEmail(r)
        BY <1>1, <2>4, SMTT(60) DEF GoogleOk, GoogleRefuses, GoogleGarbled, FillByEmail
    <2>5. CASE Lookup(r) \/ FillOwner(r) \/ Refresh(r)
        BY <1>1, <2>5, SMTT(60) DEF Lookup, FillOwner, Refresh
    <2>6. CASE StatementThrows(r)
        BY <1>1, <2>6, SMTT(60) DEF StatementThrows
    <2> QED BY <1>1, <2>1, <2>2, <2>3, <2>4, <2>5, <2>6 DEF Authenticate
<1>2. CASE Doing(r, "user") /\ Handle(r) /\ UNCHANGED projectVars
    BY <1>2 DEF Handle
<1>3. CASE ProjectStep(r)
    <2>1. CASE InsertProject(r) \/ ConfirmProject(r)
        BY <2>1, SMTT(60) DEF InsertProject, ConfirmProject, Show
    <2>2. CASE FillProject(r)
        BY <2>2, SMTT(60) DEF FillProject
    <2>3. CASE UpdateProject(r)
        <3>1. Answer(r, "updateProject", 200, 0) /\ lastId' = lastId
            BY <2>3 DEF UpdateProject, Show
        <3>2. model'[q] = model[q] /\ shown'[q] = shown[q]
            BY <2>3 DEF UpdateProject, Show
        <3> QED BY <3>1, <3>2
    <2>4. CASE InsertFile(r)
        BY <2>4 DEF InsertFile
    <2>6. CASE List(r)
        BY <2>6 DEF List
    <2>7. CASE Decode(r)
        BY <2>7 DEF Decode
    <2>5. CASE ConfirmFile(r) \/ ProjectThrows(r)
        BY <2>5, SMTT(60) DEF ConfirmFile, ProjectThrows, Show
    <2> QED BY <1>3, <2>1, <2>2, <2>3, <2>4, <2>5, <2>6, <2>7 DEF ProjectStep
<1> QED BY <1>1, <1>2, <1>3 DEF RequestStep

-----------------------------------------------------------------------------
(* The inductive invariant. *)

Making == {"insertFirst", "confirmFirst", "insertSession", "confirmSession"}
Confirming == {"confirmFirst", "confirmSession"}
Serving == {"refresh", "handler", "confirmProject", "updateProject", "insertFile", "confirmFile"}

\* The row u of us is of a user whom the job j has named, or j is a registration
\* whose authentication may have failed.
Proven(us, j, u) ==
    \/ /\ u \in 1..Len(us) /\ us[u].email = j.email
       /\ j.kind # "oauth" => MayMatch(us[u], j.pass)
    \/ /\ j.kind = "register"
       /\ \E i \in 1..Len(us) : us[i].email = j.email /\ MayDiffer(us[i], j.pass)

\* What a login, a registration or an OAuth return knows at each statement.
LoginOK(q) ==
    /\ pc[q] \in {"google", "fillByEmail"} => job[q].kind = "oauth"
    /\ pc[q] \in Making => Proven(users, job[q], obj[q].uid)
    /\ pc[q] \in Confirming => /\ obj[q].token \in 1..Len(sessions)
                               /\ Proven(users, job[q], sessions[obj[q].token].user)
    /\ given[q] # 0 => /\ given[q] \in 1..Len(sessions)
                       /\ Proven(users, job[q], sessions[given[q]].user)

\* What a request that was sent with a token knows of its session and its user.
TokenOK(q) ==
    /\ pc[q] \in {"fillOwner"} \cup Serving =>
           /\ sent[q] \in 1..Len(sessions)
           /\ obj[q].uid = sessions[sent[q]].user
           /\ obj[q].session.token = sent[q]
    /\ pc[q] \in Serving => obj[q].uid \in 1..Len(users)

\* What a request knows of the project or the file that it has stored.
StoredOK(q) ==
    /\ pc[q] = "confirmProject" =>
           job[q].kind = "create" /\ lastId[q] \in 1..Len(projects) /\ projects[lastId[q]].by = q
    /\ pc[q] = "updateProject" => job[q].kind = "save"
    /\ pc[q] = "insertFile" => job[q].kind = "upload"
    /\ pc[q] = "confirmFile" =>
           job[q].kind = "upload" /\ lastId[q] \in 1..Len(files) /\ files[lastId[q]].by = q
    /\ shown[q] # 0 =>
           /\ job[q].kind = "create" =>
                  shown[q] \in 1..Len(projects) /\ projects[shown[q]].by = q
           /\ job[q].kind = "upload" =>
                  shown[q] \in 1..Len(files) /\ files[shown[q]].by = q

\* No session lasts longer than one that is made or refreshed now.
Aged == \A s \in 1..Len(sessions) : sessions[s].expires <= now + SessionLength

SessionsOwned ==
    \A s \in 1..Len(sessions) : Proven(users, job[sessions[s].by], sessions[s].user)

\* Every file is the user's whose session its upload was sent with.
FilesKnown ==
    \A i \in 1..Len(files) :
        LET r == files[i].by
        IN  /\ pc[r] \in {"confirmFile", "done"}
            /\ sent[r] \in 1..Len(sessions)
            /\ files[i].user = sessions[sent[r]].user

IInv ==
    /\ TypeOK
    /\ \A q \in Requests : LoginOK(q) /\ TokenOK(q) /\ StoredOK(q)
    /\ Aged /\ SessionsOwned /\ FilesKnown

-----------------------------------------------------------------------------
(* What the two ways of going on do, and what growing tables keep. *)

LEMMA Proceeds ==
    ASSUME TypeOK, NEW r \in Requests, NEW from, NEW to, NEW o, Proceed(r, from, to, o)
    PROVE  /\ pc[r] = from /\ pc'[r] = to /\ obj'[r] = o
           /\ UNCHANGED <<job, sent, status, given>>
BY DEF Proceed, Goto, TypeOK

LEMMA Answers ==
    ASSUME TypeOK, NEW r \in Requests, NEW from, NEW code, NEW token,
           Answer(r, from, code, token)
    PROVE  /\ pc[r] = from /\ pc'[r] = "done" /\ obj'[r] = NoObjects /\ status'[r] = code
           /\ given'[r] = token
           /\ UNCHANGED <<job, sent>>
BY DEF Answer, Goto, TypeOK

LEMMA ProvenStays ==
    ASSUME TypeOK, Grow, users' \in Seq(UserRow), NEW j, NEW u, Proven(users, j, u)
    PROVE  Proven(users', j, u)
<1>1. \A i \in 1..Len(users) : i \in 1..Len(users') /\ users'[i] = users[i]
    BY DEF Grow, TypeOK
<1> QED BY <1>1 DEF Proven

LEMMA SessionsStay ==
    ASSUME TypeOK, Grow, sessions' \in Seq(SessionRow), NEW s \in 1..Len(sessions)
    PROVE  /\ s \in 1..Len(sessions')
           /\ sessions'[s].user = sessions[s].user /\ sessions'[s].by = sessions[s].by
BY DEF Grow, TypeOK

\* What a request knows stays true while the tables grow and others run.
LEMMA LoginStays ==
    ASSUME TypeOK, Grow, users' \in Seq(UserRow), sessions' \in Seq(SessionRow),
           NEW q \in Requests, LoginOK(q),
           job' = job, pc'[q] = pc[q], obj'[q] = obj[q], given'[q] = given[q]
    PROVE  LoginOK(q)'
<1>2. pc[q] \in Making => Proven(users', job[q], obj[q].uid)
    BY ProvenStays DEF LoginOK
<1>3. pc[q] \in Confirming =>
          /\ obj[q].token \in 1..Len(sessions')
          /\ Proven(users', job[q], sessions'[obj[q].token].user)
    BY ProvenStays, SessionsStay DEF LoginOK
<1>4. given[q] # 0 =>
          /\ given[q] \in 1..Len(sessions')
          /\ Proven(users', job[q], sessions'[given[q]].user)
    BY ProvenStays, SessionsStay DEF LoginOK
<1> QED BY <1>2, <1>3, <1>4 DEF LoginOK

LEMMA TokenStays ==
    ASSUME TypeOK, Grow, users' \in Seq(UserRow), sessions' \in Seq(SessionRow),
           NEW q \in Requests, TokenOK(q),
           pc'[q] = pc[q], obj'[q] = obj[q], sent'[q] = sent[q]
    PROVE  TokenOK(q)'
<1>1. sent[q] \in 1..Len(sessions) =>
          sent[q] \in 1..Len(sessions') /\ sessions'[sent[q]].user = sessions[sent[q]].user
    BY SessionsStay
<1>2. obj[q].uid \in 1..Len(users) => obj[q].uid \in 1..Len(users')
    BY DEF Grow, TypeOK
<1> QED BY <1>1, <1>2 DEF TokenOK

-----------------------------------------------------------------------------
(* What a request's own step does to what it knows. *)

\* An answer without a token, or a step to where nothing is known of a login.
LEMMA LoginAway ==
    ASSUME TypeOK, Grow, users' \in Seq(UserRow), sessions' \in Seq(SessionRow),
           NEW r \in Requests, LoginOK(r), job' = job,
           pc'[r] \notin {"google", "fillByEmail", "authenticate"} \cup Making,
           given'[r] \in {0, given[r]}
    PROVE  LoginOK(r)'
<1>1. given'[r] # 0 =>
          /\ given'[r] \in 1..Len(sessions')
          /\ Proven(users', job[r], sessions'[given'[r]].user)
    BY ProvenStays, SessionsStay DEF LoginOK
<1> QED BY <1>1 DEF LoginOK, Making, Confirming

\* The steps that have nothing to do with a login.
Elsewhere(r) ==
    \/ AuthenticateThrows(r) \/ GoogleRefuses(r) \/ GoogleGarbled(r)
    \/ Lookup(r) \/ FillOwner(r) \/ Refresh(r) \/ StatementThrows(r)
    \/ Handle(r) \/ ProjectStep(r)

LEMMA HandlerMoves ==
    ASSUME TypeOK, NEW r \in Requests, Handle(r) \/ ProjectStep(r)
    PROVE  /\ job' = job /\ sent' = sent
           /\ pc'[r] \in {"done", "confirmProject", "updateProject", "insertFile", "confirmFile"}
           /\ given'[r] \in {0, given[r]}
<1>1. CASE Handle(r)
    BY <1>1, Answers DEF Handle
<1>2. CASE InsertProject(r) \/ ConfirmProject(r) \/ FillProject(r)
    BY <1>2, Answers, Proceeds DEF InsertProject, ConfirmProject, FillProject, Show
<1>3. CASE UpdateProject(r)
    <2>1. Answer(r, "updateProject", 200, 0)
        BY <1>3 DEF UpdateProject, Show
    <2> QED BY <2>1, Answers
<1>4. CASE List(r) \/ Decode(r) \/ InsertFile(r) \/ ConfirmFile(r) \/ ProjectThrows(r)
    BY <1>4, Answers, Proceeds DEF List, Decode, InsertFile, ConfirmFile, ProjectThrows, Show
<1> QED BY <1>1, <1>2, <1>3, <1>4 DEF ProjectStep

LEMMA ElsewhereMoves ==
    ASSUME TypeOK, NEW r \in Requests, Elsewhere(r)
    PROVE  /\ job' = job /\ sent' = sent
           /\ pc'[r] \in {"done", "fillOwner"} \cup Serving
           /\ given'[r] \in {0, given[r]}
<1>1. CASE AuthenticateThrows(r) \/ GoogleRefuses(r) \/ GoogleGarbled(r)
    BY <1>1, Answers DEF AuthenticateThrows, GoogleRefuses, GoogleGarbled
<1>2. CASE Lookup(r) \/ FillOwner(r) \/ Refresh(r)
    BY <1>2, Answers, Proceeds DEF Lookup, FillOwner, Refresh, Serving
<1>3. CASE StatementThrows(r)
    BY <1>3, Answers, Proceeds DEF StatementThrows, Serving
<1>4. CASE Handle(r) \/ ProjectStep(r)
    BY <1>4, HandlerMoves DEF Serving
<1> QED BY <1>1, <1>2, <1>3, <1>4 DEF Elsewhere

LEMMA BeginMoves ==
    ASSUME TypeOK, NEW r \in Requests, Begin(r)
    PROVE  /\ job' = job /\ given' = given /\ obj' = obj /\ pc[r] = "new"
           /\ pc'[r] \in {"authenticate", "insertUser", "google", "lookup"}
           /\ pc'[r] = "authenticate" => job[r].kind = "login"
           /\ pc'[r] = "google" => job[r].kind = "oauth"
BY JobType, SMTT(60) DEF Begin, Goto, Kinds, Task, TypeOK

LEMMA LoginStep ==
    ASSUME IInv, NEW r \in Requests, RequestStep(r)
    PROVE  LoginOK(r)'
<1>1. TypeOK /\ LoginOK(r)
    BY DEF IInv
<1>2. /\ users' \in Seq(UserRow) /\ sessions' \in Seq(SessionRow) /\ Grow
    BY <1>1, RequestTables
<1>3. given[r] # 0 =>
          /\ given[r] \in 1..Len(sessions')
          /\ Proven(users', job[r], sessions'[given[r]].user)
    BY <1>1, <1>2, ProvenStays, SessionsStay DEF LoginOK
<1>4. CASE Elsewhere(r)
    BY <1>1, <1>2, <1>4, ElsewhereMoves, LoginAway DEF Serving, Making
<1>5. CASE Begin(r)
    <2> QED BY <1>1, <1>3, <1>5, BeginMoves DEF LoginOK, Making, Confirming
<1>6. CASE InsertUser(r)
    <2>1. pc'[r] = "authenticate" /\ job' = job /\ given' = given
        BY <1>1, <1>6, Proceeds DEF InsertUser
    <2> QED BY <1>3, <2>1 DEF LoginOK, Making, Confirming
<1>7. CASE AuthenticateOk(r)
    <2>1. PICK i \in ByEmail(job[r].email) :
              /\ MayMatch(users[i], job[r].pass)
              /\ Proceed(r, "authenticate", "insertFirst", [obj[r] EXCEPT !.uid = i])
        BY <1>7 DEF AuthenticateOk
    <2>2. /\ pc'[r] = "insertFirst" /\ obj'[r] = [obj[r] EXCEPT !.uid = i]
          /\ job' = job /\ given' = given
        BY <1>1, <2>1, Proceeds
    <2>3. obj'[r].uid = i
        BY <1>1, <2>2 DEF TypeOK, Objects
    <2>4. Proven(users', job[r], i)
        <3>1. Proven(users, job[r], i)
            BY <2>1 DEF Proven, ByEmail
        <3> QED BY <1>1, <1>2, <3>1, ProvenStays
    <2> QED BY <1>3, <2>2, <2>3, <2>4 DEF LoginOK, Making, Confirming
<1>8. CASE AuthenticateFails(r)
    <2>1. PICK i \in ByEmail(job[r].email) : MayDiffer(users[i], job[r].pass)
        BY <1>8 DEF AuthenticateFails
    <2>2. CASE Answer(r, "authenticate", 403, 0)
        BY <1>1, <1>2, <2>2, Answers, LoginAway DEF Making
    <2>3. CASE job[r].kind = "register" /\ Proceed(r, "authenticate", "insertSession", obj[r])
        <3>1. /\ pc[r] = "authenticate" /\ pc'[r] = "insertSession"
              /\ obj'[r] = obj[r] /\ job' = job /\ given' = given
            BY <1>1, <2>3, Proceeds
        <3>4. Proven(users', job[r], obj[r].uid)
            <4>1. Proven(users, job[r], obj[r].uid)
                BY <2>1, <2>3 DEF Proven, ByEmail
            <4> QED BY <1>1, <1>2, <4>1, ProvenStays
        <3> QED BY <1>3, <3>1, <3>4 DEF LoginOK, Making, Confirming
    <2> QED BY <1>8, <2>2, <2>3 DEF AuthenticateFails
<1>9. CASE InsertFirst(r) \/ InsertSession(r)
    <2>1. PICK from \in {"insertFirst", "insertSession"},
               to \in {"confirmFirst", "confirmSession"} : Insert(r, from, to)
        BY <1>9 DEF InsertFirst, InsertSession
    <2>2. pc[r] = from /\ pc'[r] = to /\ job' = job /\ given' = given
        BY <1>1, <2>1, Proceeds DEF Insert
    <2>3. /\ Len(sessions') = Len(sessions) + 1
          /\ obj[r].uid # 0 => sessions'[Len(sessions')].user = obj[r].uid
          /\ obj'[r] = [obj[r] EXCEPT !.token = Len(sessions')]
        BY <1>1, <2>1, InsertTables
    <2>4. obj'[r].uid = obj[r].uid /\ obj'[r].token = Len(sessions')
        BY <1>1, <2>3 DEF TypeOK, Objects
    <2>5. Proven(users, job[r], obj[r].uid)
        BY <1>1, <2>2 DEF LoginOK, Making
    <2>6. Proven(users', job[r], obj[r].uid)
        BY <1>1, <1>2, <2>5, ProvenStays
    <2>7. Proven(users', job[r], sessions'[Len(sessions')].user)
        BY <2>3, <2>6 DEF Proven
    <2>8. Len(sessions') \in 1..Len(sessions')
        BY <1>1, <2>3 DEF TypeOK
    <2> QED BY <1>3, <2>2, <2>4, <2>6, <2>7, <2>8 DEF LoginOK, Confirming
<1>10. CASE ConfirmFirst(r)
    <2>1. /\ pc[r] = "confirmFirst" /\ pc'[r] = "insertSession"
          /\ obj'[r] = [obj[r] EXCEPT !.session = Confirmed(r)]
          /\ job' = job /\ given' = given
        BY <1>1, <1>10, Proceeds DEF ConfirmFirst
    <2>2. obj'[r].uid = obj[r].uid
        BY <1>1, <2>1 DEF TypeOK, Objects
    <2>3. Proven(users', job[r], obj[r].uid)
        BY <1>1, <1>2, <2>1, ProvenStays DEF LoginOK, Making
    <2> QED BY <1>3, <2>1, <2>2, <2>3 DEF LoginOK, Confirming
<1>11. CASE ConfirmSession(r)
    <2>1. /\ pc[r] = "confirmSession" /\ pc'[r] = "done"
          /\ given'[r] = obj[r].token /\ job' = job
        BY <1>1, <1>11, Answers DEF ConfirmSession, Confirmed
    <2>2. /\ obj[r].token \in 1..Len(sessions')
          /\ Proven(users', job[r], sessions'[obj[r].token].user)
        BY <1>1, <1>2, <2>1, ProvenStays, SessionsStay DEF LoginOK, Confirming
    <2> QED BY <2>1, <2>2 DEF LoginOK, Making, Confirming
<1>12. CASE GoogleOk(r)
    <2>1. /\ pc[r] = "google" /\ pc'[r] = "fillByEmail" /\ job' = job /\ given' = given
        BY <1>1, <1>12, Proceeds DEF GoogleOk
    <2> QED BY <1>1, <1>3, <2>1 DEF LoginOK, Making, Confirming
<1>13. CASE FillByEmail(r)
    <2>1. CASE Answer(r, "fillByEmail", 302, 0)
        BY <1>1, <1>2, <2>1, Answers, LoginAway DEF Making
    <2>2. ASSUME NEW i \in ByEmail(job[r].email),
                 Proceed(r, "fillByEmail", "insertSession", [obj[r] EXCEPT !.uid = i])
          PROVE  LoginOK(r)'
        <3>1. /\ pc[r] = "fillByEmail" /\ pc'[r] = "insertSession"
              /\ obj'[r] = [obj[r] EXCEPT !.uid = i]
              /\ job' = job /\ given' = given
            BY <1>1, <2>2, Proceeds
        <3>4. obj'[r].uid = i
            BY <1>1, <3>1 DEF TypeOK, Objects
        <3>2. Proven(users, job[r], i)
            BY <1>1, <3>1 DEF LoginOK, Proven, ByEmail
        <3>3. Proven(users', job[r], i)
            BY <1>1, <1>2, <3>2, ProvenStays
        <3> QED BY <1>3, <3>1, <3>3, <3>4 DEF LoginOK, Making, Confirming
    <2> QED BY <1>13, <2>1, <2>2 DEF FillByEmail
<1> QED
    BY <1>4, <1>5, <1>6, <1>7, <1>8, <1>9, <1>10, <1>11, <1>12, <1>13
    DEF RequestStep, Authenticate, Elsewhere

\* The steps up to the look-up, and those of a login.
Logging(r) ==
    \/ Begin(r) \/ InsertUser(r)
    \/ AuthenticateOk(r) \/ AuthenticateFails(r) \/ AuthenticateThrows(r)
    \/ InsertFirst(r) \/ ConfirmFirst(r) \/ InsertSession(r) \/ ConfirmSession(r)
    \/ GoogleOk(r) \/ GoogleRefuses(r) \/ GoogleGarbled(r) \/ FillByEmail(r)

LEMMA LoggingMoves ==
    ASSUME TypeOK, NEW r \in Requests, Logging(r)
    PROVE  /\ pc'[r] \in {"authenticate", "insertUser", "google", "lookup", "fillByEmail", "done"}
                         \cup Making
           /\ job' = job
           /\ pc[r] \in {"new", "insertUser", "authenticate", "google", "fillByEmail"} \cup Making
           /\ sent' = sent \/ pc[r] = "new"
<1>1. CASE Begin(r)
    BY <1>1, BeginMoves DEF Begin, Goto
<1>2. CASE InsertUser(r) \/ AuthenticateFails(r) \/ AuthenticateThrows(r)
    BY <1>2, Answers, Proceeds DEF InsertUser, AuthenticateFails, AuthenticateThrows, Making
<1>3. CASE AuthenticateOk(r)
    <2>1. \E o : Proceed(r, "authenticate", "insertFirst", o)
        BY <1>3 DEF AuthenticateOk
    <2> QED BY <2>1, Proceeds DEF Making
<1>4. CASE InsertFirst(r) \/ InsertSession(r)
    BY <1>4, Proceeds DEF InsertFirst, InsertSession, Insert, Making
<1>5. CASE ConfirmFirst(r) \/ ConfirmSession(r)
    BY <1>5, Answers, Proceeds DEF ConfirmFirst, ConfirmSession, Making
<1>6. CASE GoogleOk(r) \/ GoogleRefuses(r) \/ GoogleGarbled(r)
    BY <1>6, Answers, Proceeds DEF GoogleOk, GoogleRefuses, GoogleGarbled
<1>7. CASE FillByEmail(r)
    <2>1. \/ \E o : Proceed(r, "fillByEmail", "insertSession", o)
          \/ Answer(r, "fillByEmail", 302, 0)
        BY <1>7 DEF FillByEmail
    <2> QED BY <2>1, Answers, Proceeds DEF Making
<1> QED BY <1>1, <1>2, <1>3, <1>4, <1>5, <1>6, <1>7 DEF Logging

LEMMA TokenStep ==
    ASSUME IInv, NEW r \in Requests, RequestStep(r)
    PROVE  TokenOK(r)'
<1>1. TypeOK /\ TokenOK(r)
    BY DEF IInv
<1>2. /\ users' \in Seq(UserRow) /\ sessions' \in Seq(SessionRow) /\ Grow
    BY <1>1, RequestTables
<1> DEFINE On == {"fillOwner"} \cup Serving
\* On the way the objects stay as they are.
<1>3. ASSUME pc[r] \in On, pc'[r] \in On, obj'[r] = obj[r], sent'[r] = sent[r],
             pc'[r] \in Serving => pc[r] \in Serving \/ obj[r].uid \in 1..Len(users)
      PROVE  TokenOK(r)'
    <2>1. /\ sent[r] \in 1..Len(sessions')
          /\ obj[r].uid = sessions'[sent[r]].user /\ obj[r].session.token = sent[r]
        BY <1>1, <1>2, <1>3, SessionsStay DEF TokenOK
    <2>2. pc'[r] \in Serving => obj[r].uid \in 1..Len(users')
        BY <1>1, <1>2, <1>3 DEF TokenOK, Grow, TypeOK
    <2> QED BY <1>3, <2>1, <2>2 DEF TokenOK
<1>4. CASE pc'[r] \notin On
    BY <1>4 DEF TokenOK
<1>5. CASE Lookup(r)
    <2>1. CASE Valid(sent[r]) /\ Proceed(r, "lookup", "fillOwner", Found(sent[r]))
        <3>1. /\ pc'[r] = "fillOwner" /\ obj'[r] = Found(sent[r]) /\ sent' = sent
              /\ sent[r] \in 1..Len(sessions)
            BY <1>1, <2>1, Proceeds DEF Valid
        <3>2. obj'[r].uid = sessions[sent[r]].user /\ obj'[r].session.token = sent[r]
            BY <3>1 DEF Found
        <3> QED BY <1>1, <1>2, <3>1, <3>2, SessionsStay DEF TokenOK, Serving
    <2>2. CASE Answer(r, "lookup", 401, 0)
        BY <1>1, <1>4, <2>2, Answers DEF Serving
    <2> QED BY <1>5, <2>1, <2>2 DEF Lookup
<1>6. CASE FillOwner(r)
    <2>1. CASE obj[r].uid \in 1..Len(users) /\ Proceed(r, "fillOwner", "refresh", obj[r])
        BY <1>1, <1>3, <2>1, Proceeds DEF Serving
    <2>2. CASE Answer(r, "fillOwner", 401, 0)
        BY <1>1, <1>4, <2>2, Answers DEF Serving
    <2> QED BY <1>6, <2>1, <2>2 DEF FillOwner
<1>7. CASE Refresh(r) \/ StatementThrows(r)
    BY <1>1, <1>3, <1>4, <1>7, Answers, Proceeds DEF Refresh, StatementThrows, Serving
<1>8. CASE InsertProject(r) \/ FillProject(r) \/ Decode(r) \/ InsertFile(r)
    BY <1>1, <1>3, <1>4, <1>8, Answers, Proceeds
    DEF InsertProject, FillProject, Decode, InsertFile, Serving
<1>9. CASE ConfirmProject(r) \/ UpdateProject(r) \/ List(r) \/ ConfirmFile(r)
           \/ ProjectThrows(r) \/ Handle(r)
    <2>1. \E from, code : Answer(r, from, code, 0)
        BY <1>9 DEF ConfirmProject, UpdateProject, List, ConfirmFile, ProjectThrows, Handle, Show
    <2> QED BY <1>1, <1>4, <2>1, Answers DEF Serving
<1>10. CASE Logging(r)
    BY <1>1, <1>4, <1>10, LoggingMoves DEF Serving, Making
<1> QED
    BY <1>5, <1>6, <1>7, <1>8, <1>9, <1>10
    DEF RequestStep, Authenticate, Logging, ProjectStep

-----------------------------------------------------------------------------
(* Projects and files. *)

\* Projects and files stay the ones that their requests inserted.
Keep ==
    /\ Len(projects) <= Len(projects')
    /\ \A g \in 1..Len(projects) : projects'[g].by = projects[g].by
    /\ Len(files) <= Len(files')
    /\ \A i \in 1..Len(files) : files'[i] = files[i]

LEMMA SameStores ==
    ASSUME TypeOK, projects' = projects, files' = files
    PROVE  Keep /\ projects' \in Seq(ProjectRow) /\ files' \in Seq(FileRow)
BY DEF TypeOK, Keep

LEMMA InsertProjectTables ==
    ASSUME TypeOK, NEW r \in Requests, InsertProject(r)
    PROVE  /\ projects' \in Seq(ProjectRow) /\ Keep /\ files' = files
           /\ pc'[r] # "done" =>
                  /\ Proceed(r, "handler", "confirmProject", obj[r])
                  /\ lastId'[r] \in 1..Len(projects') /\ projects'[lastId'[r]].by = r
<1>1. CASE Answer(r, "handler", 400, 0) /\ UNCHANGED <<projects, lastId>>
    BY <1>1, SameStores, Answers DEF InsertProject
<1>2. ASSUME NEW creator \in 1..Len(users), NEW data \in {r, Default},
             projects' = Append(projects,
                 [creator |-> creator, name |-> r, data |-> data, by |-> r]),
             lastId' = [lastId EXCEPT ![r] = Len(projects')],
             Proceed(r, "handler", "confirmProject", obj[r])
      PROVE  /\ projects' \in Seq(ProjectRow) /\ Keep /\ files' = files
             /\ lastId'[r] \in 1..Len(projects') /\ projects'[lastId'[r]].by = r
    <2> DEFINE row == [creator |-> creator, name |-> r, data |-> data, by |-> r]
    <2>1. row \in ProjectRow /\ row.by = r
        BY DEF ProjectRow, Text, TypeOK
    <2>2. projects \in Seq(ProjectRow) /\ files \in Seq(FileRow) /\ lastId \in [Requests -> Nat]
        BY DEF TypeOK
    <2>3. projects' = Append(projects, row) /\ files' = files
        BY <1>2 DEF InsertProject
    <2> HIDE DEF row
    <2>4. /\ projects' \in Seq(ProjectRow) /\ Len(projects') = Len(projects) + 1
          /\ \A g \in 1..Len(projects) : projects'[g] = projects[g]
          /\ projects'[Len(projects')] = row
        BY <2>1, <2>2, <2>3
    <2>5. Keep
        BY <2>2, <2>3, <2>4 DEF Keep
    <2>7. lastId'[r] = Len(projects')
        BY <1>2, <2>2
    <2> QED BY <2>1, <2>2, <2>3, <2>4, <2>5, <2>7
<1> QED BY <1>1, <1>2 DEF InsertProject

LEMMA UpdateProjectTables ==
    ASSUME TypeOK, NEW r \in Requests, UpdateProject(r)
    PROVE  /\ projects' \in Seq(ProjectRow) /\ Keep /\ files' = files
<1> DEFINE g == model[r].guid
           row == [[projects[g] EXCEPT !.name = model[r].name] EXCEPT !.data = model[r].data]
<1>1. /\ projects \in [1..Len(projects) -> ProjectRow] /\ Len(projects) \in Nat
      /\ projects \in Seq(ProjectRow)
      /\ model[r] \in Model
    BY DEF TypeOK
<1>2. g \in 1..Len(projects) => row \in ProjectRow
    BY <1>1 DEF ProjectRow, Model
<1>3. g \in 1..Len(projects) => row.by = projects[g].by
    BY <1>1 DEF ProjectRow, Model
<1>4. files' = files
    BY DEF UpdateProject
<1>5. g \in Nat
    BY <1>1 DEF Model
<1>6. projects' = [[projects EXCEPT ![g].name = model[r].name] EXCEPT ![g].data = model[r].data]
    BY DEF UpdateProject
<1>7. projects' \in [1..Len(projects) -> ProjectRow]
      /\ \A h \in 1..Len(projects) : projects'[h] = IF h = g THEN row ELSE projects[h]
    <2>1. CASE g \in 1..Len(projects)
        BY <1>1, <1>2, <1>6, <2>1
    <2>2. CASE g \notin 1..Len(projects)
        BY <1>1, <1>6, <2>2
    <2> QED BY <2>1, <2>2
<1> HIDE DEF row, g
<1>8. projects' \in Seq(ProjectRow) /\ Len(projects') = Len(projects)
    BY <1>1, <1>7
<1>9. Keep
    <2>1. \A h \in 1..Len(projects) : projects'[h].by = projects[h].by
        BY <1>3, <1>7
    <2> QED BY <1>1, <1>4, <1>8, <2>1 DEF Keep, TypeOK
<1> QED BY <1>4, <1>8, <1>9

LEMMA InsertFileTables ==
    ASSUME TypeOK, NEW r \in Requests, InsertFile(r)
    PROVE  /\ files' \in Seq(FileRow) /\ Keep /\ projects' = projects
           /\ Len(files') = Len(files) + 1
           /\ files'[Len(files')] = [user |-> obj[r].uid, by |-> r]
           /\ lastId'[r] = Len(files')
<1> DEFINE row == [user |-> obj[r].uid, by |-> r]
<1>1. row \in FileRow
    BY DEF FileRow, TypeOK, Objects
<1>2. files' = Append(files, row) /\ projects' = projects
      /\ lastId' = [lastId EXCEPT ![r] = Len(files')]
    BY DEF InsertFile
<1>3. projects \in Seq(ProjectRow) /\ files \in Seq(FileRow) /\ lastId \in [Requests -> Nat]
    BY DEF TypeOK
<1> HIDE DEF row
<1>4. files' \in Seq(FileRow) /\ Len(files') = Len(files) + 1
      /\ files'[Len(files')] = row /\ \A i \in 1..Len(files) : files'[i] = files[i]
    BY <1>1, <1>2, <1>3
<1> QED BY <1>2, <1>3, <1>4 DEF Keep, row

\* The steps that write neither table.
Elsewise(r) ==
    \/ Authenticate(r) /\ UNCHANGED projectVars
    \/ Doing(r, "user") /\ Handle(r) /\ UNCHANGED projectVars
    \/ ConfirmProject(r) \/ FillProject(r) \/ List(r) \/ Decode(r) \/ ConfirmFile(r)
    \/ ProjectThrows(r)

LEMMA StoreTables ==
    ASSUME IInv, NEW r \in Requests, RequestStep(r)
    PROVE  /\ projects' \in Seq(ProjectRow) /\ files' \in Seq(FileRow)
           /\ Keep
<1>1. TypeOK
    BY DEF IInv
<1>2. CASE Elsewise(r)
    <2>1. projects' = projects /\ files' = files
        BY <1>2 DEF Elsewise, ConfirmProject, FillProject, List, Decode, ConfirmFile,
                    ProjectThrows, projectVars
    <2> QED BY <1>1, <2>1, SameStores
<1>3. CASE InsertProject(r)
    BY <1>1, <1>3, InsertProjectTables DEF TypeOK
<1>4. CASE UpdateProject(r)
    BY <1>1, <1>4, UpdateProjectTables DEF TypeOK
<1>5. CASE InsertFile(r)
    <2>1. projects \in Seq(ProjectRow)
        BY <1>1 DEF TypeOK
    <2>2. projects' = projects /\ files' \in Seq(FileRow) /\ Keep
        BY <1>1, <1>5, InsertFileTables
    <2> QED BY <2>1, <2>2
<1> QED BY <1>2, <1>3, <1>4, <1>5 DEF RequestStep, ProjectStep, Elsewise

LEMMA ModelStep ==
    ASSUME TypeOK, NEW r \in Requests, RequestStep(r)
    PROVE  model' \in [Requests -> Model]
<1>1. NoModel \in Model
    BY DEF NoModel, Model, Text
<1>2. model \in [Requests -> Model]
    BY DEF TypeOK
<1>3. \/ model' = model
      \/ \E m \in Model : model' = [model EXCEPT ![r] = m]
    <2>1. CASE FillProject(r)
        <3>1. \A g \in 1..Len(projects) : [guid |-> g, name |-> r, data |-> r] \in Model
            BY DEF Model, Text
        <3>2. \/ model' = model
              \/ \E g \in 1..Len(projects) :
                     model' = [model EXCEPT ![r] = [guid |-> g, name |-> r, data |-> r]]
            BY <2>1 DEF FillProject
        <3> QED BY <3>1, <3>2
    <2>2. CASE ConfirmProject(r) \/ UpdateProject(r) \/ ConfirmFile(r) \/ ProjectThrows(r)
        <3>1. model' = [model EXCEPT ![r] = NoModel]
            BY <2>2 DEF ConfirmProject, UpdateProject, ConfirmFile, ProjectThrows, Show
        <3> QED BY <1>1, <3>1
    <2>3. CASE InsertProject(r) \/ List(r) \/ Decode(r) \/ InsertFile(r)
        BY <2>3 DEF InsertProject, List, Decode, InsertFile, projectVars
    <2> QED BY <2>1, <2>2, <2>3 DEF RequestStep, ProjectStep, projectVars
<1> QED BY <1>2, <1>3

LEMMA StoredStays ==
    ASSUME TypeOK, Keep, projects' \in Seq(ProjectRow), files' \in Seq(FileRow),
           NEW q \in Requests, StoredOK(q), job' = job,
           pc'[q] = pc[q], lastId'[q] = lastId[q], shown'[q] = shown[q]
    PROVE  StoredOK(q)'
<1>1. \A g \in 1..Len(projects) : g \in 1..Len(projects') /\ projects'[g].by = projects[g].by
    BY DEF Keep, TypeOK
<1>2. \A i \in 1..Len(files) : i \in 1..Len(files') /\ files'[i].by = files[i].by
    BY DEF Keep, TypeOK
<1> QED BY <1>1, <1>2 DEF StoredOK

LEMMA StoredStep ==
    ASSUME IInv, NEW r \in Requests, RequestStep(r)
    PROVE  StoredOK(r)'
<1>1. TypeOK /\ StoredOK(r)
    BY DEF IInv
<1>2. Keep /\ projects' \in Seq(ProjectRow) /\ files' \in Seq(FileRow)
    BY StoreTables
<1>3. \A g \in 1..Len(projects) : g \in 1..Len(projects') /\ projects'[g].by = projects[g].by
    BY <1>1, <1>2 DEF Keep, TypeOK
<1>4. \A i \in 1..Len(files) : i \in 1..Len(files') /\ files'[i].by = files[i].by
    BY <1>1, <1>2 DEF Keep, TypeOK
<1> DEFINE Storing == {"confirmProject", "updateProject", "insertFile", "confirmFile"}
\* What has been shown stays.
<1>5. shown[r] # 0 =>
          /\ job[r].kind = "create" =>
                 shown[r] \in 1..Len(projects') /\ projects'[shown[r]].by = r
          /\ job[r].kind = "upload" =>
                 shown[r] \in 1..Len(files') /\ files'[shown[r]].by = r
    BY <1>1, <1>3, <1>4 DEF StoredOK
<1>6. CASE pc'[r] \notin Storing /\ shown'[r] = shown[r] /\ job' = job
    BY <1>5, <1>6 DEF StoredOK
<1>7. CASE Authenticate(r) /\ UNCHANGED projectVars
    <2>1. CASE Logging(r)
        BY <1>1, <1>6, <1>7, <2>1, LoggingMoves DEF projectVars, Making
    <2>2. CASE Lookup(r) \/ FillOwner(r) \/ Refresh(r)
        BY <1>1, <1>6, <1>7, <2>2, Answers, Proceeds DEF Lookup, FillOwner, Refresh, projectVars
    <2>3. CASE StatementThrows(r)
        BY <1>1, <1>6, <1>7, <2>3, Answers, Proceeds DEF StatementThrows, projectVars
    <2> QED BY <1>7, <2>1, <2>2, <2>3 DEF Authenticate, Logging
<1>8. CASE Doing(r, "user") /\ Handle(r) /\ UNCHANGED projectVars
    BY <1>1, <1>6, <1>8, Answers DEF Handle, projectVars
<1>9. CASE InsertProject(r)
    <2>1. shown' = shown
        BY <1>9 DEF InsertProject
    <2>2. CASE pc'[r] = "done"
        BY <1>1, <1>6, <1>9, <2>1, <2>2, Answers, Proceeds DEF InsertProject
    <2>3. CASE pc'[r] # "done"
        <3>1. /\ Proceed(r, "handler", "confirmProject", obj[r]) /\ job[r].kind = "create"
              /\ lastId'[r] \in 1..Len(projects') /\ projects'[lastId'[r]].by = r
            BY <1>1, <1>9, <2>3, InsertProjectTables DEF InsertProject, Doing
        <3>2. pc'[r] = "confirmProject" /\ job' = job
            BY <1>1, <3>1, Proceeds
        <3> QED BY <1>5, <2>1, <3>1, <3>2 DEF StoredOK
    <2> QED BY <2>2, <2>3
<1>10. CASE ConfirmProject(r) \/ ConfirmFile(r)
    <2>1. pc'[r] = "done" /\ job' = job
        BY <1>1, <1>10, Answers DEF ConfirmProject, ConfirmFile, Show
    <2>2. shown'[r] = lastId[r]
        BY <1>1, <1>10 DEF ConfirmProject, ConfirmFile, Show, TypeOK
    <2> QED BY <1>1, <1>3, <1>4, <1>10, <2>1, <2>2 DEF StoredOK, ConfirmProject, ConfirmFile
<1>11. CASE FillProject(r)
    <2>1. shown' = shown /\ job[r].kind = "save"
        BY <1>11 DEF FillProject, Doing
    <2>2. pc'[r] \in {"done", "updateProject"} /\ job' = job
        BY <1>1, <1>11, Answers, Proceeds DEF FillProject
    <2> QED BY <1>5, <2>1, <2>2 DEF StoredOK
<1>12. CASE UpdateProject(r)
    <2>1. Answer(r, "updateProject", 200, 0) /\ pc[r] = "updateProject"
        BY <1>12 DEF UpdateProject, Show
    <2>2. pc'[r] = "done" /\ job' = job /\ job[r].kind = "save"
        BY <1>1, <2>1, Answers DEF StoredOK
    <2> QED BY <2>2 DEF StoredOK
<1>13. CASE List(r)
    BY <1>1, <1>6, <1>13, Answers DEF List, projectVars
<1>14. CASE Decode(r)
    <2>1. shown' = shown /\ job[r].kind = "upload"
        BY <1>14 DEF Decode, Doing, projectVars
    <2>2. pc'[r] \in {"done", "insertFile"} /\ job' = job
        BY <1>1, <1>14, Answers, Proceeds DEF Decode
    <2> QED BY <1>5, <2>1, <2>2 DEF StoredOK
<1>15. CASE InsertFile(r)
    <2>1. Proceed(r, "insertFile", "confirmFile", obj[r]) /\ shown' = shown
        BY <1>15 DEF InsertFile
    <2>2. pc'[r] = "confirmFile" /\ job' = job /\ job[r].kind = "upload"
        BY <1>1, <2>1, Proceeds DEF StoredOK
    <2>3. lastId'[r] \in 1..Len(files') /\ files'[lastId'[r]].by = r
        <3>1. /\ Len(files') = Len(files) + 1 /\ lastId'[r] = Len(files')
              /\ files'[Len(files')] = [user |-> obj[r].uid, by |-> r]
            BY <1>1, <1>15, InsertFileTables
        <3>2. Len(files) \in Nat
            BY <1>1 DEF TypeOK
        <3> QED BY <3>1, <3>2
    <2> QED BY <1>5, <2>1, <2>2, <2>3 DEF StoredOK
<1>16. CASE ProjectThrows(r)
    BY <1>1, <1>6, <1>16, Answers DEF ProjectThrows
<1> QED
    BY <1>7, <1>8, <1>9, <1>10, <1>11, <1>12, <1>13, <1>14, <1>15, <1>16
    DEF RequestStep, ProjectStep

-----------------------------------------------------------------------------
(* What the tables of sessions and files hold. *)

\* A step of a request makes a session or changes expiries to the longest.
LEMMA SessionRows ==
    ASSUME TypeOK, NEW r \in Requests, RequestStep(r)
    PROVE  \/ /\ pc[r] \in Making
              /\ Len(sessions') = Len(sessions) + 1
              /\ \A s \in 1..Len(sessions) : sessions'[s] = sessions[s]
              /\ sessions'[Len(sessions')].expires = now + SessionLength
              /\ sessions'[Len(sessions')].by = r
              /\ obj[r].uid # 0 => sessions'[Len(sessions')].user = obj[r].uid
           \/ /\ Len(sessions') = Len(sessions)
              /\ \A s \in 1..Len(sessions) :
                     sessions'[s].expires \in {sessions[s].expires, now + SessionLength}
<1>1. CASE InsertFirst(r) \/ InsertSession(r)
    <2>1. pc[r] \in Making
        BY <1>1 DEF InsertFirst, InsertSession, Making
    <2>2. \E from, to : Insert(r, from, to)
        BY <1>1 DEF InsertFirst, InsertSession
    <2> QED BY <2>1, <2>2, InsertTables
<1>2. CASE Refresh(r)
    <2>1. /\ Update(obj[r].session, now + SessionLength) /\ now + SessionLength \in Nat
          /\ obj[r].session \in [token : Nat, user : Nat, expires : Nat]
        BY <1>2, SessionsAssumption DEF Refresh, TypeOK, Objects
    <2> QED BY <2>1, UpdateTables
<1>3. CASE ~InsertFirst(r) /\ ~InsertSession(r) /\ ~Refresh(r)
    <2>1. sessions' = sessions
        BY <1>3
           DEF RequestStep, Authenticate, Begin, InsertUser, AuthenticateOk, AuthenticateFails,
               AuthenticateThrows, ConfirmFirst, ConfirmSession, GoogleOk, GoogleRefuses,
               GoogleGarbled, FillByEmail, Lookup, FillOwner, StatementThrows, Handle, tables,
               ProjectStep, InsertProject, ConfirmProject, FillProject, UpdateProject, List,
               Decode, InsertFile, ConfirmFile, ProjectThrows
    <2> QED BY <2>1
<1> QED BY <1>1, <1>2, <1>3

LEMMA AgedStep ==
    ASSUME TypeOK, Aged, NEW r \in Requests, RequestStep(r)
    PROVE  Aged'
<1>1. now' = now /\ sessions' \in Seq(SessionRow)
    BY RequestTables
<1>2. now + SessionLength \in Nat
    BY SessionsAssumption DEF TypeOK
<1>3. Len(sessions) \in Nat
    BY DEF TypeOK
<1> QED BY <1>1, <1>2, <1>3, SessionRows DEF Aged

LEMMA OwnedStep ==
    ASSUME IInv, NEW r \in Requests, RequestStep(r)
    PROVE  SessionsOwned'
<1>1. TypeOK /\ SessionsOwned /\ LoginOK(r)
    BY DEF IInv
<1>2. /\ users' \in Seq(UserRow) /\ sessions' \in Seq(SessionRow) /\ Grow
    BY <1>1, RequestTables
<1>3. job' = job
    BY <1>1, LoggingMoves, ElsewhereMoves DEF RequestStep, Authenticate, Logging, Elsewhere
<1> DEFINE Owned(s) == Proven(users', job[sessions'[s].by], sessions'[s].user)
<1>4. \A s \in 1..Len(sessions) : Owned(s)
    BY <1>1, <1>2, ProvenStays, SessionsStay DEF SessionsOwned
<1>5. /\ pc[r] \in Making /\ Len(sessions') = Len(sessions) + 1
      /\ sessions'[Len(sessions')].by = r
      /\ obj[r].uid # 0 => sessions'[Len(sessions')].user = obj[r].uid
      => Owned(Len(sessions'))
    <2> SUFFICES ASSUME pc[r] \in Making, sessions'[Len(sessions')].by = r,
                        obj[r].uid # 0 => sessions'[Len(sessions')].user = obj[r].uid
                 PROVE  Owned(Len(sessions'))
        OBVIOUS
    <2>1. Proven(users, job[r], obj[r].uid)
        BY <1>1 DEF LoginOK
    <2>2. Proven(users, job[r], sessions'[Len(sessions')].user)
        BY <2>1 DEF Proven
    <2> QED BY <1>1, <1>2, <2>2, ProvenStays
<1>6. Len(sessions) \in Nat
    BY <1>1 DEF TypeOK
<1> HIDE DEF Owned
<1>7. \A s \in 1..Len(sessions') : Owned(s)
    BY <1>1, <1>4, <1>5, <1>6, SessionRows
<1> QED BY <1>3, <1>7 DEF SessionsOwned, Owned

\* A request that has stored its file, or is done, only answers.
LEMMA LastMoves ==
    ASSUME TypeOK, NEW r \in Requests, RequestStep(r), pc[r] \in {"confirmFile", "done"}
    PROVE  pc'[r] = "done" /\ sent' = sent
<1>1. CASE Logging(r)
    BY <1>1, LoggingMoves DEF Making
<1>2. CASE Lookup(r) \/ FillOwner(r) \/ Refresh(r)
    BY <1>2, Answers, Proceeds DEF Lookup, FillOwner, Refresh
<1>3. CASE StatementThrows(r)
    BY <1>3, Answers, Proceeds DEF StatementThrows
<1>4. CASE Handle(r)
    BY <1>4, Answers DEF Handle
<1>5. CASE InsertProject(r) \/ FillProject(r) \/ List(r) \/ Decode(r)
    BY <1>5 DEF InsertProject, FillProject, List, Decode, Doing
<1>6. CASE ConfirmProject(r) \/ ConfirmFile(r) \/ ProjectThrows(r)
    BY <1>6, Answers DEF ConfirmProject, ConfirmFile, ProjectThrows, Show
<1>7. CASE UpdateProject(r) \/ InsertFile(r)
    BY <1>7, Proceeds DEF UpdateProject, InsertFile
<1> QED
    BY <1>1, <1>2, <1>3, <1>4, <1>5, <1>6, <1>7
    DEF RequestStep, Authenticate, Logging, ProjectStep

LEMMA FilesStep ==
    ASSUME IInv, NEW r \in Requests, RequestStep(r)
    PROVE  FilesKnown'
<1>1. TypeOK /\ FilesKnown /\ TokenOK(r)
    BY DEF IInv
<1>2. /\ sessions' \in Seq(SessionRow) /\ Grow
      /\ files' \in Seq(FileRow) /\ Keep
    BY <1>1, RequestTables, StoreTables
<1> DEFINE KnownFile(f) ==
              /\ pc'[f.by] \in {"confirmFile", "done"}
              /\ sent'[f.by] \in 1..Len(sessions')
              /\ f.user = sessions'[sent'[f.by]].user
<1>3. ASSUME NEW i \in 1..Len(files)
      PROVE  KnownFile(files[i])
    <2> DEFINE q == files[i].by
    <2>1. /\ pc[q] \in {"confirmFile", "done"} /\ sent[q] \in 1..Len(sessions)
          /\ files[i].user = sessions[sent[q]].user
        BY <1>1 DEF FilesKnown
    <2>2. q \in Requests
        <3>1. files[i] \in FileRow
            BY <1>1 DEF TypeOK
        <3> QED BY <3>1 DEF FileRow
    <2>3. pc'[q] \in {"confirmFile", "done"} /\ sent'[q] = sent[q]
        <3>1. CASE q = r
            BY <1>1, <2>1, <3>1, LastMoves
        <3>2. CASE q # r
            BY <1>1, <2>1, <2>2, <3>2, Others
        <3> QED BY <3>1, <3>2
    <2>4. sent[q] \in 1..Len(sessions') /\ sessions'[sent[q]].user = sessions[sent[q]].user
        BY <1>1, <1>2, <2>1, SessionsStay
    <2> QED BY <2>1, <2>3, <2>4
<1>4. CASE InsertFile(r)
    <2>1. /\ Len(files') = Len(files) + 1
          /\ files'[Len(files')] = [user |-> obj[r].uid, by |-> r]
        BY <1>1, <1>4, InsertFileTables
    <2>2. pc[r] = "insertFile" /\ pc'[r] = "confirmFile" /\ sent' = sent
        BY <1>1, <1>4, Proceeds DEF InsertFile
    <2>3. sent[r] \in 1..Len(sessions) /\ obj[r].uid = sessions[sent[r]].user
        BY <1>1, <2>2 DEF TokenOK, Serving
    <2>4. sent[r] \in 1..Len(sessions') /\ sessions'[sent[r]].user = sessions[sent[r]].user
        BY <1>1, <1>2, <2>3, SessionsStay
    <2>5. KnownFile(files'[Len(files')])
        BY <2>1, <2>2, <2>3, <2>4
    <2>6. \A i \in 1..Len(files) : KnownFile(files'[i])
        BY <1>2, <1>3 DEF Keep
    <2>7. Len(files) \in Nat
        BY <1>1 DEF TypeOK
    <2> HIDE DEF KnownFile
    <2>8. \A i \in 1..Len(files') : KnownFile(files'[i])
        BY <2>1, <2>5, <2>6, <2>7
    <2> QED BY <2>8 DEF FilesKnown, KnownFile
<1>5. CASE ~InsertFile(r)
    <2>1. files' = files
        BY <1>5
           DEF RequestStep, ProjectStep, InsertProject, ConfirmProject, FillProject,
               UpdateProject, List, Decode, ConfirmFile, ProjectThrows, projectVars
    <2> QED BY <1>3, <2>1 DEF FilesKnown
<1> QED BY <1>4, <1>5

-----------------------------------------------------------------------------
(* Types. *)

\* What Sessions' variables of the requests are.
RequestTypes ==
    /\ job \in Plans
    /\ sent \in [Requests -> Nat]
    /\ pc \in [Requests -> Places]
    /\ obj \in [Requests -> Objects]
    /\ status \in [Requests -> {0, 200, 302, 400, 401, 403, 500}]
    /\ given \in [Requests -> Nat]

LEMMA ProceedTypes ==
    ASSUME TypeOK, NEW r \in Requests, NEW from, NEW to \in Places, NEW o \in Objects,
           Proceed(r, from, to, o)
    PROVE  RequestTypes'
BY DEF TypeOK, Proceed, Goto, RequestTypes

LEMMA AnswerTypes ==
    ASSUME TypeOK, NEW r \in Requests, NEW from, NEW code \in {200, 302, 400, 401, 403, 500},
           NEW token \in Nat, Answer(r, from, code, token)
    PROVE  RequestTypes'
<1>1. NoObjects \in Objects
    BY DEF NoObjects, NoSession, Objects
<1>2. "done" \in Places
    BY DEF Places
<1> QED BY <1>1, <1>2 DEF TypeOK, Answer, Goto, RequestTypes

LEMMA AuthenticateTypes ==
    ASSUME IInv, NEW r \in Requests, Authenticate(r)
    PROVE  RequestTypes'
<1>1. TypeOK /\ LoginOK(r)
    BY DEF IInv
<1>2. obj[r] \in Objects
    BY <1>1 DEF TypeOK
<1>3. CASE Begin(r)
    <2>1. pc'[r] \in Places
        BY <1>1, <1>3, BeginMoves DEF Places
    <2>2. \A s \in {0} \cup Handed : s \in Nat
        BY <1>1 DEF Handed, TypeOK
    <2>3. PICK s \in {0} \cup Handed : sent' = [sent EXCEPT ![r] = s]
        BY <1>3 DEF Begin
    <2>4. UNCHANGED <<job, obj, status, given>>
        BY <1>3 DEF Begin
    <2>5. pc' \in [Requests -> Places]
        <3>1. \E to : pc' = [pc EXCEPT ![r] = to]
            BY <1>3 DEF Begin, Goto
        <3> QED BY <1>1, <2>1, <3>1 DEF TypeOK
    <2> QED BY <1>1, <2>2, <2>3, <2>4, <2>5 DEF TypeOK, RequestTypes
<1>4. CASE InsertUser(r) \/ AuthenticateFails(r) \/ AuthenticateThrows(r)
    <2>1. \/ Proceed(r, "insertUser", "authenticate", obj[r])
          \/ Proceed(r, "authenticate", "insertSession", obj[r])
          \/ \E code \in {403, 500} : Answer(r, "authenticate", code, 0)
        BY <1>4 DEF InsertUser, AuthenticateFails, AuthenticateThrows
    <2> QED BY <1>1, <1>2, <2>1, ProceedTypes, AnswerTypes DEF Places
<1>5. CASE AuthenticateOk(r) \/ FillByEmail(r)
    <2>0. \A i \in Nat : [obj[r] EXCEPT !.uid = i] \in Objects
        BY <1>2 DEF Objects
    <2>1. \A i \in ByEmail(job[r].email) : [obj[r] EXCEPT !.uid = i] \in Objects
        <3>1. \A i \in ByEmail(job[r].email) : i \in Nat
            BY <1>1 DEF ByEmail, TypeOK
        <3> QED BY <2>0, <3>1
    <2>2. \/ \E o \in Objects : Proceed(r, "authenticate", "insertFirst", o)
          \/ \E o \in Objects : Proceed(r, "fillByEmail", "insertSession", o)
          \/ Answer(r, "fillByEmail", 302, 0)
        BY <1>5, <2>1 DEF AuthenticateOk, FillByEmail
    <2> QED BY <1>1, <2>2, ProceedTypes, AnswerTypes DEF Places
<1>6. CASE InsertFirst(r) \/ InsertSession(r)
    <2>1. PICK from \in {"insertFirst", "insertSession"},
               to \in {"confirmFirst", "confirmSession"} : Insert(r, from, to)
        BY <1>6 DEF InsertFirst, InsertSession
    <2>2. Len(sessions') \in Nat
        BY <1>1, <2>1, InsertTables DEF TypeOK
    <2>3. [obj[r] EXCEPT !.token = Len(sessions')] \in Objects
        BY <1>2, <2>2 DEF Objects
    <2> QED BY <1>1, <2>1, <2>3, ProceedTypes DEF Insert, Places
<1>7. CASE ConfirmFirst(r) \/ ConfirmSession(r)
    <2>1. pc[r] \in Confirming
        BY <1>7 DEF ConfirmFirst, ConfirmSession, Confirming
    <2>2. obj[r].token \in 1..Len(sessions) /\ obj[r].token \in Nat /\ obj[r].uid \in Nat
        BY <1>1, <1>2, <2>1 DEF LoginOK, Objects
    <2>3. sessions[obj[r].token] \in SessionRow
        BY <1>1, <2>2, RowTypes
    <2>4. Confirmed(r) \in [token : Nat, user : Nat, expires : Nat] /\ Confirmed(r).token \in Nat
        BY <2>2, <2>3 DEF Confirmed, SessionRow
    <2>5. [obj[r] EXCEPT !.session = Confirmed(r)] \in Objects
        BY <1>2, <2>4 DEF Objects
    <2>6. CASE ConfirmFirst(r)
        <3>1. Proceed(r, "confirmFirst", "insertSession", [obj[r] EXCEPT !.session = Confirmed(r)])
            BY <2>6 DEF ConfirmFirst
        <3> QED BY <1>1, <2>5, <3>1, ProceedTypes DEF Places
    <2>7. CASE ConfirmSession(r)
        <3>1. \E code \in {200, 302} : Answer(r, "confirmSession", code, Confirmed(r).token)
            BY <2>7 DEF ConfirmSession
        <3> QED BY <1>1, <2>4, <3>1, AnswerTypes
    <2> QED BY <1>7, <2>6, <2>7
<1>8. CASE GoogleOk(r) \/ GoogleRefuses(r) \/ GoogleGarbled(r)
    BY <1>1, <1>2, <1>8, ProceedTypes, AnswerTypes
    DEF GoogleOk, GoogleRefuses, GoogleGarbled, Places
<1>9. CASE Lookup(r)
    <2>1. CASE Valid(sent[r]) /\ Proceed(r, "lookup", "fillOwner", Found(sent[r]))
        <3>1. sent[r] \in 1..Len(sessions) /\ sent[r] \in Nat
            BY <1>1, <2>1 DEF Valid, TypeOK
        <3>2. sessions[sent[r]] \in SessionRow
            BY <1>1, <3>1, RowTypes
        <3>3. Found(sent[r]) \in Objects
            BY <3>1, <3>2 DEF Found, Objects, SessionRow
        <3> QED BY <1>1, <2>1, <3>3, ProceedTypes DEF Places
    <2>2. CASE Answer(r, "lookup", 401, 0)
        BY <1>1, <2>2, AnswerTypes
    <2> QED BY <1>9, <2>1, <2>2 DEF Lookup
<1>10. CASE FillOwner(r) \/ Refresh(r)
    <2>1. \/ Proceed(r, "fillOwner", "refresh", obj[r])
          \/ Answer(r, "fillOwner", 401, 0)
          \/ Proceed(r, "refresh", "handler", obj[r])
        BY <1>10 DEF FillOwner, Refresh
    <2>2. {"refresh", "handler"} \subseteq Places
        BY DEF Places
    <2>3. CASE Answer(r, "fillOwner", 401, 0)
        BY <1>1, <2>3, AnswerTypes
    <2> QED BY <1>1, <1>2, <2>1, <2>2, <2>3, ProceedTypes
<1>11. CASE StatementThrows(r)
    BY <1>1, <1>2, <1>11, ProceedTypes, AnswerTypes DEF StatementThrows, Places
<1> QED
    BY <1>3, <1>4, <1>5, <1>6, <1>7, <1>8, <1>9, <1>10, <1>11 DEF Authenticate

LEMMA HandlerTypes ==
    ASSUME TypeOK, NEW r \in Requests, Handle(r) \/ ProjectStep(r)
    PROVE  RequestTypes'
<1>1. obj[r] \in Objects
    BY DEF TypeOK
<1>2. CASE Handle(r) \/ InsertProject(r) \/ ConfirmProject(r) \/ FillProject(r)
    <2>1. \/ Proceed(r, "handler", "confirmProject", obj[r])
          \/ Proceed(r, "handler", "updateProject", obj[r])
          \/ \E from : \E code \in {200, 400, 500} : Answer(r, from, code, 0)
        BY <1>2 DEF Handle, InsertProject, ConfirmProject, FillProject, Show
    <2> QED BY <1>1, <2>1, ProceedTypes, AnswerTypes DEF Places
<1>3. CASE UpdateProject(r)
    <2>1. Answer(r, "updateProject", 200, 0)
        BY <1>3 DEF UpdateProject, Show
    <2> QED BY <2>1, AnswerTypes
<1>4. CASE List(r) \/ Decode(r) \/ InsertFile(r) \/ ConfirmFile(r) \/ ProjectThrows(r)
    <2>1. \/ Proceed(r, "handler", "insertFile", obj[r])
          \/ Proceed(r, "insertFile", "confirmFile", obj[r])
          \/ \E from : \E code \in {200, 400, 500} : Answer(r, from, code, 0)
        BY <1>4 DEF List, Decode, InsertFile, ConfirmFile, ProjectThrows, Show
    <2> QED BY <1>1, <2>1, ProceedTypes, AnswerTypes DEF Places
<1> QED BY <1>2, <1>3, <1>4 DEF ProjectStep

LEMMA StoreTypes ==
    ASSUME IInv, NEW r \in Requests, RequestStep(r)
    PROVE  lastId' \in [Requests -> Nat] /\ shown' \in [Requests -> Nat]
<1>1. TypeOK
    BY DEF IInv
<1>2. Len(projects') \in Nat /\ Len(files') \in Nat
    BY StoreTables
<1>3. \/ lastId' = lastId
      \/ \E n \in Nat : lastId' = [lastId EXCEPT ![r] = n]
    BY <1>2
       DEF RequestStep, projectVars, ProjectStep, InsertProject, ConfirmProject, FillProject,
           UpdateProject, List, Decode, InsertFile, ConfirmFile, ProjectThrows
<1>4. \/ shown' = shown
      \/ \E n \in {lastId[r], model[r].guid} : shown' = [shown EXCEPT ![r] = n]
    BY DEF RequestStep, projectVars, ProjectStep, InsertProject, ConfirmProject, FillProject,
           UpdateProject, List, Decode, InsertFile, ConfirmFile, ProjectThrows, Show
<1>5. lastId[r] \in Nat /\ model[r].guid \in Nat
    BY <1>1 DEF TypeOK, Model
<1>6. lastId \in [Requests -> Nat] /\ shown \in [Requests -> Nat]
    BY <1>1 DEF TypeOK
<1> QED BY <1>3, <1>4, <1>5, <1>6

-----------------------------------------------------------------------------
(* The invariant is inductive. *)

LEMMA InitIInv == ApiInit => IInv
<1> SUFFICES ASSUME ApiInit
             PROVE  IInv
    OBVIOUS
<1>1. NoObjects \in Objects /\ NoModel \in Model
    BY DEF NoObjects, NoSession, Objects, NoModel, Model, Text
<1>2. TypeOK
    BY <1>1, SessionsAssumption DEF ApiInit, Init, TypeOK, Places
<1>3. \A q \in Requests : LoginOK(q) /\ TokenOK(q) /\ StoredOK(q)
    BY DEF ApiInit, Init, LoginOK, TokenOK, StoredOK, Making, Confirming, Serving
<1>4. Aged /\ SessionsOwned /\ FilesKnown
    BY DEF ApiInit, Init, Aged, SessionsOwned, FilesKnown
<1> QED BY <1>2, <1>3, <1>4 DEF IInv

LEMMA NextIInv == IInv /\ [ApiNext]_apiVars => IInv'
<1> SUFFICES ASSUME IInv, [ApiNext]_apiVars
             PROVE  IInv'
    OBVIOUS
<1>1. CASE Tick /\ UNCHANGED projectVars
    <2>1. now' \in 0..MaxTime /\ now' = now + 1 /\ now \in Nat
        BY <1>1, SessionsAssumption DEF IInv, TypeOK, Tick
    <2>2. TypeOK'
        BY <1>1, <2>1 DEF IInv, TypeOK, Tick, projectVars
    <2>3. Aged'
        <3>1. \A s \in 1..Len(sessions) : sessions[s] \in SessionRow
            BY RowTypes DEF IInv
        <3>2. \A s \in 1..Len(sessions) : sessions[s].expires \in Nat
            BY <3>1 DEF SessionRow
        <3> QED BY <1>1, <2>1, <3>2, SessionsAssumption DEF IInv, Aged, Tick
    <2> QED BY <1>1, <2>2, <2>3
            DEF IInv, Tick, projectVars, LoginOK, TokenOK, StoredOK, SessionsOwned, FilesKnown
<1>2. ASSUME NEW r \in Requests, RequestStep(r)
      PROVE  IInv'
    <2>1. TypeOK
        BY DEF IInv
    <2>2. /\ now' = now /\ users' \in Seq(UserRow) /\ sessions' \in Seq(SessionRow) /\ Grow
          /\ projects' \in Seq(ProjectRow) /\ files' \in Seq(FileRow) /\ Keep
        BY <1>2, <2>1, RequestTables, StoreTables
    <2>3. RequestTypes'
        BY <1>2, <2>1, AuthenticateTypes, HandlerTypes DEF RequestStep
    <2>4. model' \in [Requests -> Model]
        BY <1>2, <2>1, ModelStep
    <2>5. TypeOK'
        <3>1. lastId' \in [Requests -> Nat] /\ shown' \in [Requests -> Nat]
            BY <1>2, StoreTypes
        <3>2. now' \in 0..MaxTime
            BY <2>1, <2>2 DEF TypeOK
        <3> QED BY <2>2, <2>3, <2>4, <3>1, <3>2 DEF TypeOK, RequestTypes
    <2>6. ASSUME NEW q \in Requests
          PROVE  LoginOK(q)' /\ TokenOK(q)' /\ StoredOK(q)'
        <3>1. LoginOK(q) /\ TokenOK(q) /\ StoredOK(q)
            BY DEF IInv
        <3>2. CASE q = r
            BY <1>2, <3>2, LoginStep, TokenStep, StoredStep
        <3>3. CASE q # r
            <4>1. /\ job' = job
                  /\ sent'[q] = sent[q] /\ pc'[q] = pc[q] /\ obj'[q] = obj[q]
                  /\ given'[q] = given[q] /\ lastId'[q] = lastId[q] /\ shown'[q] = shown[q]
                BY <1>2, <2>1, <3>3, Others
            <4> QED BY <2>1, <2>2, <3>1, <4>1, LoginStays, TokenStays, StoredStays
        <3> QED BY <3>2, <3>3
    <2>7. Aged' /\ SessionsOwned' /\ FilesKnown'
        BY <1>2, <2>1, AgedStep, OwnedStep, FilesStep DEF IInv
    <2> QED BY <2>5, <2>6, <2>7 DEF IInv
<1>3. CASE UNCHANGED apiVars
    BY <1>3 DEF apiVars, vars, projectVars, IInv, TypeOK, LoginOK, TokenOK, StoredOK, Aged,
                SessionsOwned, FilesKnown
<1> QED BY <1>1, <1>2, <1>3, Steps

LEMMA Invariance == ApiSpec => []IInv
BY InitIInv, NextIInv, PTL DEF ApiSpec

-----------------------------------------------------------------------------
(* The properties. *)

\* What is proven of a row is what the properties say.
LEMMA ProvenIs ==
    ASSUME NEW q \in Requests, NEW u, Proven(users, job[q], u)
    PROVE  Named(q, u) \/ MayHaveFailed(q)
BY DEF Proven, Named, MayHaveFailed, ByEmail

LEMMA ServedFacts == IInv => ServedAsOwner /\ FilesOfOwner
<1> SUFFICES ASSUME IInv
             PROVE  ServedAsOwner /\ FilesOfOwner
    OBVIOUS
<1>1. TypeOK /\ FilesKnown
    BY DEF IInv
\* The token of an answer is of a session of a user whom its request has named.
<1>2. ASSUME NEW q \in Requests, given[q] # 0
      PROVE  Named(q, sessions[given[q]].user) \/ MayHaveFailed(q)
    BY <1>2, ProvenIs DEF IInv, LoginOK
<1>3. ServedAsOwner
    <2> SUFFICES ASSUME NEW r \in Requests, NEW q \in Requests,
                        pc[r] = "handler", sent[r] = given[q]
                 PROVE  Named(q, obj[r].uid) \/ MayHaveFailed(q)
        BY DEF ServedAsOwner
    <2>1. sent[r] \in 1..Len(sessions) /\ obj[r].uid = sessions[sent[r]].user
        BY DEF IInv, TokenOK, Serving
    <2>2. given[q] # 0
        BY <1>1, <2>1 DEF TypeOK
    <2> QED BY <1>2, <2>1, <2>2
<1>4. FilesOfOwner
    <2> SUFFICES ASSUME NEW i \in 1..Len(files), NEW q \in Requests,
                        sent[files[i].by] = given[q]
                 PROVE  Named(q, files[i].user) \/ MayHaveFailed(q)
        BY DEF FilesOfOwner
    <2>1. /\ sent[files[i].by] \in 1..Len(sessions)
          /\ files[i].user = sessions[sent[files[i].by]].user
        BY <1>1 DEF FilesKnown
    <2>2. given[q] # 0
        BY <1>1, <2>1 DEF TypeOK
    <2> QED BY <1>2, <2>1, <2>2
<1> QED BY <1>3, <1>4

LEMMA OwnedFacts == IInv => SessionsOfUsers
<1> SUFFICES ASSUME IInv, NEW s \in 1..Len(sessions)
             PROVE  LET q == sessions[s].by
                    IN  Named(q, sessions[s].user) \/ MayHaveFailed(q)
    BY DEF SessionsOfUsers
<1>1. sessions[s].by \in Requests
    <2>1. sessions[s] \in SessionRow
        BY RowTypes DEF IInv
    <2> QED BY <2>1 DEF SessionRow
<1> QED BY <1>1, ProvenIs DEF IInv, SessionsOwned

LEMMA StoredFacts == IInv => StoredIsOwn
BY DEF IInv, StoredOK, StoredIsOwn

\* A step keeps what RefreshNeverShortens and ExpiredForGood say.
LEMMA ExpiryStep ==
    ASSUME IInv, [ApiNext]_apiVars
    PROVE  \A s \in 1..Len(sessions) : sessions'[s].expires >= sessions[s].expires
<1> SUFFICES ASSUME NEW s \in 1..Len(sessions)
             PROVE  sessions'[s].expires >= sessions[s].expires
    OBVIOUS
<1>1. sessions[s].expires \in Nat /\ sessions[s].expires <= now + SessionLength
      /\ now + SessionLength \in Nat
    <2>1. sessions[s] \in SessionRow
        BY RowTypes DEF IInv
    <2>2. sessions[s].expires \in Nat
        BY <2>1 DEF SessionRow
    <2>3. sessions[s].expires <= now + SessionLength
        BY DEF IInv, Aged
    <2>4. now + SessionLength \in Nat
        BY SessionsAssumption DEF IInv, TypeOK
    <2> QED BY <2>2, <2>3, <2>4
<1>2. ASSUME NEW r \in Requests, RequestStep(r)
      PROVE  sessions'[s].expires \in {sessions[s].expires, now + SessionLength}
    BY <1>2, SessionRows DEF IInv
<1>3. CASE (Tick /\ UNCHANGED projectVars) \/ UNCHANGED apiVars
    BY <1>1, <1>3 DEF Tick, apiVars, vars
<1> QED BY <1>1, <1>2, <1>3, Steps

LEMMA ExpiredStep ==
    ASSUME IInv, [ApiNext]_apiVars
    PROVE  \A s \in 1..Len(sessions) : Expired(s) => Expired(s)'
<1> SUFFICES ASSUME NEW s \in 1..Len(sessions), Expired(s)
             PROVE  Expired(s)'
    OBVIOUS
<1>1. TypeOK
    BY DEF IInv
<1>2. /\ sessions[s].expires <= now /\ sessions[s].expires \in Nat /\ now \in Nat
      /\ \A q \in Requests : pc[q] \in {"fillOwner", "refresh"} => obj[q].session.token # s
    <2>1. sessions[s] \in SessionRow
        BY <1>1, RowTypes
    <2> QED BY <1>1, <2>1, SMTT(60) DEF Expired, Valid, SessionRow, TypeOK
<1>3. CASE Tick /\ UNCHANGED projectVars
    BY <1>2, <1>3 DEF Tick, Expired, Valid
<1>4. CASE UNCHANGED apiVars
    BY <1>4 DEF apiVars, vars, Expired, Valid
<1>5. ASSUME NEW r \in Requests, RequestStep(r)
      PROVE  Expired(s)'
    <2>1. now' = now /\ sessions' \in Seq(SessionRow) /\ Grow
        BY <1>1, <1>5, RequestTables
    <2>2. s \in 1..Len(sessions')
        BY <1>1, <2>1, SessionsStay
    <2>3. sessions'[s] = sessions[s]
        <3>1. CASE Refresh(r)
            <4>1. /\ Update(obj[r].session, now + SessionLength) /\ now + SessionLength \in Nat
                  /\ obj[r].session \in [token : Nat, user : Nat, expires : Nat]
                  /\ pc[r] = "refresh"
                BY <1>1, <3>1, SessionsAssumption DEF Refresh, Proceed, Goto, TypeOK, Objects
            <4> QED BY <1>1, <1>2, <4>1, UpdateTables
        <3>2. CASE InsertFirst(r) \/ InsertSession(r)
            BY <1>1, <3>2, InsertTables DEF InsertFirst, InsertSession
        <3>3. CASE ~InsertFirst(r) /\ ~InsertSession(r) /\ ~Refresh(r)
            BY <1>5, <3>3
               DEF RequestStep, Authenticate, Begin, InsertUser, AuthenticateOk,
                   AuthenticateFails, AuthenticateThrows, ConfirmFirst, ConfirmSession, GoogleOk,
                   GoogleRefuses, GoogleGarbled, FillByEmail, Lookup, FillOwner, StatementThrows,
                   Handle, tables, ProjectStep, InsertProject, ConfirmProject, FillProject,
                   UpdateProject, List, Decode, InsertFile, ConfirmFile, ProjectThrows
        <3> QED BY <3>1, <3>2, <3>3
    <2>4. ASSUME NEW q \in Requests, pc'[q] \in {"fillOwner", "refresh"}
          PROVE  obj'[q].session.token # s
        <3>1. CASE q # r
            BY <1>1, <1>2, <1>5, <2>4, <3>1, Others
        <3>2. CASE q = r
            <4>1. CASE Lookup(r)
                <5>1. Valid(sent[r]) /\ obj'[r] = Found(sent[r])
                    BY <1>1, <2>4, <3>2, <4>1, Answers, Proceeds DEF Lookup
                <5> QED BY <1>2, <3>2, <5>1 DEF Valid, Found
            <4>2. CASE FillOwner(r)
                <5>1. pc[r] = "fillOwner" /\ obj'[r] = obj[r]
                    BY <1>1, <2>4, <3>2, <4>2, Answers, Proceeds DEF FillOwner
                <5> QED BY <1>2, <3>2, <5>1
            <4>3. CASE Logging(r)
                BY <1>1, <2>4, <3>2, <4>3, LoggingMoves DEF Making
            <4>4. CASE Refresh(r)
                BY <1>1, <2>4, <3>2, <4>4, Proceeds DEF Refresh
            <4>5. CASE StatementThrows(r)
                BY <1>1, <2>4, <3>2, <4>5, Answers, Proceeds DEF StatementThrows
            <4>6. CASE Handle(r) \/ ProjectStep(r)
                <5>1. pc'[r] \in {"done", "confirmProject", "updateProject", "insertFile",
                                  "confirmFile"}
                    BY <1>1, <4>6, HandlerMoves
                <5> QED BY <2>4, <3>2, <5>1
            <4> QED BY <1>5, <4>1, <4>2, <4>3, <4>4, <4>5, <4>6
                    DEF RequestStep, Authenticate, Logging
        <3> QED BY <3>1, <3>2
    <2> QED BY <1>2, <2>1, <2>2, <2>3, <2>4 DEF Expired, Valid
<1> QED BY <1>3, <1>4, <1>5, Steps

\* The tables hold rows of their types, and every request is at a statement of
\* its handler, whatever requests there are.
THEOREM TypeCorrect == ApiSpec => []TypeOK
BY Invariance, PTL DEF IInv

\* A request with a token is served as a user whom the request named that got
\* the token, with a password that strcmp does not tell from hers, unless that
\* was a registration whose own authentication failed; however logins,
\* registrations and expiries run into each other.
THEOREM ServesOwner == ApiSpec => []ServedAsOwner
<1>1. IInv => ServedAsOwner
    BY ServedFacts
<1> QED BY <1>1, Invariance, PTL

\* Every session in the table, with one row per email or several, is of a user
\* whom its request named; auth_handler::put alone, after an authentication
\* that failed, makes one of anybody or nobody.
THEOREM SessionsHaveUsers == ApiSpec => []SessionsOfUsers
BY OwnedFacts, Invariance, PTL

\* file_handler::post stores the file for a user whom the request named that got
\* the token, with the one exception of ServesOwner.
THEOREM FilesHaveOwner == ApiSpec => []FilesOfOwner
<1>1. IInv => FilesOfOwner
    BY ServedFacts
<1> QED BY <1>1, Invariance, PTL

\* LAST_INSERT_ID() names the row of the request that asks for it.
THEOREM StoresOwn == ApiSpec => []StoredIsOwn
<1>1. IInv => StoredIsOwn
    BY StoredFacts
<1> QED BY <1>1, Invariance, PTL

\* session::refresh shortens no session.
THEOREM NeverShorter == ApiSpec => RefreshNeverShortens
<1>1. IInv /\ [ApiNext]_apiVars =>
          [\A s \in 1..Len(sessions) : sessions'[s].expires >= sessions[s].expires]_vars
    BY ExpiryStep
<1> QED BY <1>1, Invariance, PTL DEF ApiSpec, RefreshNeverShortens

\* The look-up refuses an expired session for ever, and no refresh revives it.
THEOREM ExpiresForGood == ApiSpec => ExpiredForGood
<1>1. IInv /\ [ApiNext]_apiVars =>
          [\A s \in 1..Len(sessions) : Expired(s) => Expired(s)']_vars
    BY ExpiredStep
<1> QED BY <1>1, Invariance, PTL DEF ApiSpec, ExpiredForGood
=============================================================================
