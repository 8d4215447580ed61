------------------------------ MODULE Projects ------------------------------
(***************************************************************************)
(* Projects and files, on top of Sessions: project_handler, file_handler,  *)
(* project_list_handler and file_list_handler with project_model and       *)
(* file_model.  A request that process() has authenticated does its task;  *)
(* requests meet in the tables projects and files.                         *)
(*                                                                         *)
(* A project's or file's id and guid are its position in the table.  What  *)
(* a client sends as name and data is named by the request that sends it,  *)
(* and Default is the "{}" of a project that is created without data.      *)
(* is_deleted is left out: nothing in the repository sets it.              *)
(***************************************************************************)
EXTENDS Sessions

CONSTANT
    Default  \* the data of a project that is created without data

ASSUME ProjectsAssumption == Default \notin Requests

VARIABLES
    projects,  \* the table projects; by is the request that inserted (history)
    files,     \* the table files; by likewise
    lastId,    \* LAST_INSERT_ID() of the connection of a request's handler
    model,     \* its project_model or file_model, as far as it is set
    shown      \* the guid in the body of a 200 answer, 0 if it shows none

projectVars == <<projects, files, lastId, model, shown>>
apiVars     == <<vars, projectVars>>

NoModel == [guid |-> 0, name |-> Default, data |-> Default]

ApiInit ==
    /\ Init
    /\ projects = <<>>
    /\ files = <<>>
    /\ lastId = [r \in Requests |-> 0]
    /\ model = [r \in Requests |-> NoModel]
    /\ shown = [r \in Requests |-> 0]

\* The handler of an authenticated request is at its first statement.
Doing(r, t) == pc[r] = "handler" /\ job[r].kind = t

\* The handler answers with the object o as response_data.
Show(r, from, o) ==
    /\ Answer(r, from, 200, 0)
    /\ shown' = [shown EXCEPT ![r] = o.guid]
    /\ model' = [model EXCEPT ![r] = NoModel]

-----------------------------------------------------------------------------
(* project_handler and project_model. *)

\* put and create: the checks of the request; INSERT INTO projects, for the
\* creator whose id the client sends.
InsertProject(r) ==
    /\ Doing(r, "create")
    /\ \/ /\ Proceed(r, "handler", "confirmProject", obj[r])
          /\ \E creator \in 1..Len(users), data \in {r, Default} :
                projects' = Append(projects,
                    [creator |-> creator, name |-> r, data |-> data, by |-> r])
          /\ lastId' = [lastId EXCEPT ![r] = Len(projects')]
       \/ Answer(r, "handler", 400, 0) /\ UNCHANGED <<projects, lastId>>
    /\ UNCHANGED <<tables, files, model, shown>>

\* Mutant: the confirmation selects the newest project.
ConfirmProjectNewest(r) ==
    /\ pc[r] = "confirmProject"
    /\ Show(r, "confirmProject", [guid |-> Len(projects)])
    /\ UNCHANGED <<tables, projects, files, lastId>>

\* create: SELECT guid ... WHERE id=LAST_INSERT_ID().
ConfirmProject(r) ==
    /\ pc[r] = "confirmProject"
    /\ Show(r, "confirmProject", [guid |-> lastId[r]])
    /\ UNCHANGED <<tables, projects, files, lastId>>

\* post: the checks of the request; fill_by_guid, which throws if no project has
\* the guid; its name and its data, which throws if the request sends none.
FillProject(r) ==
    /\ Doing(r, "save")
    /\ \/ /\ \E g \in 1..Len(projects) :
                model' = [model EXCEPT ![r] = [guid |-> g, name |-> r, data |-> r]]
          /\ Proceed(r, "handler", "updateProject", obj[r])
       \/ (\E code \in {400, 500} : Answer(r, "handler", code, 0)) /\ UNCHANGED model
    /\ UNCHANGED <<tables, projects, files, lastId, shown>>

\* update: UPDATE projects SET name=?, project_data=? WHERE guid=?.
UpdateProject(r) ==
    /\ pc[r] = "updateProject"
    /\ projects' = [projects EXCEPT ![model[r].guid].name = model[r].name,
                                    ![model[r].guid].data = model[r].data]
    /\ Show(r, "updateProject", model[r])
    /\ UNCHANGED <<tables, files, lastId>>

\* get_projects_for_user, get_files_for_user and the other SELECTs: the answer
\* is a list or an object, or an error, and nothing is written.
List(r) ==
    /\ Doing(r, "list")
    /\ \E code \in {200, 400, 500} : Answer(r, "handler", code, 0)
    /\ UNCHANGED <<tables, projectVars>>

-----------------------------------------------------------------------------
(* file_handler::post and file_model. *)

\* The checks of the request and AP::process, which may throw.
Decode(r) ==
    /\ Doing(r, "upload")
    /\ \/ Proceed(r, "handler", "insertFile", obj[r])
       \/ \E code \in {400, 500} : Answer(r, "handler", code, 0)
    /\ UNCHANGED <<tables, projectVars>>

\* Mutant: the file is stored for the first user, not for the request's.
InsertFileForFirst(r) ==
    /\ Proceed(r, "insertFile", "confirmFile", obj[r])
    /\ files' = Append(files, [user |-> 1, by |-> r])
    /\ lastId' = [lastId EXCEPT ![r] = Len(files')]
    /\ UNCHANGED <<tables, projects, model, shown>>

\* create: INSERT INTO files, for user.id.
InsertFile(r) ==
    /\ Proceed(r, "insertFile", "confirmFile", obj[r])
    /\ files' = Append(files, [user |-> obj[r].uid, by |-> r])
    /\ lastId' = [lastId EXCEPT ![r] = Len(files')]
    /\ UNCHANGED <<tables, projects, model, shown>>

\* create: SELECT id, guid ... WHERE id=LAST_INSERT_ID().
ConfirmFile(r) ==
    /\ pc[r] = "confirmFile"
    /\ Show(r, "confirmFile", [guid |-> lastId[r]])
    /\ UNCHANGED <<tables, projects, files, lastId>>

\* A statement of a project throws: 500.  What create throws for a file is
\* only logged, and post answers with a guid that is not set and an id that
\* was never initialised (shown says nothing of it).
ProjectThrows(r) ==
    /\ \/ pc[r] \in {"confirmProject", "updateProject"} /\ Answer(r, pc[r], 500, 0)
       \/ pc[r] \in {"insertFile", "confirmFile"} /\ Answer(r, pc[r], 200, 0)
    /\ model' = [model EXCEPT ![r] = NoModel]
    /\ UNCHANGED <<tables, projects, files, lastId, shown>>

-----------------------------------------------------------------------------

ProjectStep(r) ==
    \/ InsertProject(r) \/ ConfirmProject(r)
    \/ FillProject(r) \/ UpdateProject(r)
    \/ List(r)
    \/ Decode(r) \/ InsertFile(r) \/ ConfirmFile(r)
    \/ ProjectThrows(r)

ApiNext ==
    \/ Tick /\ UNCHANGED projectVars
    \/ \E r \in Requests :
          \/ Authenticate(r) /\ UNCHANGED projectVars
          \/ Doing(r, "user") /\ Handle(r) /\ UNCHANGED projectVars
          \/ ProjectStep(r)

ApiSpec == ApiInit /\ [][ApiNext]_apiVars

-----------------------------------------------------------------------------

Places == {"new", "insertUser", "authenticate", "insertFirst", "confirmFirst", "insertSession",
           "confirmSession", "google", "fillByEmail", "lookup", "fillOwner", "refresh", "handler",
           "confirmProject", "updateProject", "insertFile", "confirmFile", "done"}
Objects == [uid : Nat, token : Nat, session : [token : Nat, user : Nat, expires : Nat]]
Text == Requests \cup {Default}
ProjectRow == [creator : Nat, name : Text, data : Text, by : Requests]
FileRow    == [user : Nat, by : Requests]
Model      == [guid : Nat, name : Text, data : Text]

\* The tables hold rows of their types, and requests objects of theirs.
TypeOK ==
    /\ now \in 0..MaxTime
    /\ users \in Seq(UserRow)
    /\ sessions \in Seq(SessionRow)
    /\ projects \in Seq(ProjectRow)
    /\ files \in Seq(FileRow)
    /\ job \in Plans
    /\ sent \in [Requests -> Nat]
    /\ pc \in [Requests -> Places]
    /\ obj \in [Requests -> Objects]
    /\ status \in [Requests -> {0, 200, 302, 400, 401, 403, 500}]
    /\ {given, lastId, shown} \subseteq [Requests -> Nat]
    /\ model \in [Requests -> Model]

\* From the password to the file: every file belongs to a user whom the login,
\* registration or OAuth return has named whose token came with the upload, with
\* the one exception of ServedAsOwner.
FilesOfOwner ==
    \A i \in 1..Len(files), q \in Requests :
        sent[files[i].by] = given[q] => Named(q, files[i].user) \/ MayHaveFailed(q)

\* An answer to a creation or an upload that names a project or a file names the
\* one that this request inserted, however the insertions of others came in
\* between, and although what create throws for a file is swallowed on the way.
StoredIsOwn ==
    \A r \in Requests : pc[r] = "done" /\ shown[r] # 0 =>
        /\ job[r].kind = "create" => shown[r] \in 1..Len(projects) /\ projects[shown[r]].by = r
        /\ job[r].kind = "upload" => shown[r] \in 1..Len(files) /\ files[shown[r]].by = r
=============================================================================
