------------------------------ MODULE MCDatabase ------------------------------
(* Behaviours of the connections of several threads, and behaviours of one     *)
(* query on an open connection.  A connection is used by one thread only, so    *)
(* the two do not meet: each behaviour is of one of them, the other has ended.  *)
EXTENDS DatabaseConnection, QueryCursor

CONSTANTS a, b

MCParamLists == {<<>>, <<a>>, <<a, b>>, <<b, a, b>>}
MCAnswers == {<<>>, <<1>>, <<1, 2>>, <<1, 2, 3>>}

\* Every request was answered, and no handler exists.
NoRequestsInit ==
    /\ up = TRUE /\ todo = {} /\ m = NoThread /\ sessions = {} /\ answered = Requests
    /\ req = [t \in Threads |-> NoRequest]
    /\ pc = [t \in Threads |-> "idle"]
    /\ isOpen = [t \in Threads |-> FALSE]

\* A query that wrote and was destroyed.
NoQuery ==
    /\ use = "write" /\ params = <<>> /\ answer = <<>> /\ call = "closed" /\ given = 0
    /\ param_index = 1 /\ bound = <<>> /\ did_execute = TRUE /\ executed = <<<<>>>>
    /\ failed = FALSE /\ cursor = 0 /\ it = NoIterator /\ last = NoIterator
    /\ seen = <<>> /\ threw = FALSE

DbInit == (Init /\ NoQuery) \/ (NoRequestsInit /\ CursorInit)
DbNext ==
    \/ Next /\ UNCHANGED cursorVars
    \/ CursorNext /\ UNCHANGED vars
DbSpec == DbInit /\ [][DbNext]_<<vars, cursorVars>> /\ Fairness
=============================================================================
