----------------------------- MODULE QueryCursor -----------------------------
(***************************************************************************)
(* db::Query: parameters are bound one after the other, the statement is   *)
(* executed by whatever first needs its results, and row(), the iterators  *)
(* of a range-for and the fields of a row all work on one cursor of the    *)
(* driver.  A response_row is no copy: its fields are read at the cursor.  *)
(* An iterator counts rows by itself; operator++ leaves the cursor where   *)
(* it is and operator* moves it.                                           *)
(*                                                                         *)
(* A Query lives in one function of a model class, which uses it in one of *)
(* five ways: to "write"; to get a row, "counted" first or "unchecked"; to *)
(* "list" rows after counting them; or, as database.h shows, in a "range"- *)
(* for.                                                                    *)
(***************************************************************************)
EXTENDS Integers, Sequences

CONSTANTS
    ParamLists,  \* the parameters a query may be given
    Answers,     \* the rows the server may answer with
    Unset        \* a parameter that is not bound

ASSUME QueryAssumption ==
    /\ \A ps \in ParamLists : ps \in Seq({ps[j] : j \in DOMAIN ps} \ {Unset})
    /\ \A rs \in Answers :
        /\ rs \in Seq({rs[j] : j \in DOMAIN rs})
        /\ \A j, k \in DOMAIN rs : rs[j] = rs[k] => j = k

VARIABLES
    use,         \* how the caller uses the query
    params,      \* the parameters it is given
    answer,      \* the rows of the result set
    call,        \* the next call
    given,       \* how many of the parameters were handed to set_param
    param_index,
    bound,       \* the parameters of the prepared statement
    did_execute,
    executed,    \* what the server executed, with which parameters (history)
    failed,      \* has the server refused to execute the statement (history)
    cursor,      \* the driver's position, 0 before the first row
    it, last,    \* __begin and __end of the range-for
    seen,        \* the rows whose fields the caller has read (history)
    threw        \* has an exception left the caller's function (history)

binding == <<given, param_index, bound>>
execution == <<did_execute, executed, failed>>
caller == <<use, params, answer>>
iterators == <<it, last>>
cursorVars == <<caller, call, binding, execution, cursor, iterators, seen, threw>>

NoIterator == [row_idx |-> 0, at_end |-> FALSE]

\* Connection::query has prepared the statement.
CursorInit ==
    /\ use \in {"write", "counted", "unchecked", "list", "range"}
    /\ params \in ParamLists
    /\ answer \in Answers
    /\ call = "set_param"
    /\ given = 0
    /\ param_index = 1
    /\ bound = [j \in DOMAIN params |-> Unset]
    /\ did_execute = FALSE
    /\ executed = <<>>
    /\ failed = FALSE
    /\ cursor = 0
    /\ it = NoIterator
    /\ last = NoIterator
    /\ seen = <<>>
    /\ threw = FALSE

\* Mutant: an overload of set_param forgets to count.
SetParamStays ==
    /\ call = "set_param"
    /\ given < Len(params)
    /\ given' = given + 1
    /\ bound' = [bound EXCEPT ![param_index] = params[given + 1]]
    /\ UNCHANGED <<caller, call, param_index, execution, cursor, iterators, seen, threw>>

\* set_params hands the next parameter to set_param.
SetParam ==
    /\ call = "set_param"
    /\ given < Len(params)
    /\ given' = given + 1
    /\ bound' = [bound EXCEPT ![param_index] = params[given + 1]]
    /\ param_index' = param_index + 1
    /\ UNCHANGED <<caller, call, execution, cursor, iterators, seen, threw>>

\* Connection::query returns; the caller goes on as it uses the query.
Prepared ==
    /\ call = "set_param"
    /\ given = Len(params)
    /\ call' = CASE use = "write" -> "execute"
                 [] use \in {"counted", "list"} -> "row_count"
                 [] use = "unchecked" -> "row"
                 [] use = "range" -> "begin"
    /\ UNCHANGED <<caller, binding, execution, cursor, iterators, seen, threw>>

-----------------------------------------------------------------------------

\* Mutant: execute() forgets that it was called.
ExecuteAgain ==
    /\ did_execute' = TRUE
    /\ executed' = Append(executed, bound)
    /\ UNCHANGED failed

\* Query::execute when the server accepts the statement.
ExecuteOnce ==
    IF did_execute
    THEN UNCHANGED execution
    ELSE /\ did_execute' = TRUE
         /\ executed' = Append(executed, bound)
         /\ UNCHANGED failed

\* Calls that execute the statement if that was not done.
Executing == {"execute", "row_count", "row", "begin"}

\* executeQuery throws out of whichever call executes the statement.
ExecuteThrows ==
    /\ call \in Executing
    /\ ~did_execute
    /\ failed' = TRUE
    /\ threw' = TRUE
    /\ call' = "unwind"
    /\ UNCHANGED <<caller, binding, did_execute, executed, cursor, iterators, seen>>

\* The caller executes a statement that has no rows.
Write ==
    /\ call = "execute"
    /\ ExecuteOnce
    /\ call' = "unwind"
    /\ UNCHANGED <<caller, binding, cursor, iterators, seen, threw>>

\* row_count() < 1 makes the caller throw, or skip its loop.
RowCount ==
    /\ call = "row_count"
    /\ ExecuteOnce
    /\ call' = CASE answer = <<>> -> "unwind"
                 [] answer # <<>> /\ use = "counted" -> "row"
                 [] answer # <<>> /\ use = "list" -> "begin"
    /\ threw' = (answer = <<>> /\ use = "counted")
    /\ UNCHANGED <<caller, binding, cursor, iterators, seen>>

\* row() moves the cursor, and throws beyond the last row; a row of a
\* range-for comes from operator*.
Row ==
    /\ call = "row"
    /\ ExecuteOnce
    /\ cursor' = cursor + 1
    /\ threw' = (cursor' > Len(answer))
    /\ call' = IF threw' THEN "unwind" ELSE "fields"
    /\ UNCHANGED <<caller, binding, iterators, seen>>

\* The caller reads fields of its row: the driver reads them at the cursor.
ReadFields ==
    /\ call = "fields"
    /\ seen' = Append(seen, answer[cursor])
    /\ call' = IF use \in {"list", "range"} THEN "++" ELSE "unwind"
    /\ UNCHANGED <<caller, binding, execution, cursor, iterators, threw>>

\* The range-for asks for begin() and end().
BeginLoop ==
    /\ call = "begin"
    /\ ExecuteOnce
    /\ it' = [row_idx |-> 0, at_end |-> answer = <<>>]
    /\ last' = [row_idx |-> Len(answer), at_end |-> TRUE]
    /\ call' = "!="
    /\ UNCHANGED <<caller, binding, cursor, seen, threw>>

\* operator!= decides whether the body runs.
TestLoop ==
    /\ call = "!="
    /\ call' = IF it # last THEN "row" ELSE "unwind"
    /\ UNCHANGED <<caller, binding, execution, cursor, iterators, seen, threw>>

\* Mutant: operator++ moves the cursor too, as a line of it that is commented
\* out did.
IncrementMovesCursor ==
    /\ call = "++"
    /\ cursor' = cursor + 1
    /\ LET idx == IF it.at_end THEN it.row_idx ELSE it.row_idx + 1
       IN it' = [row_idx |-> idx, at_end |-> it.at_end \/ Len(answer) <= idx]
    /\ call' = "!="
    /\ UNCHANGED <<caller, binding, execution, last, seen, threw>>

\* operator++ counts the row and finds out whether it was the last.
Increment ==
    /\ call = "++"
    /\ LET idx == IF it.at_end THEN it.row_idx ELSE it.row_idx + 1
       IN it' = [row_idx |-> idx, at_end |-> it.at_end \/ Len(answer) <= idx]
    /\ call' = "!="
    /\ UNCHANGED <<caller, binding, execution, cursor, last, seen, threw>>

\* ~Query, at the end of the caller's function or by its exception.
DestroyQuery ==
    /\ call = "unwind"
    /\ call' = "closed"
    /\ UNCHANGED <<caller, binding, execution, cursor, iterators, seen, threw>>

CursorNext ==
    \/ SetParam \/ Prepared \/ ExecuteThrows
    \/ Write \/ RowCount \/ Row \/ ReadFields
    \/ BeginLoop \/ TestLoop \/ Increment \/ DestroyQuery

CursorSpec == CursorInit /\ [][CursorNext]_cursorVars

-----------------------------------------------------------------------------

\* The rows a caller that comes to its end has asked for.
Wanted ==
    CASE use = "write" -> <<>>
      [] use \in {"counted", "unchecked"} -> SubSeq(answer, 1, 1)
      [] use \in {"list", "range"} -> answer

\* The statement is executed once, with every parameter in its place.
ExecutedOnce == executed = IF did_execute THEN <<params>> ELSE <<>>

\* The iterator and the driver's cursor, which nothing ties together, stand at
\* the same row whenever the loop asks for the next.
Aligned ==
    call = "!=" =>
        /\ it.row_idx = cursor
        /\ it.at_end = (cursor = Len(answer))
        /\ seen = SubSeq(answer, 1, cursor)

\* A caller that ends without an exception has read every row it wanted once,
\* in order; one that does not had its statement refused or found no row.
RowsRead ==
    call \in {"unwind", "closed"} =>
        IF threw
        THEN seen = <<>> /\ (failed \/ (answer = <<>> /\ use \in {"counted", "unchecked"}))
        ELSE seen = Wanted

\* Whatever a caller uses to get at the results of a query executes it exactly
\* once and shows it the rows it asked for, each once and in order, although
\* row(), the fields and the iterators share one cursor.
RowsExact == ExecutedOnce /\ Aligned /\ RowsRead
=============================================================================
