----------------------------- MODULE HttpWorker -----------------------------
(***************************************************************************)
(* One http_worker and the connections its thread gives it, one after the  *)
(* other: http_worker::start, read_handler, process, build_response,       *)
(* write_handler and close_socket.                                         *)
(*                                                                         *)
(* The worker is reused, and two of its members outlive a connection: the  *)
(* request parser and the read buffer, here together as the bytes they     *)
(* still hold.  Of a request only what process() distinguishes is kept:    *)
(* the kind of its route, whether it has a session-token header and        *)
(* whether its method has a handler function.  Of an answer it is the      *)
(* status, and the header fields that a handler has set, a session-token   *)
(* or a Location with one, as the connections they were set for.  What the *)
(* database and the handlers do is a choice among the results process()    *)
(* can see; Sessions and DatabaseConnection model them.                    *)
(***************************************************************************)
EXTENDS Integers, FiniteSets

CONSTANTS
    Conns,   \* the connections the worker's thread dequeues for it
    NoConn,  \* a null shared_ptr<http_connection>
    Sends    \* the request each connection's client sends

Requests == [route : {"none", "public", "private"}, token : BOOLEAN, verb : BOOLEAN]

ASSUME WorkerAssumption ==
    /\ IsFiniteSet(Conns)
    /\ NoConn \notin Conns
    /\ Sends \in [Conns -> Requests]

VARIABLES
    waiting,   \* connections not dequeued yet
    conn,      \* http_worker::conn
    phase,     \* the asynchronous operation the worker waits for
    parser,    \* parser_ and buffer_: how far it is, whose bytes it holds
    request,   \* request_: whose bytes it was parsed from
    response,  \* its status, 0 while there is none, and whom its header fields are for
    answer,    \* what each client was sent: to whose request, and the response
    down       \* an exception has left a completion handler

vars == <<waiting, conn, phase, parser, request, response, answer, down>>

NoResponse == [status |-> 0, fields |-> {}]
NoAnswer   == [to |-> {}, status |-> 0, fields |-> {}]

Init ==
    /\ waiting = Conns
    /\ conn = NoConn
    /\ phase = "idle"
    /\ parser = [state |-> "start", from |-> {}]
    /\ request = {}
    /\ response = NoResponse
    /\ answer = [c \in Conns |-> NoAnswer]
    /\ down = FALSE

-----------------------------------------------------------------------------
(* process(): the status it answers a request with. *)

\* The switch over the methods; parse_json in setup and the handler may throw
\* http_exception (400, 403) or another exception (500), and the handlers set
\* 200, 302 for login redirects, or 404 for a method they do not override.
HandlerResults(r) == {400, 500} \cup IF r.verb THEN {200, 302, 403, 404} ELSE {}

\* find_route, the session-token header and fill_by_token, which may refuse
\* the token, before the handler.
Results(r) ==
    CASE r.route = "none"    -> {404}
      [] r.route = "public"  -> HandlerResults(r)
      [] r.route = "private" -> {401} \cup IF r.token THEN HandlerResults(r) ELSE {}

\* Bytes of several clients make up any request at all.
Parsed(from) == {r \in Requests : \A c \in Conns : from = {c} => r = Sends[c]}

-----------------------------------------------------------------------------

\* Mutant: the object is kept, and the next status and body are written over it.
RenewResponseStatus == response' = [response EXCEPT !.status = 0]

\* response.reset() in close_socket; reset() and emplace() in start.
RenewResponse == response' = NoResponse

\* build_response sets the fields that the handler's result has, next to those
\* that response has; the one for errors sets none of a handler's.
BuildResponse(status) ==
    \E fields \in {{}} \cup IF status \in {200, 302} THEN {{conn}} ELSE {} :
        response' = [status |-> status, fields |-> response.fields \cup fields]

\* close_socket: the worker has finished and gives up the connection.
CloseSocket ==
    /\ phase' = "idle"
    /\ conn' = NoConn
    /\ RenewResponse

\* dequeue found the worker finished and starts it; request_ and response are
\* made anew, parser_ and buffer_ are not.
Start(c) ==
    /\ ~down
    /\ phase = "idle"
    /\ c \in waiting
    /\ waiting' = waiting \ {c}
    /\ conn' = c
    /\ phase' = "reading"
    /\ request' = {}
    /\ RenewResponse
    /\ UNCHANGED <<parser, answer, down>>

\* Bytes of the client arrive and are parsed: the message may be complete,
\* incomplete, or malformed, which the same bytes in the buffer then stay.
Receive ==
    /\ ~down
    /\ phase = "reading"
    /\ parser.state \in {"start", "partial"}
    /\ \E s \in {"partial", "done", "malformed"} :
          parser' = [state |-> s, from |-> parser.from \cup {conn}]
    /\ UNCHANGED <<waiting, conn, phase, request, response, answer, down>>

\* read_handler with an error: the client broke or ended the connection
\* before the message was complete, or the message is malformed.
ReadError ==
    /\ ~down
    /\ phase = "reading"
    /\ parser.state # "done"
    /\ CloseSocket
    /\ UNCHANGED <<waiting, parser, request, answer, down>>

\* Mutant: the answer to an unknown route is built but never written.
ReadHandlerForgetsWrite ==
    /\ ~down
    /\ phase = "reading"
    /\ parser.state = "done"
    /\ request' = parser.from
    /\ \E r \in Parsed(parser.from) : \E status \in Results(r) :
          /\ BuildResponse(status)
          /\ phase' = IF status = 404 THEN "built" ELSE "writing"
          /\ UNCHANGED down
    /\ UNCHANGED <<waiting, conn, parser, answer>>

\* read_handler without an error, process and build_response.  async_read on
\* a parser that is done completes at once.  Serialising the body as JSON
\* throws when a string in it, a handler's data or the what() of an exception,
\* is not UTF-8, and build_response runs outside the try of process() or in
\* one of its catch clauses.  (Outside the try are also the constructors of
\* http_request and of the handler, and fill_by_token, where a runtime_error
\* alone is caught; those are for running out of memory.)
ReadHandler ==
    /\ ~down
    /\ phase = "reading"
    /\ parser.state = "done"
    /\ request' = parser.from
    /\ \E r \in Parsed(parser.from) : \E status \in Results(r) :
          \/ BuildResponse(status) /\ phase' = "writing" /\ UNCHANGED down
          \/ /\ status \in {200, 500}
             /\ down' = TRUE
             /\ UNCHANGED <<response, phase>>
    /\ UNCHANGED <<waiting, conn, parser, answer>>

\* What the client of conn is sent.
Answered == [to |-> request, status |-> response.status, fields |-> response.fields]

\* Mutant: the connection is kept after the answer was written.
WriteHandlerKeepsConn ==
    /\ ~down
    /\ phase = "writing"
    /\ answer' = [answer EXCEPT ![conn] = Answered]
    /\ phase' \in {"idle", "reading"}
    /\ UNCHANGED <<waiting, conn, parser, request, response, down>>

\* write_handler: the answer was sent, or the client broke the connection.
WriteHandler ==
    /\ ~down
    /\ phase = "writing"
    /\ \/ answer' = [answer EXCEPT ![conn] = Answered]
       \/ UNCHANGED answer
    /\ CloseSocket
    /\ UNCHANGED <<waiting, parser, request, down>>

Handler == ReadError \/ ReadHandler \/ WriteHandler

Next == (\E c \in Conns : Start(c)) \/ Receive \/ Handler

Spec == Init /\ [][Next]_vars

\* The io_context runs the handler of an operation that has completed, and
\* clients do not stall: a read or a write completes or fails in the end.
FairSpec == Spec /\ WF_vars(Handler)

-----------------------------------------------------------------------------

Statuses == {0, 200, 302, 400, 401, 403, 404, 500}

\* Every variable has the type of its C++ counterpart.
TypeOK ==
    /\ waiting \in SUBSET Conns
    /\ conn \in Conns \cup {NoConn}
    /\ phase \in {"idle", "reading", "writing"}
    /\ parser \in [state : {"start", "partial", "done", "malformed"}, from : SUBSET Conns]
    /\ request \in SUBSET Conns
    /\ response \in [status : Statuses, fields : SUBSET Conns]
    /\ answer \in [Conns -> [to : SUBSET Conns, status : Statuses, fields : SUBSET Conns]]
    /\ down \in BOOLEAN

\* The worker's one response is filled for one connection after the other, and
\* after reads and writes that failed: no client is sent a session token or a
\* location that was set while another one was served, even with an answer
\* whose own handler sets none.
FieldsOwn == \A c \in Conns : answer[c].fields \subseteq {c}

\* A client that was sent an answer is never sent another one.
AnsweredOnce ==
    [][\A c \in Conns : answer[c] # NoAnswer => answer'[c] = answer[c]]_vars

\* Every path through read_handler and process ends in a write or in
\* close_socket: unless an exception takes the process down, a worker that
\* was started becomes free for another connection.
WorkerComesBack == phase # "idle" ~> phase = "idle" \/ down

\* "Make the request empty before reading, otherwise the operation behavior
\* is undefined": no client is sent the answer to a request it had no part in.
AnswersOwnRequest == \A c \in Conns : answer[c] # NoAnswer => c \in answer[c].to

\* "Unhandled exception caught by the server": no exception leaves process().
NothingEscapes == ~down
=============================================================================
