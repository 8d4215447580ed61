--------------------------- MODULE HttpWorkerProofs ---------------------------
(***************************************************************************)
(* The safety properties of HttpWorker that hold, for every set of         *)
(* connections and whatever their clients send.  They need to know for     *)
(* whom the response may have been filled while a connection is served,    *)
(* and that a connection which was answered is not waiting or served any   *)
(* more.                                                                   *)
(***************************************************************************)
EXTENDS HttpWorker, TLAPS

-----------------------------------------------------------------------------
(* The inductive invariant. *)

\* A worker that does not wait for an operation has no connection, and one
\* that does has a connection that is not queued.
Employed ==
    /\ phase = "idle" <=> conn = NoConn
    /\ conn \notin waiting

\* The response is made anew before it is filled for the connection served.
Filled ==
    /\ phase = "reading" => response.fields = {}
    /\ phase = "writing" => response.fields \subseteq {conn}

\* Who was answered has been served.
Settled == \A c \in Conns : answer[c] # NoAnswer => c \notin waiting /\ c # conn

IInv == TypeOK /\ Employed /\ Filled /\ FieldsOwn /\ Settled

-----------------------------------------------------------------------------

\* Every status of a request is one the worker knows.
LEMMA ResultsAreStatuses ==
    ASSUME NEW r \in Requests
    PROVE  Results(r) \subseteq Statuses \ {0}
BY DEF Results, HandlerResults, Requests, Statuses

LEMMA InitIInv == Init => IInv
<1> SUFFICES ASSUME Init PROVE IInv
    OBVIOUS
<1>1. TypeOK
    BY DEF Init, TypeOK, NoAnswer, NoResponse, Statuses
<1>2. Employed /\ Filled /\ FieldsOwn
    BY WorkerAssumption DEF Init, Employed, Filled, FieldsOwn, NoAnswer
<1>3. Settled
    BY DEF Init, Settled
<1> QED BY <1>1, <1>2, <1>3 DEF IInv

LEMMA InductiveStart ==
    ASSUME IInv, NEW c \in Conns, Start(c)
    PROVE  IInv'
<1> USE WorkerAssumption DEF IInv, Start, RenewResponse, NoResponse
<1>1. TypeOK'
    BY DEF TypeOK, Statuses
<1>2. Employed' /\ Filled' /\ FieldsOwn'
    BY DEF TypeOK, Employed, Filled, FieldsOwn
<1>3. Settled'
    BY DEF TypeOK, Settled
<1> QED BY <1>1, <1>2, <1>3

LEMMA InductiveReceive == ASSUME IInv, Receive PROVE IInv'
<1> USE WorkerAssumption DEF IInv, Receive
<1>1. conn \in Conns
    BY DEF TypeOK, Employed
<1>2. TypeOK'
    BY <1>1 DEF TypeOK
<1>3. Employed' /\ Filled' /\ FieldsOwn'
    BY <1>1 DEF TypeOK, Employed, Filled, FieldsOwn
<1>4. Settled'
    BY DEF Settled
<1> QED BY <1>2, <1>3, <1>4

LEMMA InductiveReadError == ASSUME IInv, ReadError PROVE IInv'
<1> USE WorkerAssumption DEF IInv, ReadError, CloseSocket, RenewResponse, NoResponse
<1>1. TypeOK'
    BY DEF TypeOK, Statuses
<1>2. Employed' /\ Filled' /\ FieldsOwn'
    BY DEF TypeOK, Employed, Filled, FieldsOwn
<1>3. Settled'
    BY DEF TypeOK, Settled
<1> QED BY <1>1, <1>2, <1>3

LEMMA InductiveReadHandler == ASSUME IInv, ReadHandler PROVE IInv'
<1> USE WorkerAssumption DEF IInv
<1>1. conn \in Conns /\ phase = "reading"
    BY DEF TypeOK, Employed, ReadHandler
<1>2. PICK r \in Parsed(parser.from) : \E status \in Results(r) :
          \/ BuildResponse(status) /\ phase' = "writing" /\ UNCHANGED down
          \/ down' = TRUE /\ UNCHANGED <<response, phase>>
    BY DEF ReadHandler
<1>3. PICK status \in Results(r) :
          \/ BuildResponse(status) /\ phase' = "writing" /\ UNCHANGED down
          \/ down' = TRUE /\ UNCHANGED <<response, phase>>
    BY <1>2
<1>4. r \in Requests
    BY <1>2 DEF Parsed
<1>5. status \in Statuses
    BY <1>3, <1>4, ResultsAreStatuses
\* Either the response is filled for conn and written, or the process is down.
<1>6. \/ /\ phase' = "writing" /\ down' = down
         /\ response' \in [status : Statuses, fields : SUBSET Conns]
         /\ response'.fields \subseteq {conn}
      \/ phase' = "reading" /\ down' = TRUE /\ response' = response
    <2>1. CASE BuildResponse(status) /\ phase' = "writing" /\ UNCHANGED down
        <3>1. PICK fields \in {{}, {conn}} :
                  response' = [status |-> status, fields |-> response.fields \cup fields]
            BY <2>1 DEF BuildResponse
        <3>2. response.fields = {}
            BY <1>1 DEF Filled
        <3>3. response' = [status |-> status, fields |-> fields]
            BY <3>1, <3>2
        <3> QED BY <1>1, <1>5, <2>1, <3>3
    <2>2. CASE down' = TRUE /\ UNCHANGED <<response, phase>>
        BY <1>1, <2>2
    <2> QED BY <1>3, <2>1, <2>2
<1>7. TypeOK'
    <2>1. phase' \in {"idle", "reading", "writing"}
        BY <1>6
    <2>2. down' \in BOOLEAN
        <3>1. down \in BOOLEAN
            BY DEF TypeOK
        <3>2. down' = down \/ down' = TRUE
            BY <1>6, Zenon
        <3> QED BY <3>1, <3>2
    <2>3. response' \in [status : Statuses, fields : SUBSET Conns]
        BY <1>6 DEF TypeOK
    <2>4. request' \in SUBSET Conns
        BY DEF TypeOK, ReadHandler
    <2> QED BY <2>1, <2>2, <2>3, <2>4 DEF TypeOK, ReadHandler
<1>8. Employed' /\ Filled' /\ FieldsOwn'
    BY <1>1, <1>6 DEF TypeOK, Employed, Filled, FieldsOwn, ReadHandler
<1>9. Settled'
    BY DEF Settled, ReadHandler
<1> QED BY <1>7, <1>8, <1>9

LEMMA InductiveWriteHandler == ASSUME IInv, WriteHandler PROVE IInv'
<1> USE WorkerAssumption DEF IInv, WriteHandler, CloseSocket, RenewResponse, NoResponse, Answered
<1>1. TypeOK'
    BY DEF TypeOK, Employed, Statuses
<1>2. Employed' /\ Filled' /\ FieldsOwn'
    BY DEF TypeOK, Employed, Filled, FieldsOwn
<1>3. Settled'
    BY DEF TypeOK, Settled, Employed
<1> QED BY <1>1, <1>2, <1>3

LEMMA InductiveIInv == IInv /\ [Next]_vars => IInv'
<1> SUFFICES ASSUME IInv, [Next]_vars PROVE IInv'
    OBVIOUS
<1>1. CASE \E c \in Conns : Start(c)
    BY <1>1, InductiveStart
<1>2. CASE Receive
    BY <1>2, InductiveReceive
<1>3. CASE Handler
    BY <1>3, InductiveReadError, InductiveReadHandler, InductiveWriteHandler DEF Handler
<1>4. CASE UNCHANGED vars
    BY <1>4 DEF vars, IInv, TypeOK, Employed, Filled, FieldsOwn, Settled
<1> QED BY <1>1, <1>2, <1>3, <1>4 DEF Next

LEMMA Invariance == Spec => []IInv
BY InitIInv, InductiveIInv, PTL DEF Spec

-----------------------------------------------------------------------------

\* Every variable has its type in every reachable state.
THEOREM TypeCorrect == Spec => []TypeOK
<1>1. IInv => TypeOK
    BY DEF IInv
<1> QED BY <1>1, Invariance, PTL

\* No session token or location that was set for one connection is sent to
\* another, for any number of connections of a worker and whatever fails.
THEOREM FieldsStayOwn == Spec => []FieldsOwn
<1>1. IInv => FieldsOwn
    BY DEF IInv
<1> QED BY <1>1, Invariance, PTL

\* The step that writes an answer writes it to the connection that is served,
\* which nobody has answered before.
LEMMA AnswersNew ==
    ASSUME IInv, [Next]_vars, NEW c \in Conns, answer[c] # NoAnswer
    PROVE  answer'[c] = answer[c]
<1>1. CASE WriteHandler
    <2>1. c # conn
        BY DEF IInv, Settled
    <2> QED BY <1>1, <2>1 DEF WriteHandler, IInv, TypeOK
<1>2. CASE ~WriteHandler
    BY <1>2 DEF Next, Handler, Start, Receive, ReadError, ReadHandler, vars
<1> QED BY <1>1, <1>2

\* No client is sent two answers, whatever fails.
THEOREM OneAnswer == Spec => AnsweredOnce
<1>1. IInv /\ [Next]_vars
      => [\A c \in Conns : answer[c] # NoAnswer => answer'[c] = answer[c]]_vars
    BY AnswersNew
<1> QED BY <1>1, Invariance, PTL DEF Spec, AnsweredOnce
=============================================================================
