---------------------------- MODULE DatabaseProofs ----------------------------
(***************************************************************************)
(* The safety properties of DatabaseConnection for every set of threads    *)
(* and requests and every pattern of outages.  They need to know together  *)
(* who owns the mutex and which sessions belong to a living handler: at    *)
(* most one session leaks because its leak leaves the mutex locked.        *)
(***************************************************************************)
EXTENDS DatabaseConnection, QueryCursor, FiniteSetTheorems, SequenceTheorems, TLAPS

-----------------------------------------------------------------------------
(* The inductive invariant. *)

\* A thread serves a request unless it is idle, and no two serve the same.
Serving ==
    /\ \A t \in Threads : pc[t] = "idle" <=> req[t] = NoRequest
    /\ \A t \in Threads : req[t] \notin todo
    /\ \A t, u \in Threads : req[t] = req[u] /\ req[t] # NoRequest => t = u

\* The mutex is owned by the thread that opens, and its owner is not open.
Mutex ==
    /\ \A t \in Threads : Opening(t) => m = t
    /\ m # NoThread => ~isOpen[m]

\* Where a thread with an open connection is.
OpenWhere ==
    /\ \A t \in Threads : isOpen[t] => pc[t] \in {"handler", "query", "failed"}
    /\ \A t \in Threads : pc[t] = "query" => isOpen[t]

Leaked == sessions \ InUse

\* Sessions are in use, or one leaked while the mutex was left locked.
Accounted ==
    /\ InUse \subseteq sessions
    /\ \A r, q \in Leaked : r = q
    /\ Leaked # {} => m # NoThread /\ ~Opening(m)

IInv == TypeOK /\ Serving /\ Mutex /\ OpenWhere /\ Accounted

-----------------------------------------------------------------------------

LEMMA InUseMembers ==
    \A r : r \in InUse <=> \E t \in Threads : HasSession(t) /\ r = req[t]
BY DEF InUse

LEMMA InUseMembersAfter ==
    \A r : r \in InUse' <=> \E t \in Threads : HasSession(t)' /\ r = req'[t]
BY DEF InUse

\* What a handler uses does not depend on the others.
LEMMA SameInUse ==
    ASSUME \A t \in Threads : HasSession(t)' <=> HasSession(t),
           \A t \in Threads : HasSession(t) => req'[t] = req[t]
    PROVE  InUse' = InUse
BY InUseMembers, InUseMembersAfter

LEMMA InitIInv == Init => IInv
<1> SUFFICES ASSUME Init PROVE IInv
    OBVIOUS
<1> USE DatabaseAssumption DEF Init
<1>1. TypeOK /\ Serving /\ Mutex /\ OpenWhere
    BY DEF TypeOK, Serving, Mutex, OpenWhere, Opening
<1>2. InUse = {}
    BY InUseMembers DEF HasSession
<1> QED BY <1>1, <1>2 DEF IInv, Accounted, Leaked

LEMMA InductiveTypeOK == IInv /\ [Next]_vars => TypeOK'
<1> SUFFICES ASSUME IInv, [Next]_vars PROVE TypeOK'
    OBVIOUS
<1> USE DatabaseAssumption DEF IInv, TypeOK, Goto
<1>1. CASE Outage
    BY <1>1 DEF Outage
<1>2. ASSUME NEW t \in Threads, NEW r \in Requests, Begin(t, r) PROVE TypeOK'
    BY <1>2 DEF Begin
<1>3. ASSUME NEW t \in Threads, Open(t) PROVE TypeOK'
    <2>1. CASE OpenLazily(t)  BY <2>1 DEF OpenLazily
    <2>2. CASE Lock(t)        BY <2>2 DEF Lock
    <2>3. CASE Connect(t)
        <3>1. req[t] \in Requests
            BY <2>3 DEF Connect, Serving
        <3> QED BY <2>3, <3>1 DEF Connect
    <2>4. CASE SetSchema(t)   BY <2>4 DEF SetSchema
    <2>5. CASE OpenThrows(t)  BY <2>5 DEF OpenThrows
    <2> QED BY <1>3, <2>1, <2>2, <2>3, <2>4, <2>5 DEF Open
<1>4. ASSUME NEW t \in Threads, Statement(t) PROVE TypeOK'
    BY <1>4 DEF Statement, Prepare, Execute, QueryThrows
<1>5. ASSUME NEW t \in Threads, Answer(t) PROVE TypeOK'
    <2>1. req[t] \in Requests
        BY <1>5 DEF Answer, Serving
    <2> QED BY <1>5, <2>1 DEF Answer
<1>6. CASE UNCHANGED vars
    BY <1>6 DEF vars
<1> QED BY <1>1, <1>2, <1>3, <1>4, <1>5, <1>6 DEF Next, Step

LEMMA InductiveServing == IInv /\ [Next]_vars => Serving'
<1> SUFFICES ASSUME IInv, [Next]_vars PROVE Serving'
    OBVIOUS
<1> USE DatabaseAssumption DEF IInv, TypeOK, Serving, Goto
<1>1. CASE Outage
    BY <1>1 DEF Outage
<1>2. ASSUME NEW t \in Threads, NEW r \in Requests, Begin(t, r) PROVE Serving'
    <2>1. /\ req' = [req EXCEPT ![t] = r] /\ todo' = todo \ {r}
          /\ pc' = [pc EXCEPT ![t] = "handler"] /\ pc[t] = "idle" /\ r \in todo
        BY <1>2 DEF Begin
    <2>2. \A u \in Threads : req[u] # r
        BY <2>1
    <2> QED BY <2>1, <2>2
<1>3. ASSUME NEW t \in Threads, Open(t) PROVE Serving'
    BY <1>3 DEF Open, OpenLazily, Lock, Connect, SetSchema, OpenThrows
<1>4. ASSUME NEW t \in Threads, Statement(t) PROVE Serving'
    BY <1>4 DEF Statement, Prepare, Execute, QueryThrows
<1>5. ASSUME NEW t \in Threads, Answer(t) PROVE Serving'
    BY <1>5 DEF Answer
<1>6. CASE UNCHANGED vars
    BY <1>6 DEF vars
<1> QED BY <1>1, <1>2, <1>3, <1>4, <1>5, <1>6 DEF Next, Step

LEMMA InductiveMutex == IInv /\ [Next]_vars => Mutex' /\ OpenWhere'
<1> SUFFICES ASSUME IInv, [Next]_vars PROVE Mutex' /\ OpenWhere'
    OBVIOUS
<1> USE DatabaseAssumption DEF IInv, TypeOK, Mutex, OpenWhere, Opening, Goto
<1>1. CASE Outage
    BY <1>1 DEF Outage
<1>2. ASSUME NEW t \in Threads, NEW r \in Requests, Begin(t, r) PROVE Mutex' /\ OpenWhere'
    BY <1>2 DEF Begin
<1>3. ASSUME NEW t \in Threads, Open(t) PROVE Mutex' /\ OpenWhere'
    <2>1. CASE OpenLazily(t)  BY <2>1 DEF OpenLazily
    <2>2. CASE Lock(t)        BY <2>2 DEF Lock
    <2>3. CASE Connect(t)     BY <2>3 DEF Connect
    <2>4. CASE SetSchema(t)   BY <2>4 DEF SetSchema
    <2>5. CASE OpenThrows(t)  BY <2>5 DEF OpenThrows
    <2> QED BY <1>3, <2>1, <2>2, <2>3, <2>4, <2>5 DEF Open
<1>4. ASSUME NEW t \in Threads, Statement(t) PROVE Mutex' /\ OpenWhere'
    BY <1>4 DEF Statement, Prepare, Execute, QueryThrows
<1>5. ASSUME NEW t \in Threads, Answer(t) PROVE Mutex' /\ OpenWhere'
    BY <1>5 DEF Answer
<1>6. CASE UNCHANGED vars
    BY <1>6 DEF vars
<1> QED BY <1>1, <1>2, <1>3, <1>4, <1>5, <1>6 DEF Next, Step

LEMMA InductiveAccounted == IInv /\ [Next]_vars => Accounted'
<1> SUFFICES ASSUME IInv, [Next]_vars PROVE Accounted'
    OBVIOUS
<1> USE DatabaseAssumption DEF IInv, TypeOK, Goto
<1> DEFINE Kept == UNCHANGED <<sessions, m>> /\ InUse' = InUse
<1>a. ASSUME Kept, m # NoThread /\ ~Opening(m) => ~Opening(m)'
      PROVE  Accounted'
    BY <1>a DEF Accounted, Leaked, Opening
<1>1. CASE Outage
    <2>1. InUse' = InUse
        BY <1>1, SameInUse DEF Outage, HasSession
    <2> QED BY <1>1, <1>a, <2>1 DEF Outage, Opening
<1>2. ASSUME NEW t \in Threads, NEW r \in Requests, Begin(t, r) PROVE Accounted'
    <2>1. InUse' = InUse
        BY <1>2, SameInUse DEF Begin, HasSession, OpenWhere
    <2> QED BY <1>2, <1>a, <2>1 DEF Begin, Opening
<1>3. ASSUME NEW t \in Threads, OpenLazily(t) PROVE Accounted'
    <2>1. InUse' = InUse
        BY <1>3, SameInUse DEF OpenLazily, HasSession
    <2> QED BY <1>3, <1>a, <2>1 DEF OpenLazily, Opening
<1>4. ASSUME NEW t \in Threads, Lock(t) PROVE Accounted'
    <2>1. InUse' = InUse
        BY <1>4, SameInUse DEF Lock, HasSession
    <2>2. Leaked = {}
        BY <1>4 DEF Lock, Accounted
    <2> QED BY <1>4, <2>1, <2>2 DEF Lock, Accounted, Leaked
<1>5. ASSUME NEW t \in Threads, Connect(t) PROVE Accounted'
    <2>1. Leaked = {}
        BY <1>5 DEF Connect, Accounted, Mutex, Opening
    <2>2. InUse' = InUse \cup {req[t]}
        BY <1>5, InUseMembers, InUseMembersAfter DEF Connect, HasSession
    <2> QED BY <1>5, <2>1, <2>2 DEF Connect, Accounted, Leaked
<1>6. ASSUME NEW t \in Threads, SetSchema(t) PROVE Accounted'
    <2>1. Leaked = {}
        BY <1>6 DEF SetSchema, Accounted, Mutex, Opening
    <2>2. InUse' = InUse
        BY <1>6, SameInUse DEF SetSchema, HasSession
    <2> QED BY <1>6, <2>1, <2>2 DEF SetSchema, Accounted, Leaked
<1>7. ASSUME NEW t \in Threads, OpenThrows(t) PROVE Accounted'
    <2>1. Leaked = {} /\ m = t
        BY <1>7 DEF OpenThrows, Accounted, Mutex, Opening
    <2>2. InUse' = InUse \ {req[t]}
        BY <1>7, <2>1, InUseMembers, InUseMembersAfter
           DEF OpenThrows, HasSession, Serving, OpenWhere, Mutex
    <2>3. ~Opening(m)' /\ m' = t
        BY <1>7, <2>1 DEF OpenThrows, Opening
    <2> QED BY <1>7, <2>1, <2>2, <2>3 DEF OpenThrows, Accounted, Leaked
<1>8. ASSUME NEW t \in Threads, Statement(t) PROVE Accounted'
    <2>1. InUse' = InUse
        BY <1>8, SameInUse DEF Statement, Prepare, Execute, QueryThrows, HasSession
    <2> QED BY <1>8, <1>a, <2>1 DEF Statement, Prepare, Execute, QueryThrows, Opening
<1>9. ASSUME NEW t \in Threads, Answer(t) PROVE Accounted'
    <2>1. CASE isOpen[t]
        <3>1. InUse' = InUse \ {req[t]}
            BY <1>9, <2>1, InUseMembers, InUseMembersAfter
               DEF Answer, HasSession, Serving
        <3>2. req[t] \in InUse
            BY <2>1, InUseMembers DEF HasSession
        <3>3. /\ sessions' = sessions \ {req[t]}
              /\ Leaked' = Leaked
            BY <1>9, <2>1, <3>1, <3>2 DEF Answer, Leaked
        <3> QED BY <1>9, <3>1, <3>3 DEF Answer, Accounted, Opening
    <2>2. CASE ~isOpen[t]
        <3>1. InUse' = InUse
            BY <1>9, <2>2, SameInUse DEF Answer, HasSession
        <3> QED BY <1>9, <2>2, <3>1, <1>a DEF Answer, Opening
    <2> QED BY <2>1, <2>2
<1>10. CASE UNCHANGED vars
    <2>1. InUse' = InUse
        BY <1>10, SameInUse DEF vars, HasSession
    <2> QED BY <1>10, <1>a, <2>1 DEF vars, Opening
<1> QED BY <1>1, <1>2, <1>3, <1>4, <1>5, <1>6, <1>7, <1>8, <1>9, <1>10 DEF Next, Step, Open

\* The inductive invariant holds in every reachable state.
THEOREM Invariant == Spec => []IInv
<1>1. IInv /\ [Next]_vars => IInv'
    BY InductiveTypeOK, InductiveServing, InductiveMutex, InductiveAccounted DEF IInv
<1> QED BY InitIInv, <1>1, PTL DEF Spec

-----------------------------------------------------------------------------
(* The properties the runs check. *)

\* Threads, handlers and sessions keep their types (database.h, database.cpp).
THEOREM TypeCorrect == Spec => []TypeOK
<1>1. IInv => TypeOK
    BY DEF IInv
<1> QED BY Invariant, <1>1, PTL

\* db::m serialises driver->connect in Connection::open, even after an open
\* that threw while it held the mutex.
THEOREM Serialised == Spec => []ConnectSerialised
<1>1. IInv => ConnectSerialised
    BY DEF IInv, Mutex, ConnectSerialised
<1> QED BY Invariant, <1>1, PTL

\* Connection::close, called by the handler's destructor on every path,
\* closes the session of every answered request, unless open() has thrown.
THEOREM ClosedAgain == Spec => []SessionsClosed
<1>1. IInv => SessionsClosed
    BY DEF IInv, Accounted, Leaked, SessionsClosed
<1> QED BY Invariant, <1>1, PTL

\* The sessions of a state have distinct owners among the threads: the
\* handlers they belong to, and for one that leaked the owner of the mutex.
LEMMA SessionsHaveOwners == IInv => SessionBound
<1> SUFFICES ASSUME IInv PROVE SessionBound
    OBVIOUS
<1> USE DatabaseAssumption DEF IInv, TypeOK
<1> DEFINE Owner(r, t) == \/ HasSession(t) /\ req[t] = r
                          \/ r \in Leaked /\ t = m
           own == [r \in sessions |-> CHOOSE t \in Threads : Owner(r, t)]
<1>1. ASSUME NEW r \in sessions PROVE \E t \in Threads : Owner(r, t)
    <2>1. CASE r \in InUse
        BY <2>1, InUseMembers
    <2>2. CASE r \in Leaked
        BY <2>2 DEF Accounted
    <2> QED BY <2>1, <2>2 DEF Leaked
<1>2. \A r \in sessions : own[r] \in Threads /\ Owner(r, own[r])
    BY <1>1
<1>3. ASSUME NEW r \in sessions, NEW q \in sessions, NEW t \in Threads,
             Owner(r, t), Owner(q, t)
      PROVE  r = q
    <2>1. CASE r \in Leaked /\ q \in Leaked
        BY <2>1 DEF Accounted
    <2>2. CASE HasSession(t) /\ t = m /\ Leaked # {}
        BY <2>2 DEF Accounted, Mutex, Opening, HasSession
    <2>3. CASE HasSession(t) /\ req[t] = r /\ req[t] = q
        BY <2>3
    <2> QED BY <1>3, <2>1, <2>2, <2>3
<1>4. own \in Injection(sessions, Threads)
    <2>1. own \in [sessions -> Threads]
        BY <1>2
    <2> HIDE DEF own, Owner
    <2>2. \A r, q \in sessions : own[r] = own[q] => r = q
        BY <1>2, <1>3
    <2> QED BY <2>1, <2>2 DEF Injection, IsInjective
<1> HIDE DEF own
<1>5. Cardinality(sessions) <= Cardinality(Threads)
    BY <1>4, FS_Injection
<1> QED BY <1>5 DEF SessionBound

\* The connections that Connection::open makes and nothing closes never add
\* up: the server keeps at most one session per work thread.
THEOREM SessionsBounded == Spec => []SessionBound
BY Invariant, SessionsHaveOwners, PTL


-----------------------------------------------------------------------------
(* QueryCursor: RowsExact for every number of parameters and every result   *)
(* set.  The invariant says, for each place of the caller, how far the      *)
(* parameters are bound and where the cursor and the iterator stand.        *)

Calls == {"set_param", "execute", "row_count", "row", "fields", "begin", "!=", "++",
          "unwind", "closed"}
Loops == {"list", "range"}
Single == {"counted", "unchecked"}

CursorTypeOK ==
    /\ use \in {"write"} \cup Single \cup Loops
    /\ params \in ParamLists
    /\ answer \in Answers
    /\ call \in Calls
    /\ given \in 0..Len(params)
    /\ did_execute \in BOOLEAN
    /\ failed \in BOOLEAN
    /\ threw \in BOOLEAN
    /\ cursor \in Nat

\* The first parameters are bound, the others are not yet.
Binding ==
    /\ param_index = given + 1
    /\ bound = [j \in DOMAIN params |-> IF j <= given THEN params[j] ELSE Unset]
    /\ call # "set_param" => given = Len(params)
    /\ call = "set_param" => ~did_execute

\* Where the cursor is, and what has been read, at each call.
Place ==
    /\ threw => call \in {"unwind", "closed"}
    /\ call \in {"set_param", "execute", "row_count", "begin"} => cursor = 0 /\ seen = <<>>
    /\ call = "execute" => use = "write"
    /\ call = "row_count" => use \in {"counted", "list"}
    /\ call = "begin" => use \in Loops
    /\ call = "row" => /\ use \in Single \cup Loops
                       /\ seen = SubSeq(answer, 1, cursor)
                       /\ use \in Single => cursor = 0
    /\ call = "fields" => /\ use \in Single \cup Loops
                          /\ cursor \in 1..Len(answer)
                          /\ seen = SubSeq(answer, 1, cursor - 1)
                          /\ use \in Single => cursor = 1
    /\ call = "++" => /\ use \in Loops
                      /\ cursor \in 1..Len(answer)
                      /\ seen = SubSeq(answer, 1, cursor)
    /\ call = "!=" => use \in Loops /\ cursor \in 0..Len(answer)

\* Inside the body of a loop the iterator is one row behind the cursor, as soon
\* as row() has moved it.
Iterating ==
    use \in Loops /\ call \in {"!=", "row", "fields", "++"} =>
        /\ did_execute
        /\ last = [row_idx |-> Len(answer), at_end |-> TRUE]
        /\ call = "row" => cursor < Len(answer) /\ it = [row_idx |-> cursor, at_end |-> FALSE]
        /\ call \in {"fields", "++"} => it = [row_idx |-> cursor - 1, at_end |-> FALSE]
        /\ call = "!=" => it = [row_idx |-> cursor, at_end |-> cursor = Len(answer)]

CursorInv == CursorTypeOK /\ Binding /\ Place /\ Iterating /\ RowsExact

-----------------------------------------------------------------------------
(* Facts about sequences. *)

LEMMA AnswerIsSeq ==
    ASSUME CursorTypeOK
    PROVE  \E S : answer \in Seq(S)
BY QueryAssumption DEF CursorTypeOK

LEMMA ParamsAreSeq ==
    ASSUME CursorTypeOK
    PROVE  \E S : params \in Seq(S)
BY QueryAssumption DEF CursorTypeOK

LEMMA PrefixGrows ==
    ASSUME NEW S, NEW s \in Seq(S), NEW n \in 1..Len(s)
    PROVE  Append(SubSeq(s, 1, n - 1), s[n]) = SubSeq(s, 1, n)
<1>1. /\ SubSeq(s, 1, n) \in Seq(S) /\ Len(SubSeq(s, 1, n)) = n
      /\ \A j \in 1..n : SubSeq(s, 1, n)[j] = s[j]
    BY SMT
<1>2. /\ SubSeq(s, 1, n - 1) \in Seq(S) /\ Len(SubSeq(s, 1, n - 1)) = n - 1
      /\ \A j \in 1 .. n - 1 : SubSeq(s, 1, n - 1)[j] = s[j]
    BY SMT
<1> DEFINE t == Append(SubSeq(s, 1, n - 1), s[n])
<1>3. t \in Seq(S) /\ Len(t) = n /\ \A j \in 1..n : t[j] = s[j]
    BY <1>2, SMT
<1> HIDE DEF t
<1>4. t = SubSeq(s, 1, n)
    BY <1>1, <1>3, SeqEqual
<1> QED BY <1>4 DEF t

LEMMA WholePrefix ==
    ASSUME NEW S, NEW s \in Seq(S)
    PROVE  SubSeq(s, 1, Len(s)) = s /\ SubSeq(s, 1, 0) = <<>>
<1>1. /\ SubSeq(s, 1, Len(s)) \in Seq(S) /\ Len(SubSeq(s, 1, Len(s))) = Len(s)
      /\ \A j \in 1..Len(s) : SubSeq(s, 1, Len(s))[j] = s[j]
    BY SMT
<1> QED BY <1>1, SeqEqual, SMT

\* All parameters are bound: the statement has them all.
LEMMA AllBound ==
    ASSUME CursorTypeOK, Binding, call # "set_param"
    PROVE  bound = params
<1>1. PICK S : params \in Seq(S)
    BY ParamsAreSeq
<1>2. bound = [j \in 1..Len(params) |-> params[j]]
    BY <1>1 DEF Binding
<1> QED BY <1>1, <1>2

-----------------------------------------------------------------------------

LEMMA InitCursorInv == CursorInit => CursorInv
<1> SUFFICES ASSUME CursorInit PROVE CursorInv
    OBVIOUS
<1>1. CursorTypeOK
    <2>1. PICK S : params \in Seq(S)
        BY QueryAssumption DEF CursorInit
    <2>2. Len(params) \in Nat
        BY <2>1
    <2>3. use \in {"write"} \cup Single \cup Loops /\ call \in Calls
        BY DEF CursorInit, Calls, Loops, Single
    <2>4. did_execute \in BOOLEAN /\ failed \in BOOLEAN /\ threw \in BOOLEAN
        BY DEF CursorInit
    <2>5. given \in 0..Len(params) /\ cursor \in Nat
        BY <2>2 DEF CursorInit
    <2>6. params \in ParamLists /\ answer \in Answers
        BY DEF CursorInit
    <2> QED BY <2>3, <2>4, <2>5, <2>6 DEF CursorTypeOK
<1>2. Binding
    <2>1. PICK S : params \in Seq(S)
        BY <1>1, ParamsAreSeq
    <2> QED BY <2>1 DEF CursorInit, Binding
<1>3. Place /\ Iterating /\ RowsExact
    BY DEF CursorInit, Place, Iterating, RowsExact, ExecutedOnce, Aligned, RowsRead
<1> QED BY <1>1, <1>2, <1>3 DEF CursorInv

LEMMA StepSetParam == ASSUME CursorInv, SetParam PROVE CursorInv'
<1> USE DEF CursorInv, SetParam, caller, execution, iterators
<1>1. PICK S : params \in Seq(S)
    BY ParamsAreSeq
<1>2. CursorTypeOK'
    BY <1>1 DEF CursorTypeOK
<1>3. Binding'
    <2>1. DOMAIN params = 1..Len(params) /\ given + 1 \in 1..Len(params)
        BY <1>1 DEF CursorTypeOK
    <2> QED BY <2>1 DEF Binding, CursorTypeOK
<1>4. Place' /\ Iterating' /\ RowsExact'
    BY DEF Place, Iterating, RowsExact, ExecutedOnce, Aligned, RowsRead, Wanted
<1> QED BY <1>2, <1>3, <1>4

LEMMA StepPrepared == ASSUME CursorInv, Prepared PROVE CursorInv'
<1> USE DEF CursorInv, Prepared, caller, binding, execution, iterators
<1>0. PICK S : answer \in Seq(S)
    BY AnswerIsSeq
<1>1. CursorTypeOK' /\ Binding'
    BY DEF CursorTypeOK, Binding, Calls, Loops, Single
<1>2. seen = <<>> /\ cursor = 0 /\ seen = SubSeq(answer, 1, 0) /\ ~threw
    BY <1>0, WholePrefix DEF Place
<1>3. call' \in {"execute", "row_count", "row", "begin"}
    BY DEF CursorTypeOK, Loops, Single
<1>4. Place' /\ Iterating'
    BY <1>2, <1>3 DEF Place, Iterating, CursorTypeOK, Loops, Single
<1>5. RowsExact'
    BY <1>3 DEF RowsExact, ExecutedOnce, Aligned, RowsRead
<1> QED BY <1>1, <1>4, <1>5

\* A call that may execute leaves the statement executed once.
LEMMA Executes ==
    ASSUME CursorInv, ExecuteOnce, call # "set_param", UNCHANGED params
    PROVE  did_execute' /\ ExecutedOnce' /\ UNCHANGED failed
<1>1. bound = params
    BY AllBound DEF CursorInv
<1> QED BY <1>1 DEF CursorInv, ExecuteOnce, RowsExact, ExecutedOnce, execution, CursorTypeOK

LEMMA StepExecuteThrows == ASSUME CursorInv, ExecuteThrows PROVE CursorInv'
<1> USE DEF CursorInv, ExecuteThrows, caller, binding, iterators
<1>0. PICK S : answer \in Seq(S)
    BY AnswerIsSeq
<1>1. CursorTypeOK' /\ Binding'
    BY DEF CursorTypeOK, Binding, Calls, Executing
<1>2. Place' /\ Iterating'
    BY DEF Place, Iterating
<1>3. seen = <<>>
    <2>1. CASE call = "row"
        <3>1. use \notin Loops
            BY <2>1 DEF Iterating
        <3>2. cursor = 0 /\ seen = SubSeq(answer, 1, 0)
            BY <2>1, <3>1 DEF Place
        <3> QED BY <3>2, <1>0, WholePrefix
    <2> QED BY <2>1 DEF Place, Executing
<1>4. RowsExact'
    BY <1>3 DEF RowsExact, ExecutedOnce, Aligned, RowsRead
<1> QED BY <1>1, <1>2, <1>4

LEMMA StepWrite == ASSUME CursorInv, Write PROVE CursorInv'
<1> USE DEF CursorInv, Write, caller, binding, iterators
<1>1. did_execute' /\ ExecutedOnce' /\ UNCHANGED failed
    BY Executes
<1>2. CursorTypeOK' /\ Binding'
    BY <1>1 DEF CursorTypeOK, Binding, Calls
<1>3. Place' /\ Iterating'
    BY DEF Place, Iterating
<1>4. Aligned' /\ RowsRead'
    BY DEF Place, Aligned, RowsRead, Wanted
<1> QED BY <1>1, <1>2, <1>3, <1>4 DEF RowsExact

LEMMA StepRowCount == ASSUME CursorInv, RowCount PROVE CursorInv'
<1> USE DEF CursorInv, RowCount, caller, binding, iterators
<1>0. PICK S : answer \in Seq(S)
    BY AnswerIsSeq
<1>1. did_execute' /\ ExecutedOnce' /\ UNCHANGED failed
    BY Executes
<1>2. use \in {"counted", "list"} /\ cursor = 0 /\ seen = <<>>
    BY DEF Place
<1>3. call' \in {"unwind", "row", "begin"}
    BY <1>2
<1>4. CursorTypeOK' /\ Binding'
    BY <1>1, <1>3 DEF CursorTypeOK, Binding, Calls
<1>5. Place'
    <2>1. seen = SubSeq(answer, 1, 0)
        BY <1>0, <1>2, WholePrefix
    <2>2. threw' => call' = "unwind"
        BY <1>2
    <2>3. call' = "row" => use = "counted"
        BY <1>2
    <2>4. call' = "begin" => use = "list"
        BY <1>2
    <2> QED BY <1>2, <1>3, <2>1, <2>2, <2>3, <2>4 DEF Place, Single, Loops
<1>6. Iterating'
    BY <1>2 DEF Iterating, Loops
<1>7. Aligned' /\ RowsRead'
    <2>1. call' = "unwind" => answer = <<>>
        BY <1>2
    <2> QED BY <1>2, <1>3, <2>1 DEF Aligned, RowsRead, Wanted
<1> QED BY <1>1, <1>4, <1>5, <1>6, <1>7 DEF RowsExact

LEMMA StepRow == ASSUME CursorInv, Row PROVE CursorInv'
<1> USE DEF CursorInv, Row, caller, binding, iterators
<1>0. PICK S : answer \in Seq(S)
    BY AnswerIsSeq
<1>1. did_execute' /\ ExecutedOnce' /\ UNCHANGED failed
    BY Executes
<1>2. /\ use \in Single \cup Loops /\ seen = SubSeq(answer, 1, cursor)
      /\ use \in Single => cursor = 0
    BY DEF Place
<1>3. cursor \in Nat /\ Len(answer) \in Nat
    BY <1>0 DEF CursorTypeOK
<1>4. CursorTypeOK' /\ Binding'
    BY <1>1, <1>3 DEF CursorTypeOK, Binding, Calls
<1>5. CASE cursor + 1 > Len(answer)
    <2>1. threw' /\ call' = "unwind"
        BY <1>5
    <2>2. use \in Single /\ cursor = 0
        BY <1>2, <1>3, <1>5 DEF Iterating
    <2>3. answer = <<>>
        BY <1>0, <1>5, <2>2, EmptySeq
    <2>4. seen = <<>>
        BY <1>0, <1>2, <2>2, WholePrefix
    <2>5. Place' /\ Iterating' /\ Aligned' /\ RowsRead'
        BY <2>1, <2>2, <2>3, <2>4 DEF Place, Iterating, Aligned, RowsRead, Single
    <2> QED BY <1>1, <1>4, <2>5 DEF RowsExact
<1>6. CASE cursor + 1 <= Len(answer)
    <2>0. cursor' = cursor + 1 /\ ~(cursor + 1 > Len(answer))
        BY <1>3, <1>6
    <2>1. ~threw' /\ call' = "fields" /\ cursor' = cursor + 1
        BY <2>0
    <2>2. Place'
        BY <1>2, <1>3, <1>6, <2>1 DEF Place
    <2>3. Iterating'
        BY <1>1, <1>3, <2>1 DEF Iterating
    <2>4. Aligned' /\ RowsRead'
        BY <2>1 DEF Aligned, RowsRead
    <2> QED BY <1>1, <1>4, <2>2, <2>3, <2>4 DEF RowsExact
<1> QED BY <1>3, <1>5, <1>6

LEMMA StepReadFields == ASSUME CursorInv, ReadFields PROVE CursorInv'
<1> USE DEF CursorInv, ReadFields, caller, binding, execution, iterators
<1>0. PICK S : answer \in Seq(S)
    BY AnswerIsSeq
<1>1. /\ use \in Single \cup Loops /\ cursor \in 1..Len(answer)
      /\ seen = SubSeq(answer, 1, cursor - 1)
      /\ use \in Single => cursor = 1
    BY DEF Place
<1>2. seen' = SubSeq(answer, 1, cursor)
    BY <1>0, <1>1, PrefixGrows
<1>3. CursorTypeOK' /\ Binding'
    BY DEF CursorTypeOK, Binding, Calls
<1>4. call' = IF use \in Loops THEN "++" ELSE "unwind"
    BY DEF Loops
<1>5. ~threw
    BY DEF Place
<1>6. Place' /\ Iterating'
    BY <1>1, <1>2, <1>4, <1>5 DEF Place, Iterating, Single, Loops
<1>7. RowsExact'
    <2>1. use \notin Loops => seen' = Wanted'
        BY <1>1, <1>2 DEF Wanted, Single
    <2> QED BY <1>4, <1>5, <2>1 DEF RowsExact, ExecutedOnce, Aligned, RowsRead
<1> QED BY <1>3, <1>6, <1>7

LEMMA StepBeginLoop == ASSUME CursorInv, BeginLoop PROVE CursorInv'
<1> USE DEF CursorInv, BeginLoop, caller, binding
<1>0. PICK S : answer \in Seq(S)
    BY AnswerIsSeq
<1>1. did_execute' /\ ExecutedOnce' /\ UNCHANGED failed
    BY Executes
<1>2. use \in Loops /\ cursor = 0 /\ seen = <<>> /\ ~threw
    BY DEF Place
<1>3. CursorTypeOK' /\ Binding'
    BY <1>1 DEF CursorTypeOK, Binding, Calls
<1>4. Len(answer) \in Nat /\ (answer = <<>> <=> Len(answer) = 0)
    BY <1>0, EmptySeq
<1>5. Place' /\ Iterating'
    BY <1>1, <1>2, <1>4 DEF Place, Iterating
<1>6. Aligned' /\ RowsRead'
    <2>1. seen = SubSeq(answer, 1, 0)
        BY <1>0, <1>2, WholePrefix
    <2> QED BY <1>2, <1>4, <2>1 DEF Aligned, RowsRead
<1> QED BY <1>1, <1>3, <1>5, <1>6 DEF RowsExact

LEMMA StepTestLoop == ASSUME CursorInv, TestLoop PROVE CursorInv'
<1> USE DEF CursorInv, TestLoop, caller, binding, execution, iterators
<1>0. PICK S : answer \in Seq(S)
    BY AnswerIsSeq
<1>1. use \in Loops /\ cursor \in 0..Len(answer) /\ ~threw
    BY DEF Place
<1>2. seen = SubSeq(answer, 1, cursor)
    BY DEF RowsExact, Aligned
<1>3. /\ did_execute /\ last = [row_idx |-> Len(answer), at_end |-> TRUE]
      /\ it = [row_idx |-> cursor, at_end |-> cursor = Len(answer)]
    BY <1>1 DEF Iterating
<1>4. CursorTypeOK' /\ Binding'
    BY DEF CursorTypeOK, Binding, Calls
<1>5. CASE cursor = Len(answer)
    <2>1. it = last
        BY <1>3, <1>5
    <2>2. seen = answer
        BY <1>0, <1>2, <1>5, WholePrefix
    <2>3. Place' /\ Iterating'
        BY <2>1 DEF Place, Iterating
    <2>4. RowsExact'
        BY <1>1, <2>1, <2>2 DEF RowsExact, ExecutedOnce, Aligned, RowsRead, Wanted, Loops
    <2> QED BY <1>4, <2>3, <2>4
<1>6. CASE cursor # Len(answer)
    <2>1. it.at_end = FALSE /\ last.at_end = TRUE
        BY <1>3, <1>6
    <2>2. call' = "row" /\ cursor < Len(answer)
        BY <1>0, <1>1, <1>6, <2>1
    <2>3. Place' /\ Iterating'
        BY <1>1, <1>2, <1>3, <1>6, <2>2 DEF Place, Iterating, Loops, Single
    <2>4. RowsExact'
        BY <2>2 DEF RowsExact, ExecutedOnce, Aligned, RowsRead
    <2> QED BY <1>4, <2>3, <2>4
<1> QED BY <1>5, <1>6

LEMMA StepIncrement == ASSUME CursorInv, Increment PROVE CursorInv'
<1> USE DEF CursorInv, Increment, caller, binding, execution
<1>0. PICK S : answer \in Seq(S)
    BY AnswerIsSeq
<1>1. /\ use \in Loops /\ cursor \in 1..Len(answer) /\ ~threw
      /\ seen = SubSeq(answer, 1, cursor)
    BY DEF Place
<1>2. /\ did_execute /\ last = [row_idx |-> Len(answer), at_end |-> TRUE]
      /\ it = [row_idx |-> cursor - 1, at_end |-> FALSE]
    BY <1>1 DEF Iterating
<1>3. CursorTypeOK' /\ Binding'
    BY DEF CursorTypeOK, Binding, Calls
<1>4. it' = [row_idx |-> cursor, at_end |-> cursor = Len(answer)]
    BY <1>0, <1>1, <1>2
<1>5. Place' /\ Iterating'
    BY <1>1, <1>2, <1>4 DEF Place, Iterating
<1>6. RowsExact'
    BY <1>1, <1>4 DEF RowsExact, ExecutedOnce, Aligned, RowsRead
<1> QED BY <1>3, <1>5, <1>6

LEMMA StepDestroyQuery == ASSUME CursorInv, DestroyQuery PROVE CursorInv'
<1> USE DEF CursorInv, DestroyQuery, caller, binding, execution, iterators
<1>1. CursorTypeOK' /\ Binding'
    BY DEF CursorTypeOK, Binding, Calls
<1>2. Place' /\ Iterating'
    BY DEF Place, Iterating
<1>3. RowsExact'
    BY DEF RowsExact, ExecutedOnce, Aligned, RowsRead, Wanted
<1> QED BY <1>1, <1>2, <1>3

LEMMA InductiveCursorInv == CursorInv /\ [CursorNext]_cursorVars => CursorInv'
<1> SUFFICES ASSUME CursorInv, [CursorNext]_cursorVars PROVE CursorInv'
    OBVIOUS
<1>1. CASE UNCHANGED cursorVars
    <2> USE <1>1 DEF cursorVars, caller, binding, execution, iterators, CursorInv
    <2>1. CursorTypeOK' /\ Binding'
        BY DEF CursorTypeOK, Binding
    <2>2. Place' /\ Iterating'
        BY DEF Place, Iterating
    <2>3. RowsExact'
        BY DEF RowsExact, ExecutedOnce, Aligned, RowsRead, Wanted
    <2> QED BY <2>1, <2>2, <2>3
<1> QED
    BY <1>1, StepSetParam, StepPrepared, StepExecuteThrows, StepWrite, StepRowCount, StepRow,
       StepReadFields, StepBeginLoop, StepTestLoop, StepIncrement, StepDestroyQuery
       DEF CursorNext

-----------------------------------------------------------------------------

\* Every caller executes its statement once and reads the rows it wants once
\* and in order, whatever the query, its parameters and its result set.
THEOREM RowsOnceInOrder == CursorSpec => []RowsExact
<1>1. CursorInv => RowsExact
    BY DEF CursorInv
<1> QED BY <1>1, InitCursorInv, InductiveCursorInv, PTL DEF CursorSpec

=============================================================================
