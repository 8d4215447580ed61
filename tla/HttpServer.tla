----------------------------- MODULE HttpServer -----------------------------
(***************************************************************************)
(* The accept thread and the work threads of the HTTP server:              *)
(* http_server::raw_accept, http_work_thread and the part of http_worker   *)
(* and http_connection that decides who owns a connection.                 *)
(*                                                                         *)
(* One accept thread takes sockets from the kernel and pushes them on the  *)
(* queue of the least loaded work thread.  Each work thread runs a         *)
(* single-threaded io_context: a 1 ms timer calls accept_loop, which takes *)
(* one connection from the thread's own queue or, if it is empty, from the *)
(* queue of the most loaded thread; the completion handlers of the         *)
(* thread's workers run between two ticks.  Work threads share the queues, *)
(* the atomic counter open_connections and, without synchronisation, the   *)
(* busy flags that load_factor reads.                                      *)
(*                                                                         *)
(* A connection is its accepted socket.  What http_worker does between the *)
(* completed read and the write (routing, authentication, the handler)     *)
(* runs inside one completion handler and touches nothing of this module.  *)
(***************************************************************************)
EXTENDS Integers, Sequences, FiniteSets

CONSTANTS
    Conns,       \* the sockets clients open during a run
    NoConn,      \* a null shared_ptr<http_connection>
    NumThreads,  \* config()->num_threads
    NumWorkers,  \* config()->num_workers, the workers of one thread
    MaxOpen      \* the literal 800 of raw_accept

ASSUME ConstantsAssumption ==
    /\ NumThreads \in Nat \ {0}
    /\ NumWorkers \in Nat \ {0}
    /\ MaxOpen \in Nat
    /\ IsFiniteSet(Conns)
    /\ NoConn \notin Conns

Threads == 1..NumThreads
Workers == 1..NumWorkers

\* A worker is named by its thread and its index in the thread's vector.
Slots == Threads \X Workers

\* num_workers as it is initialised, before thread_runner reads the config.
DefaultWorkers == 4

VARIABLES
    running,    \* http_server::is_running, cleared by the signal handler
    unseen,     \* sockets the accept thread has not accepted yet
    apc,        \* where the accept thread is in raw_accept
    asock,      \* the socket raw_accept holds before a connection owns it
    aref,       \* the reference enqueue's parameter keeps until it returns
    ascan,      \* its scan over the threads: next index, choice, least load
    up,         \* has thread_runner of the thread built its workers
    tpc,        \* where the thread is in accept_loop / dequeue
    tscan,      \* its scan for a victim: next index, choice, greatest load
    queue,      \* http_work_thread::_queue
    held,       \* *http_work_thread::conn, what the thread dequeued last
    wconn,      \* http_worker::conn
    phase,      \* the asynchronous operation the worker waits for
    alive,      \* the http_connection objects that exist
    openConns,  \* open_connections, counted by constructor and destructor
    fds         \* the accepted descriptors that are open

acceptVars == <<unseen, apc, asock, aref, ascan>>
threadVars == <<up, tpc, tscan>>
connVars   == <<queue, held, wconn, phase, alive, openConns, fds>>
vars       == <<running, acceptVars, threadVars, connVars>>

-----------------------------------------------------------------------------
(* Who refers to a connection. *)

Queued(t)  == {queue[t][i] : i \in 1..Len(queue[t])}
AllQueued  == UNION {Queued(t) : t \in Threads}
Served     == {wconn[s] : s \in Slots} \ {NoConn}
Retained   == {held[t] : t \in Threads} \ {NoConn}
Passing    == {aref} \ {NoConn}

\* http_worker::has_finished; http_worker::is_running is its negation, since
\* a worker that has not finished has started.
Finished(t, w) == phase[<<t, w>>] = "idle"

\* load_factor of a thread times DefaultWorkers * NumWorkers, which makes it
\* an integer.  thread_runner sets num_workers and grows the vector of workers
\* without a lock while the others may read both: until it is done a reader
\* divides by the old or by the new value and finds any workers running.
\* load_factor adds up the queue's length and one flag per worker, which the
\* thread may change meanwhile: here the sum is read at one moment.
Busy(t) == Cardinality({w \in Workers : ~Finished(t, w)})
Load(t) == (Len(queue[t]) + Busy(t)) * DefaultWorkers
Readings(t) ==
    IF up[t] THEN {Load(t)}
             ELSE {(Len(queue[t]) + b) * k : b \in 0..NumWorkers, k \in {DefaultWorkers, NumWorkers}}

\* thread_load < 0.2
Light(load) == 5 * load < DefaultWorkers * NumWorkers

AScanStart == [i |-> 1, tt |-> 0, load |-> -1]
TScanStart == [i |-> 1, tt |-> 0, load |-> -1]

InitWith(started) ==
    /\ running = TRUE
    /\ unseen = Conns
    /\ apc = "check"
    /\ asock = NoConn
    /\ aref = NoConn
    /\ ascan = AScanStart
    /\ up = [t \in Threads |-> started]
    /\ tpc = [t \in Threads |-> "loop"]
    /\ tscan = [t \in Threads |-> TScanStart]
    /\ queue = [t \in Threads |-> <<>>]
    /\ held = [t \in Threads |-> NoConn]
    /\ wconn = [s \in Slots |-> NoConn]
    /\ phase = [s \in Slots |-> "idle"]
    /\ alive = {}
    /\ openConns = 0
    /\ fds = {}

Init == InitWith(FALSE)

-----------------------------------------------------------------------------
(* The accept thread. *)

\* SIGINT: the handler calls http_server::stop.
Stop ==
    /\ running
    /\ running' = FALSE
    /\ UNCHANGED <<acceptVars, threadVars, connVars>>

\* Mutant: the limit is off by one.
AcceptCheckOffByOne ==
    /\ apc = "check"
    /\ \/ ~running /\ apc' = "returned"
       \/ running /\ openConns <= MaxOpen + 1 /\ apc' = "accept"
    /\ UNCHANGED <<running, unseen, asock, aref, ascan, threadVars, connVars>>

\* Mutant: the wait for the limit is inside the loop, not its condition.
AcceptCheckLimitFirst ==
    /\ apc = "check"
    /\ openConns <= MaxOpen
    /\ apc' = IF running THEN "accept" ELSE "returned"
    /\ UNCHANGED <<running, unseen, asock, aref, ascan, threadVars, connVars>>

\* The head of the accept loop.  While the limit is exceeded the thread
\* sleeps a millisecond and looks again, which changes nothing.
AcceptCheck ==
    /\ apc = "check"
    /\ \/ ~running /\ apc' = "returned"
       \/ running /\ openConns <= MaxOpen /\ apc' = "accept"
    /\ UNCHANGED <<running, unseen, asock, aref, ascan, threadVars, connVars>>

\* ::accept returns a socket.
Accept(c) ==
    /\ apc = "accept"
    /\ c \in unseen
    /\ unseen' = unseen \ {c}
    /\ asock' = c
    /\ fds' = fds \cup {c}
    /\ apc' = "scan"
    /\ ascan' = AScanStart
    /\ UNCHANGED <<running, aref, threadVars, queue, held, wconn, phase, alive, openConns>>

\* ::accept fails: with EMFILE or ENFILE the loop goes on, with any other
\* error raw_accept returns and nobody accepts again.
AcceptError ==
    /\ apc = "accept"
    /\ apc' \in {"check", "returned"}
    /\ UNCHANGED <<running, unseen, asock, aref, ascan, threadVars, connVars>>

\* One iteration of the loop that looks for the least loaded thread.
AcceptScan ==
    /\ apc = "scan"
    /\ \E load \in Readings(ascan.i) :
          LET i    == ascan.i
              less == load < ascan.load \/ ascan.load < 0
          IN  /\ ascan' = [i    |-> i + 1,
                           tt   |-> IF Light(load) \/ less \/ ascan.tt = 0 THEN i ELSE ascan.tt,
                           load |-> IF ~Light(load) /\ less THEN load ELSE ascan.load]
              /\ apc' = IF Light(load) \/ i = NumThreads THEN "enqueue" ELSE "scan"
    /\ UNCHANGED <<running, unseen, asock, aref, threadVars, connVars>>

\* make_shared<http_connection>, whose constructor counts, and the push of
\* http_work_thread::enqueue, which copies its parameter into the queue.
Enqueue ==
    /\ apc = "enqueue"
    /\ alive' = alive \cup {asock}
    /\ openConns' = openConns + 1
    /\ queue' = [queue EXCEPT ![ascan.tt] = Append(@, asock)]
    /\ asock' = NoConn
    /\ aref' = asock
    /\ ascan' = AScanStart
    /\ apc' = "pushed"
    /\ UNCHANGED <<running, unseen, threadVars, held, wconn, phase, fds>>

\* The references of cs go away: ~http_connection where they were the last.
Destroy(cs) ==
    /\ alive' = alive \ cs
    /\ openConns' = openConns - Cardinality(cs)

\* enqueue returns.  The connection may have been served and dropped by the
\* work threads in the meantime; then its destructor runs here.
EnqueueReturns ==
    /\ apc = "pushed"
    /\ Destroy({aref} \ (AllQueued \cup Served \cup Retained))
    /\ aref' = NoConn
    /\ apc' = "check"
    /\ UNCHANGED <<running, unseen, asock, ascan, threadVars, queue, held, wconn, phase, fds>>

-----------------------------------------------------------------------------
(* A work thread. *)

\* thread_runner builds the workers and enters accept_loop.
ThreadRunner(t) ==
    /\ ~up[t]
    /\ up' = [up EXCEPT ![t] = TRUE]
    /\ UNCHANGED <<running, acceptVars, tpc, tscan, connVars>>

\* Mutant: only the first worker of the vector is looked at.
FreeWorkersFrontOnly(t) == {w \in {1} : Finished(t, w)}

\* The workers of the thread that have finished.
FreeWorkers(t) == {w \in Workers : Finished(t, w)}

\* http_worker::start on the first of them; with none nothing is started.  That
\* socket->assign refuses the descriptor and throws is left out.
StartWorker(t, c) ==
    \/ \E w \in FreeWorkers(t) :
          /\ \A x \in FreeWorkers(t) : w <= x
          /\ wconn' = [wconn EXCEPT ![<<t, w>>] = c]
          /\ phase' = [phase EXCEPT ![<<t, w>>] = "reading"]
    \/ FreeWorkers(t) = {} /\ UNCHANGED <<wconn, phase>>

\* Mutant: the queue is read without being popped.
DispatchPeeks(t, v) ==
    /\ held' = [held EXCEPT ![t] = Head(queue[v])]
    /\ Destroy({held[t]} \ (Served \cup Passing \cup {NoConn}))
    /\ StartWorker(t, Head(queue[v]))
    /\ UNCHANGED <<queue, fds>>

\* Mutant: overwriting *conn does not drop the reference it held.
DispatchLeaks(t, v) ==
    /\ queue' = [queue EXCEPT ![v] = Tail(@)]
    /\ held' = [held EXCEPT ![t] = Head(queue[v])]
    /\ StartWorker(t, Head(queue[v]))
    /\ UNCHANGED <<alive, openConns, fds>>

\* A successful try_dequeue from v's queue and what dequeue does with it.
\* The assignment to *conn drops the thread's reference to the connection
\* it dequeued before.  With no finished worker the new one is not started,
\* and *conn is the only reference left.
Dispatch(t, v) ==
    /\ queue' = [queue EXCEPT ![v] = Tail(@)]
    /\ held' = [held EXCEPT ![t] = Head(queue[v])]
    /\ Destroy({held[t]} \ (Served \cup Passing \cup {NoConn}))
    /\ StartWorker(t, Head(queue[v]))
    /\ UNCHANGED fds

\* accept_loop: the thread's own queue has a connection.
DequeueOwn(t) ==
    /\ up[t]
    /\ tpc[t] = "loop"
    /\ queue[t] # <<>>
    /\ Dispatch(t, t)
    /\ UNCHANGED <<running, acceptVars, threadVars>>

\* accept_loop: the own queue is empty, look for a victim.
DequeueMiss(t) ==
    /\ up[t]
    /\ tpc[t] = "loop"
    /\ queue[t] = <<>>
    /\ tpc' = [tpc EXCEPT ![t] = "scan"]
    /\ UNCHANGED <<running, acceptVars, up, tscan, connVars>>

\* One iteration of the loop that looks for the most loaded thread, the
\* thread itself included.
StealScan(t) ==
    /\ tpc[t] = "scan"
    /\ \E load \in Readings(tscan[t].i) :
          LET i    == tscan[t].i
              more == load > tscan[t].load
          IN  /\ tscan' = [tscan EXCEPT ![t] =
                              [i    |-> i + 1,
                               tt   |-> IF more THEN i ELSE @.tt,
                               load |-> IF more THEN load ELSE @.load]]
              /\ tpc' = [tpc EXCEPT ![t] = IF i = NumThreads THEN "steal" ELSE "scan"]
    /\ UNCHANGED <<running, acceptVars, up, connVars>>

\* Mutant: a failed steal returns from accept_loop, the timer is not armed again.
StealNoRearm(t) ==
    LET v == tscan[t].tt
    IN  /\ tpc[t] = "steal"
        /\ IF queue[v] # <<>> THEN Dispatch(t, v) ELSE UNCHANGED connVars
        /\ tpc' = [tpc EXCEPT ![t] = IF queue[v] # <<>> THEN "loop" ELSE "asleep"]
        /\ tscan' = [tscan EXCEPT ![t] = TScanStart]
        /\ UNCHANGED <<running, acceptVars, up>>

\* try_dequeue from the victim, whose queue may be empty by now.
Steal(t) ==
    LET v == tscan[t].tt
    IN  /\ tpc[t] = "steal"
        /\ IF queue[v] # <<>> THEN Dispatch(t, v) ELSE UNCHANGED connVars
        /\ tpc' = [tpc EXCEPT ![t] = "loop"]
        /\ tscan' = [tscan EXCEPT ![t] = TScanStart]
        /\ UNCHANGED <<running, acceptVars, up>>

-----------------------------------------------------------------------------
(* A worker.  Its handlers run on its thread, between two ticks. *)

\* Mutant: the connection is counted down although *conn still refers to it.
CloseSocketCountsTwice(t, w) ==
    LET c == wconn[<<t, w>>]
    IN  /\ fds' = fds \ {c}
        /\ wconn' = [wconn EXCEPT ![<<t, w>>] = NoConn]
        /\ phase' = [phase EXCEPT ![<<t, w>>] = "idle"]
        /\ Destroy({c})
        /\ UNCHANGED <<queue, held>>

\* Mutant: conn.reset() is missing, the worker keeps its reference.
CloseSocketKeepsConn(t, w) ==
    /\ fds' = fds \ {wconn[<<t, w>>]}
    /\ phase' = [phase EXCEPT ![<<t, w>>] = "idle"]
    /\ UNCHANGED <<queue, held, wconn, alive, openConns>>

\* http_worker::close_socket: the descriptor is closed, the worker has
\* finished and gives up its reference.
CloseSocket(t, w) ==
    LET c == wconn[<<t, w>>]
    IN  /\ fds' = fds \ {c}
        /\ wconn' = [wconn EXCEPT ![<<t, w>>] = NoConn]
        /\ phase' = [phase EXCEPT ![<<t, w>>] = "idle"]
        /\ Destroy({c} \ ({held[t]} \cup Passing))
        /\ UNCHANGED <<queue, held>>

\* read_handler: a request was read, is processed and the answer's write begins.
ReadOk(t, w) ==
    /\ tpc[t] = "loop"
    /\ phase[<<t, w>>] = "reading"
    /\ phase' = [phase EXCEPT ![<<t, w>>] = "writing"]
    /\ UNCHANGED <<running, acceptVars, threadVars, queue, held, wconn, alive, openConns, fds>>

\* Mutant: after a read error the worker closes and still answers.
ReadErrorGoesOn(t, w) ==
    /\ tpc[t] = "loop"
    /\ phase[<<t, w>>] = "reading"
    /\ fds' = fds \ {wconn[<<t, w>>]}
    /\ phase' = [phase EXCEPT ![<<t, w>>] = "writing"]
    /\ UNCHANGED <<running, acceptVars, threadVars, queue, held, wconn, alive, openConns>>

\* read_handler with an error: no answer.
ReadError(t, w) ==
    /\ tpc[t] = "loop"
    /\ phase[<<t, w>>] = "reading"
    /\ CloseSocket(t, w)
    /\ UNCHANGED <<running, acceptVars, threadVars>>

\* write_handler, with an error or without.
WriteHandler(t, w) ==
    /\ tpc[t] = "loop"
    /\ phase[<<t, w>>] = "writing"
    /\ CloseSocket(t, w)
    /\ UNCHANGED <<running, acceptVars, threadVars>>

-----------------------------------------------------------------------------

AcceptorStep == AcceptCheck \/ AcceptScan \/ Enqueue \/ EnqueueReturns

Tick(t) == DequeueOwn(t) \/ DequeueMiss(t) \/ StealScan(t) \/ Steal(t)

Handler(t, w) == ReadOk(t, w) \/ ReadError(t, w) \/ WriteHandler(t, w)

Next ==
    \/ Stop
    \/ AcceptorStep
    \/ \E c \in Conns : Accept(c)
    \/ AcceptError
    \/ \E t \in Threads : ThreadRunner(t) \/ Tick(t)
    \/ \E t \in Threads, w \in Workers : Handler(t, w)

Spec == Init /\ [][Next]_vars

\* The operating system schedules every thread: the accept thread goes on
\* unless it waits for a client or for the limit, and every work thread starts and ticks.
ThreadFairness ==
    /\ WF_vars(AcceptorStep)
    /\ \A t \in Threads : WF_vars(ThreadRunner(t)) /\ WF_vars(Tick(t))

\* The io_context runs ready handlers in the order they became ready, so one
\* that is ready again and again between ticks is run.
\* That the handler becomes ready at all is up to the client: it must send a
\* request or break the connection, and take the answer or break it.
ClientFairness == \A t \in Threads, w \in Workers : SF_vars(Handler(t, w))

FairSpec == Spec /\ ThreadFairness

\* With clients that do not stall, from the moment every thread has started
\* and before anything was accepted: connections may still pile up in the
\* queue of a thread that does not tick, as they do before it starts.
ClientSpec == InitWith(TRUE) /\ [][Next]_vars /\ ThreadFairness /\ ClientFairness

-----------------------------------------------------------------------------
(* Safety. *)

\* Every variable has the type its C++ counterpart has; open_connections is
\* never negative although two kinds of owners destroy connections.
TypeOK ==
    /\ running \in BOOLEAN
    /\ unseen \in SUBSET Conns
    /\ apc \in {"check", "accept", "scan", "enqueue", "pushed", "returned"}
    /\ asock \in Conns \cup {NoConn}
    /\ aref \in Conns \cup {NoConn}
    /\ ascan \in [i : 1..NumThreads + 1, tt : 0..NumThreads, load : Int]
    /\ up \in [Threads -> BOOLEAN]
    /\ tpc \in [Threads -> {"loop", "scan", "steal"}]
    /\ tscan \in [Threads -> [i : 1..NumThreads + 1, tt : 0..NumThreads, load : Int]]
    /\ queue \in [Threads -> Seq(Conns)]
    /\ held \in [Threads -> Conns \cup {NoConn}]
    /\ wconn \in [Slots -> Conns \cup {NoConn}]
    /\ phase \in [Slots -> {"idle", "reading", "writing"}]
    /\ alive \in SUBSET Conns
    /\ openConns \in Nat
    /\ fds \in SUBSET Conns

\* Queueing, work stealing and dispatch never duplicate a connection: it is
\* in one position of one queue or with one worker, never with two workers
\* and never queued while a thread already has it.
OneOwner ==
    /\ \A t, u \in Threads : \A i \in 1..Len(queue[t]), j \in 1..Len(queue[u]) :
          queue[t][i] = queue[u][j] => t = u /\ i = j
    /\ \A s, r \in Slots : wconn[s] = wconn[r] /\ wconn[s] # NoConn => s = r
    /\ AllQueued \cap (Served \cup Retained) = {}

\* open_connections, kept by constructors and destructors on several threads,
\* is the number of connections that a queue, a worker, a thread's *conn or
\* enqueue's parameter still refers to; destructors run at the last reference and only there.
CountExact ==
    /\ alive = AllQueued \cup Served \cup Retained \cup Passing
    /\ openConns = Cardinality(alive)

\* raw_accept tests open_connections before it blocks in ::accept and counts
\* the new connection only after its scan; still at most MaxOpen + 1
\* connections exist at a time.
WithinLimit == openConns <= MaxOpen + 1

\* A queued connection and one whose worker waits for an asynchronous
\* operation are not destroyed and their descriptor is open: close_socket
\* runs once per connection, and nothing is read or written after it.
SocketUsable == AllQueued \cup Served \subseteq alive \cap fds

\* The thread's *conn keeps a closed connection counted until the next
\* successful try_dequeue.  When raw_accept tests open_connections, at most
\* one connection per thread is counted without being queued or served, so
\* that the limit leaves MaxOpen + 1 - NumThreads connections to clients.
RetentionBound ==
    apc = "check" => Cardinality(alive \ (AllQueued \cup Served)) <= NumThreads

\* The open sockets that nobody will serve and nobody will close: dequeue
\* took them from a queue when every worker of the thread was busy.
Lost == fds \ (AllQueued \cup Served \cup {asock})

\* With more workers per thread than connections admitted beyond the first,
\* dequeue always finds a finished worker and no connection is lost.
NothingLost == NumWorkers > MaxOpen => Lost = {}

\* ~http_connection: DLOG_IF(ERROR,!safe_to_destruct) << "HTTP Connection
\* closed improperly".  A connection is destroyed only after close() has
\* closed its socket.
ClosedProperly == fds \subseteq alive \cup {asock}

-----------------------------------------------------------------------------
(* Liveness. *)

\* Every connection that was enqueued is taken from its queue, by its thread
\* or by one that steals it, whatever the clients do.
QueueDrains == \A c \in Conns : c \in AllQueued ~> c \notin AllQueued

\* After stop() raw_accept returns or is blocked in ::accept: no other wait,
\* not even for open_connections to fall below the limit, can hold it.
StopNoticed == ~running ~> apc \in {"accept", "returned"}

\* If clients do not stall, the wait for open_connections to fall ends,
\* although idle threads keep closed connections counted.
AcceptorUnblocks == NumThreads <= MaxOpen => (apc = "check" ~> apc # "check")

\* If clients do not stall, every accepted socket is closed in the end, or it
\* is one of those that dequeue has lost.
EverySocketCloses ==
    ClientFairness => \A c \in Conns : c \in fds ~> c \notin fds \/ c \in Lost
=============================================================================
