----------------------------- MODULE ProcessLife -----------------------------
(***************************************************************************)
(* The life of the process: main, the signal handler, the stats client     *)
(* that the work threads share, and http_server as far as main waits for   *)
(* it.  What becomes of a connection is HttpServer's and HttpWorker's      *)
(* business; here a connection is a thread of work that uses the stats     *)
(* client some times.                                                      *)
(*                                                                         *)
(* The signal handler runs on any thread, between any two steps of the     *)
(* others, and its two stores are two steps.  signal() restarts system     *)
(* calls, so that accept does not return because of it.  A null pointer    *)
(* to the stats client ends the process; one that dangles, or a message    *)
(* buffer that was never set, may end it or do nothing that is noticed.    *)
(***************************************************************************)
EXTENDS Integers, FiniteSets

CONSTANTS
    Clients,     \* who connects, and again when they were served
    Uses,        \* how often the work on a connection uses the stats client
    Limit,       \* open connections the accept thread does not exceed
    MaxSignals   \* bound: signals during a run

ASSUME LifeAssumption ==
    /\ IsFiniteSet(Clients)
    /\ Uses \in Nat \ {0}
    /\ Limit \in Nat
    /\ MaxSignals \in Nat

VARIABLES
    main,            \* where main is, raw_accept included
    outcome,         \* "running", "exited" or "crashed"
    num_threads,     \* config()->num_threads, as far as it is 0 or not
    is_running,      \* the global flag main polls under
    server_running,  \* http_server::is_running
    handle_stop,     \* does the function object hold server.stop()
    handler,         \* what the signal handler does next
    signals,         \* how often it was called
    global_stats,    \* the pointer: "null" or "set"
    stats_object,    \* what it points to, "broken" without a message buffer
    left,            \* uses of stats() the work on a connection has left
    holds            \* has it fetched the pointer for the next one

flags == <<is_running, server_running>>
stopping == <<handle_stop, handler, signals>>
stats == <<global_stats, stats_object>>
work == <<left, holds>>
lifeVars == <<main, outcome, num_threads, flags, stopping, stats, work>>

LifeInit ==
    /\ main = "start"
    /\ outcome = "running"
    /\ num_threads \in {0, 1}
    /\ is_running = FALSE
    /\ server_running \in BOOLEAN  \* the constructor leaves it as it is
    /\ handle_stop = FALSE
    /\ handler = "none"
    /\ signals = 0
    /\ global_stats = "null"
    /\ stats_object = "none"
    /\ left = [c \in Clients |-> 0]
    /\ holds = [c \in Clients |-> FALSE]

\* main goes from one place to another; the process is still there.
MainGoes(from, to) == outcome = "running" /\ main = from /\ main' = to

-----------------------------------------------------------------------------
(* The signal handler. *)

\* SIGINT: before signal() it ends the process, then it runs sighandler.
Signal ==
    /\ outcome = "running"
    /\ signals < MaxSignals
    /\ handler = "none"
    /\ signals' = signals + 1
    /\ IF main \in {"start", "signal"}
       THEN outcome' = "exited" /\ UNCHANGED <<is_running, handler>>
       ELSE is_running' = FALSE /\ handler' = "stop" /\ UNCHANGED outcome
    /\ UNCHANGED <<main, num_threads, server_running, handle_stop, stats, work>>

\* Mutant: sighandler leaves it to main to stop the server.
HandleStopForgets ==
    /\ outcome = "running"
    /\ handler = "stop"
    /\ handler' = "none"
    /\ UNCHANGED <<main, outcome, num_threads, flags, handle_stop, signals, stats, work>>

\* handle_stop(): it throws while it is empty, and nobody catches.
HandleStop ==
    /\ outcome = "running"
    /\ handler = "stop"
    /\ handler' = "none"
    /\ IF handle_stop
       THEN server_running' = FALSE /\ UNCHANGED outcome
       ELSE outcome' = "crashed" /\ UNCHANGED server_running
    /\ UNCHANGED <<main, num_threads, is_running, handle_stop, signals, stats, work>>

-----------------------------------------------------------------------------
(* main before the server accepts. *)

SetRunning ==
    /\ MainGoes("start", "signal")
    /\ is_running' = TRUE
    /\ UNCHANGED <<outcome, num_threads, server_running, stopping, stats, work>>

InstallHandler ==
    /\ MainGoes("signal", "config")
    /\ UNCHANGED <<outcome, num_threads, flags, stopping, stats, work>>

LoadConfig ==
    /\ MainGoes("config", "setup_stats")
    /\ UNCHANGED <<outcome, num_threads, flags, stopping, stats, work>>

\* No file, no JSON, a value of the wrong type or no database: nothing catches
\* the exception, and LOG(FATAL) aborts.
LoadConfigFails ==
    /\ outcome = "running"
    /\ main = "config"
    /\ outcome' = "crashed"
    /\ UNCHANGED <<main, num_threads, flags, stopping, stats, work>>

\* The constructor of stats_client returns early when it finds no address or
\* gets no socket: message stays unset, and main goes on.
SetupStats ==
    /\ MainGoes("setup_stats", "handle_stop")
    /\ global_stats' = "set"
    /\ stats_object' \in {"ready", "broken"}
    /\ UNCHANGED <<outcome, num_threads, flags, stopping, work>>

AssignHandleStop ==
    /\ MainGoes("handle_stop", "start_server")
    /\ handle_stop' = TRUE
    /\ UNCHANGED <<outcome, num_threads, flags, handler, signals, stats, work>>

\* http_server::start: a stop that came before is overwritten.
StartServer ==
    /\ MainGoes("start_server", "listen")
    /\ server_running' = TRUE
    /\ UNCHANGED <<outcome, num_threads, is_running, stopping, stats, work>>

Listen ==
    /\ MainGoes("listen", "check")
    /\ UNCHANGED <<outcome, num_threads, flags, stopping, stats, work>>

\* raw_accept returns when it gets no socket, cannot bind or cannot listen;
\* it ends the process when it cannot set the socket's options.
ListenFails ==
    /\ \/ MainGoes("listen", "poll") /\ UNCHANGED outcome
       \/ main = "listen" /\ outcome = "running" /\ outcome' = "exited" /\ UNCHANGED main
    /\ UNCHANGED <<num_threads, flags, stopping, stats, work>>

-----------------------------------------------------------------------------
(* raw_accept. *)

Open == {c \in Clients : left[c] > 0}

\* while (is_running), and the limit, above which it sleeps and looks again.
AcceptCheck ==
    /\ IF server_running
       THEN Cardinality(Open) <= Limit /\ MainGoes("check", "accept")
       ELSE MainGoes("check", "poll")
    /\ UNCHANGED <<outcome, num_threads, flags, stopping, stats, work>>

\* accept returns with a client, who goes to a work thread if there is one;
\* if there is none raw_accept returns.
AcceptClient(c) ==
    /\ c \notin Open
    /\ IF num_threads > 0
       THEN MainGoes("accept", "check") /\ left' = [left EXCEPT ![c] = Uses]
       ELSE MainGoes("accept", "poll") /\ UNCHANGED left
    /\ UNCHANGED <<outcome, num_threads, flags, stopping, stats, holds>>

\* accept fails: for lack of descriptors it is tried again, any other error
\* ends raw_accept.
AcceptFails ==
    /\ MainGoes("accept", "check") \/ MainGoes("accept", "poll")
    /\ UNCHANGED <<outcome, num_threads, flags, stopping, stats, work>>

-----------------------------------------------------------------------------
(* main after the server has stopped accepting. *)

\* Mutant: main does not wait for the signal once start() has returned.
PollOnce ==
    /\ MainGoes("poll", "delete")
    /\ UNCHANGED <<outcome, num_threads, flags, stopping, stats, work>>

\* while (is_running) server.poll(), of an io_context without any work.
Poll ==
    /\ ~is_running
    /\ MainGoes("poll", "delete")
    /\ UNCHANGED <<outcome, num_threads, flags, stopping, stats, work>>

\* free_stats deletes the client.  The destructor deletes message, set or not.
DeleteStats ==
    /\ stats_object' = "deleted"
    /\ \/ MainGoes("delete", "forget") /\ UNCHANGED outcome
       \/ /\ outcome = "running"
          /\ main = "delete"
          /\ stats_object = "broken"
          /\ outcome' = "crashed"
          /\ UNCHANGED main
    /\ UNCHANGED <<num_threads, flags, stopping, global_stats, work>>

ForgetStats ==
    /\ MainGoes("forget", "return")
    /\ global_stats' = "null"
    /\ UNCHANGED <<outcome, num_threads, flags, stopping, stats_object, work>>

\* main returns.  The work threads own the vector they are in, so nothing
\* joins them.
Return ==
    /\ outcome = "running"
    /\ main = "return"
    /\ outcome' = "exited"
    /\ UNCHANGED <<main, num_threads, flags, stopping, stats, work>>

-----------------------------------------------------------------------------
(* The work threads. *)

\* stats(), and the null pointer's first use.
FetchStats(c) ==
    /\ outcome = "running"
    /\ left[c] > 0
    /\ ~holds[c]
    /\ IF global_stats = "null"
       THEN outcome' = "crashed" /\ UNCHANGED holds
       ELSE holds' = [holds EXCEPT ![c] = TRUE] /\ UNCHANGED outcome
    /\ UNCHANGED <<main, num_threads, flags, stopping, stats, left>>

\* stats_client::send formats into message and sends it.
SendStat(c) ==
    /\ outcome = "running"
    /\ holds[c]
    /\ \/ /\ holds' = [holds EXCEPT ![c] = FALSE]
          /\ left' = [left EXCEPT ![c] = @ - 1]
          /\ UNCHANGED outcome
       \/ /\ stats_object # "ready"
          /\ outcome' = "crashed"
          /\ UNCHANGED work
    /\ UNCHANGED <<main, num_threads, flags, stopping, stats>>

-----------------------------------------------------------------------------

StartUp == SetRunning \/ InstallHandler \/ LoadConfig \/ SetupStats \/ AssignHandleStop
           \/ StartServer \/ Listen

Accepting == AcceptCheck \/ \E c \in Clients : AcceptClient(c)

ShutDown == Poll \/ DeleteStats \/ ForgetStats \/ Return

Serve(c) == FetchStats(c) \/ SendStat(c)

LifeNext ==
    \/ Signal \/ HandleStop
    \/ StartUp \/ LoadConfigFails \/ ListenFails
    \/ Accepting \/ AcceptFails
    \/ ShutDown
    \/ \E c \in Clients : Serve(c)

\* Every thread runs; clients keep connecting and do not stall.
LifeFairness ==
    /\ WF_lifeVars(HandleStop)
    /\ WF_lifeVars(StartUp)
    /\ WF_lifeVars(Accepting)
    /\ WF_lifeVars(ShutDown)
    /\ \A c \in Clients : WF_lifeVars(Serve(c))

LifeSpec == LifeInit /\ [][LifeNext]_lifeVars /\ LifeFairness

-----------------------------------------------------------------------------

\* http_server::start has set its flag, and main has not returned.
Started == main \in {"listen", "check", "accept", "poll", "delete", "forget", "return"}

\* A SIGINT that comes after start() has set its flag ends the process, in
\* whatever place of raw_accept or of main's loop it finds main, and also when
\* accept has failed for good before: two flags have to be cleared for it.
StopEndsProcess == handler = "stop" /\ Started ~> outcome # "running"

\* With a good configuration and a stats client that could be set up, no thread
\* uses the stats client before it is there or after it is gone, and no signal
\* finds handle_stop empty, but at the two ends: a signal before main has set
\* handle_stop, and connections that are still served after main's loop.
CrashOnlyAtEdges ==
    outcome = "crashed" =>
        \/ main = "config"
        \/ stats_object = "broken"
        \/ signals > 0 /\ ~is_running /\ (~handle_stop \/ main \in {"delete", "forget", "return"})
=============================================================================
