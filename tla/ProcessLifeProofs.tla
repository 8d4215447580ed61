-------------------------- MODULE ProcessLifeProofs --------------------------
(***************************************************************************)
(* CrashOnlyAtEdges for any number of clients, uses of the stats client    *)
(* and signals.  The invariant relates the place of main to the life of    *)
(* the stats client, to the flags and to the connections that are served.  *)
(***************************************************************************)
EXTENDS ProcessLife, TLAPS

-----------------------------------------------------------------------------
(* The inductive invariant. *)

AfterLoop == {"delete", "forget", "return"}
Serving == {"check", "accept", "poll"} \cup AfterLoop
Stoppable == {"start_server", "listen"} \cup Serving
Places == {"start", "signal", "config", "setup_stats", "handle_stop"} \cup Stoppable

LifeTypeOK ==
    /\ main \in Places
    /\ outcome \in {"running", "exited", "crashed"}
    /\ is_running \in BOOLEAN
    /\ handle_stop \in BOOLEAN
    /\ handler \in {"none", "stop"}
    /\ signals \in Nat
    /\ global_stats \in {"null", "set"}
    /\ stats_object \in {"none", "ready", "broken", "deleted"}
    /\ left \in [Clients -> Nat]
    /\ holds \in [Clients -> BOOLEAN]

\* The stats client is there from setup_stats to free_stats.
StatsLife ==
    /\ main \in {"handle_stop"} \cup (Stoppable \ {"return"}) => global_stats = "set"
    /\ main \in {"handle_stop"} \cup (Stoppable \ AfterLoop) =>
           stats_object \in {"ready", "broken"}

\* What main's flag and the function object say of the place of main; the loop
\* is left, and the function called, by a signal only.
Stopping ==
    /\ handle_stop <=> main \in Stoppable
    /\ main # "start" /\ ~is_running => signals > 0
    /\ handler = "stop" => signals > 0 /\ ~is_running /\ main \notin {"start", "signal"}
    /\ main \in AfterLoop => ~is_running

\* Connections are served after the server has begun to accept.
Connected ==
    /\ \A c \in Clients : left[c] > 0 => main \in Serving
    /\ \A c \in Clients : holds[c] => left[c] > 0

IInv == LifeTypeOK /\ StatsLife /\ Stopping /\ Connected /\ CrashOnlyAtEdges

-----------------------------------------------------------------------------

LEMMA InitIInv == LifeInit => IInv
<1> SUFFICES ASSUME LifeInit PROVE IInv
    OBVIOUS
<1>1. LifeTypeOK
    BY DEF LifeInit, LifeTypeOK, Places
<1>2. StatsLife /\ Stopping
    BY DEF LifeInit, StatsLife, Stopping, Stoppable, Serving, AfterLoop
<1>3. Connected /\ CrashOnlyAtEdges
    BY DEF LifeInit, Connected, CrashOnlyAtEdges
<1> QED BY <1>1, <1>2, <1>3 DEF IInv

LEMMA StepSignal == ASSUME IInv, Signal PROVE IInv'
<1> USE DEF IInv, Signal, stats, work
<1>1. LifeTypeOK'
    <2>1. is_running' \in BOOLEAN
        BY DEF LifeTypeOK
    <2>2. outcome' \in {"running", "exited", "crashed"} /\ handler' \in {"none", "stop"}
        BY DEF LifeTypeOK
    <2>3. signals' \in Nat
        BY DEF LifeTypeOK
    <2> QED BY <2>1, <2>2, <2>3 DEF LifeTypeOK
<1>2. StatsLife' /\ Connected'
    BY DEF StatsLife, Connected
<1>3. Stopping'
    BY DEF Stopping, LifeTypeOK, Stoppable, Serving, AfterLoop
<1>4. CrashOnlyAtEdges'
    BY DEF CrashOnlyAtEdges
<1> QED BY <1>1, <1>2, <1>3, <1>4

LEMMA StepHandleStop == ASSUME IInv, HandleStop PROVE IInv'
<1> USE DEF IInv, HandleStop, stats, work
<1>1. LifeTypeOK'
    BY DEF LifeTypeOK
<1>2. StatsLife' /\ Connected' /\ Stopping'
    BY DEF StatsLife, Connected, Stopping
<1>3. CrashOnlyAtEdges'
    BY DEF CrashOnlyAtEdges, Stopping
<1> QED BY <1>1, <1>2, <1>3

LEMMA StepStartUp == ASSUME IInv, StartUp PROVE IInv'
<1> USE DEF IInv, MainGoes, stats, work, flags, stopping
<1>1. outcome = "running" /\ UNCHANGED <<outcome, left, holds>>
    BY DEF StartUp, SetRunning, InstallHandler, LoadConfig, SetupStats, AssignHandleStop,
           StartServer, Listen
<1>2. CrashOnlyAtEdges'
    BY <1>1 DEF CrashOnlyAtEdges
<1>3. main \notin Serving /\ main' \in Places
    BY DEF StartUp, SetRunning, InstallHandler, LoadConfig, SetupStats, AssignHandleStop,
           StartServer, Listen, Serving, AfterLoop, Stoppable, Places
<1>4. LifeTypeOK'
    BY <1>1, <1>3 DEF LifeTypeOK, StartUp, SetRunning, InstallHandler, LoadConfig, SetupStats,
           AssignHandleStop, StartServer, Listen
<1>5. Connected'
    BY <1>1, <1>3 DEF Connected
<1>6. StatsLife'
    BY DEF StatsLife, StartUp, SetRunning, InstallHandler, LoadConfig, SetupStats,
           AssignHandleStop, StartServer, Listen, Stoppable, Serving, AfterLoop
<1>7. Stopping'
    BY DEF Stopping, StartUp, SetRunning, InstallHandler, LoadConfig, SetupStats,
           AssignHandleStop, StartServer, Listen, Stoppable, Serving, AfterLoop, LifeTypeOK
<1> QED BY <1>2, <1>4, <1>5, <1>6, <1>7

LEMMA StepBeginFails == ASSUME IInv, LoadConfigFails \/ ListenFails PROVE IInv'
<1> USE DEF IInv, MainGoes, stats, work, flags, stopping, LoadConfigFails, ListenFails
<1>1. LifeTypeOK'
    BY DEF LifeTypeOK, Places, Stoppable, Serving, AfterLoop
<1>2. StatsLife' /\ Connected' /\ Stopping'
    BY DEF StatsLife, Connected, Stopping, Stoppable, Serving, AfterLoop
<1>3. CrashOnlyAtEdges'
    BY DEF CrashOnlyAtEdges
<1> QED BY <1>1, <1>2, <1>3

LEMMA StepAccepting ==
    ASSUME LifeAssumption, IInv, Accepting \/ AcceptFails
    PROVE  IInv'
<1> USE DEF IInv, MainGoes, stats, work, flags, stopping
<1>1. /\ outcome = "running" /\ main \in {"check", "accept"}
      /\ main' \in {"check", "accept", "poll"}
      /\ UNCHANGED <<outcome, is_running, handle_stop, handler, signals, global_stats,
                     stats_object, holds>>
    BY DEF Accepting, AcceptFails, AcceptCheck, AcceptClient
<1>2. CrashOnlyAtEdges'
    BY <1>1 DEF CrashOnlyAtEdges
<1>3. /\ left' \in [Clients -> Nat]
      /\ \A c \in Clients : left[c] > 0 => left'[c] > 0
    <2>1. CASE \E c \in Clients : AcceptClient(c)
        BY <2>1 DEF AcceptClient, LifeTypeOK, LifeAssumption
    <2>2. CASE AcceptCheck \/ AcceptFails
        BY <2>2 DEF AcceptCheck, AcceptFails, LifeTypeOK
    <2> QED BY <2>1, <2>2 DEF Accepting
<1>4. LifeTypeOK'
    BY <1>1, <1>3 DEF LifeTypeOK, Places, Stoppable, Serving
<1>5. StatsLife' /\ Stopping'
    BY <1>1 DEF StatsLife, Stopping, Stoppable, Serving, AfterLoop
<1>6. Connected'
    BY <1>1, <1>3 DEF Connected, Serving
<1> QED BY <1>2, <1>4, <1>5, <1>6

LEMMA StepShutDown == ASSUME IInv, ShutDown PROVE IInv'
<1> USE DEF IInv, MainGoes, stats, work, flags, stopping
<1>1. /\ outcome = "running" /\ main \in {"poll"} \cup AfterLoop /\ main' \in AfterLoop
      /\ UNCHANGED <<is_running, handle_stop, handler, signals, left, holds>>
    BY DEF ShutDown, Poll, DeleteStats, ForgetStats, Return, AfterLoop
<1>2. ~is_running /\ signals > 0
    BY <1>1 DEF ShutDown, Poll, Stopping, DeleteStats, ForgetStats, Return, AfterLoop
<1>3. LifeTypeOK'
    BY <1>1 DEF LifeTypeOK, ShutDown, Poll, DeleteStats, ForgetStats, Return, Places, Stoppable,
           Serving
<1>4. StatsLife'
    BY <1>1 DEF StatsLife, ShutDown, Poll, DeleteStats, ForgetStats, Return, Stoppable, Serving,
           AfterLoop
<1>5. Stopping' /\ Connected'
    BY <1>1, <1>2 DEF Stopping, Connected, Stoppable, Serving, AfterLoop
<1>6. CrashOnlyAtEdges'
    BY <1>1, <1>2 DEF CrashOnlyAtEdges, AfterLoop
<1> QED BY <1>3, <1>4, <1>5, <1>6

LEMMA StepServe == ASSUME IInv, NEW c \in Clients, Serve(c) PROVE IInv'
<1> USE DEF IInv, stats, work, flags, stopping
<1>1. /\ outcome = "running" /\ main \in Serving
      /\ UNCHANGED <<main, is_running, handle_stop, handler, signals, global_stats,
                     stats_object>>
    BY DEF Serve, FetchStats, SendStat, Connected
<1>2. LifeTypeOK'
    <2>1. CASE FetchStats(c)
        BY <2>1 DEF FetchStats, LifeTypeOK
    <2>2. CASE SendStat(c)
        <3>1. left[c] \in Nat /\ left[c] > 0
            BY <2>2 DEF SendStat, Connected, LifeTypeOK
        <3>2. left' \in [Clients -> Nat]
            BY <2>2, <3>1 DEF SendStat, LifeTypeOK
        <3>3. holds' \in [Clients -> BOOLEAN]
            BY <2>2, Zenon DEF SendStat, LifeTypeOK
        <3> QED BY <1>1, <2>2, <3>2, <3>3 DEF SendStat, LifeTypeOK
    <2> QED BY <2>1, <2>2 DEF Serve
<1>3. StatsLife' /\ Stopping'
    BY <1>1 DEF StatsLife, Stopping
<1>4. Connected'
    <2>1. \A d \in Clients : holds'[d] => left'[d] > 0
        BY DEF Serve, FetchStats, SendStat, Connected, LifeTypeOK
    <2> QED BY <1>1, <2>1 DEF Connected
<1>5. CrashOnlyAtEdges'
    <2>1. CASE FetchStats(c)
        <3>1. global_stats = "null" => main = "return"
            BY <1>1 DEF StatsLife, Stoppable
        <3> QED BY <1>1, <2>1, <3>1 DEF FetchStats, CrashOnlyAtEdges, Stopping, AfterLoop
    <2>2. CASE SendStat(c)
        <3>1. stats_object \in {"ready", "broken"} \/ main \in AfterLoop
            BY <1>1 DEF StatsLife, Stoppable
        <3> QED BY <1>1, <2>2, <3>1 DEF SendStat, CrashOnlyAtEdges, Stopping, AfterLoop
    <2> QED BY <2>1, <2>2 DEF Serve
<1> QED BY <1>2, <1>3, <1>4, <1>5

LEMMA InductiveIInv == IInv /\ [LifeNext]_lifeVars => IInv'
<1> SUFFICES ASSUME IInv, [LifeNext]_lifeVars PROVE IInv'
    OBVIOUS
<1>1. CASE UNCHANGED lifeVars
    BY <1>1 DEF lifeVars, stats, work, flags, stopping, IInv, LifeTypeOK, StatsLife, Stopping,
           Connected, CrashOnlyAtEdges
<1> QED
    BY <1>1, LifeAssumption, StepSignal, StepHandleStop, StepStartUp, StepBeginFails,
       StepAccepting, StepShutDown, StepServe
       DEF LifeNext

-----------------------------------------------------------------------------

\* The process crashes only for a bad configuration, without a stats host, or
\* in one of the two windows that the order of main leaves open.
THEOREM CrashesAtEdges == LifeSpec => []CrashOnlyAtEdges
<1>1. IInv => CrashOnlyAtEdges
    BY DEF IInv
<1> QED BY <1>1, InitIInv, InductiveIInv, PTL DEF LifeSpec
=============================================================================
