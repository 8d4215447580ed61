-------------------------- MODULE HttpServerProofs --------------------------
(***************************************************************************)
(* The safety properties of HttpServer for every number of threads and     *)
(* workers, every limit and every finite set of connections.  None of them *)
(* is inductive alone: who owns a connection, what is counted and where    *)
(* the scans point have to be known together.  With that, too, HttpServer   *)
(* implements ConnectionLifecycle: every step maps to a step of the         *)
(* lifecycle or to a stutter.                                               *)
(***************************************************************************)
EXTENDS HttpServerRefinement, FiniteSetTheorems, TLAPS

-----------------------------------------------------------------------------
(* The inductive invariant. *)

\* The scans point at threads, so that a choice can be enqueued to or robbed.
Scans ==
    /\ apc = "scan" => ascan.i \in Threads
    /\ apc = "enqueue" => ascan.tt \in Threads
    /\ \A t \in Threads :
          /\ tpc[t] = "loop" => tscan[t] = TScanStart
          /\ tpc[t] = "scan" =>
                /\ tscan[t].i \in Threads
                /\ tscan[t].load >= -1
                /\ tscan[t].i = 1 => tscan[t].load = -1
                /\ tscan[t].i > 1 => tscan[t].tt \in Threads
          /\ tpc[t] = "steal" => tscan[t].tt \in Threads

QueueInjective ==
    \A t, u \in Threads : \A i \in 1..Len(queue[t]), j \in 1..Len(queue[u]) :
        queue[t][i] = queue[u][j] => t = u /\ i = j

ServedOnce == \A s, r \in Slots : wconn[s] = wconn[r] /\ wconn[s] # NoConn => s = r

HeldOnce == \A t, u \in Threads : held[t] = held[u] /\ held[t] # NoConn => t = u

\* A thread's *conn and a worker's conn are the same connection only within
\* one thread: the reason why close_socket knows the last reference.
HeldByItsThread ==
    \A s \in Slots, u \in Threads : wconn[s] = held[u] /\ wconn[s] # NoConn => s[1] = u

Owners ==
    /\ QueueInjective
    /\ ServedOnce
    /\ HeldOnce
    /\ HeldByItsThread
    /\ AllQueued \cap (Served \cup Retained) = {}
    /\ \A s \in Slots : phase[s] = "idle" <=> wconn[s] = NoConn

Counting ==
    /\ alive = AllQueued \cup Served \cup Retained \cup Passing
    /\ openConns = Cardinality(alive)

\* A socket that no connection owns yet is referred to by nobody else.
Fresh ==
    /\ unseen \cap (fds \cup alive \cup {asock}) = {}
    /\ asock \notin alive
    /\ apc \in {"scan", "enqueue"} <=> asock # NoConn
    /\ asock # NoConn => asock \in fds
    /\ apc = "pushed" <=> aref # NoConn
    /\ AllQueued \cup Served \subseteq fds

Limit ==
    /\ openConns <= MaxOpen + 1
    /\ apc \in {"accept", "scan", "enqueue"} => openConns <= MaxOpen

IInv == TypeOK /\ Scans /\ Owners /\ Counting /\ Fresh /\ Limit

-----------------------------------------------------------------------------
(* How the sets of references change with the variables behind them. *)

LEMMA QueuedMembers ==
    \A c : c \in AllQueued <=> \E t \in Threads : \E i \in 1..Len(queue[t]) : c = queue[t][i]
BY DEF AllQueued, Queued

LEMMA PushedMembers ==
    \A c : c \in AllQueued' <=> \E t \in Threads : \E i \in 1..Len(queue'[t]) : c = queue'[t][i]
BY DEF AllQueued, Queued

\* Appending a connection that is in no queue.
LEMMA Append1 ==
    ASSUME queue \in [Threads -> Seq(Conns)], QueueInjective,
           NEW t \in Threads, NEW c \in Conns, c \notin AllQueued,
           queue' = [queue EXCEPT ![t] = Append(@, c)]
    PROVE  QueueInjective' /\ AllQueued' = AllQueued \cup {c}
<1> DEFINE n == Len(queue[t])
<1>1. /\ queue[t] \in Seq(Conns)
      /\ n \in Nat
      /\ queue'[t] = Append(queue[t], c)
      /\ Len(queue'[t]) = n + 1
      /\ queue'[t][n + 1] = c
      /\ \A i \in 1..n : queue'[t][i] = queue[t][i]
      /\ \A u \in Threads \ {t} : queue'[u] = queue[u]
    OBVIOUS
<1>2. \A u \in Threads : Len(queue[u]) \in Nat
    OBVIOUS
<1>3. ASSUME NEW u \in Threads, NEW i \in 1..Len(queue'[u])
      PROVE  \/ u = t /\ i = n + 1 /\ queue'[u][i] = c
             \/ i \in 1..Len(queue[u]) /\ queue'[u][i] = queue[u][i]
    BY <1>1, <1>2
<1>4. \A u \in Threads : \A i \in 1..Len(queue[u]) :
         i \in 1..Len(queue'[u]) /\ queue'[u][i] = queue[u][i]
    BY <1>1, <1>2
<1>5. \A u \in Threads : \A i \in 1..Len(queue[u]) : queue[u][i] # c
    BY QueuedMembers
<1>6. QueueInjective'
    BY <1>3, <1>5 DEF QueueInjective
<1>7. n + 1 \in 1..Len(queue'[t])
    BY <1>1
<1>8. AllQueued' \subseteq AllQueued \cup {c}
    BY <1>3, QueuedMembers, PushedMembers
<1>9. AllQueued \cup {c} \subseteq AllQueued'
    BY <1>1, <1>4, <1>7, QueuedMembers, PushedMembers
<1> QED BY <1>6, <1>8, <1>9

\* Taking the head of a queue: it is in no queue any more.
LEMMA Pop1 ==
    ASSUME queue \in [Threads -> Seq(Conns)], QueueInjective,
           NEW v \in Threads, queue[v] # <<>>,
           queue' = [queue EXCEPT ![v] = Tail(@)]
    PROVE  /\ QueueInjective'
           /\ Head(queue[v]) \in AllQueued
           /\ AllQueued' = AllQueued \ {Head(queue[v])}
<1> DEFINE n == Len(queue[v])
           c == Head(queue[v])
<1>1. /\ queue[v] \in Seq(Conns)
      /\ n \in Nat \ {0}
      /\ c = queue[v][1]
      /\ queue'[v] = Tail(queue[v])
      /\ Len(queue'[v]) = n - 1
      /\ \A i \in 1..n - 1 : queue'[v][i] = queue[v][i + 1]
      /\ \A u \in Threads \ {v} : queue'[u] = queue[u]
    OBVIOUS
<1>2. \A u \in Threads : Len(queue[u]) \in Nat
    OBVIOUS
<1> DEFINE Old(u, i) == IF u = v THEN i + 1 ELSE i
<1>3. ASSUME NEW u \in Threads, NEW i \in 1..Len(queue'[u])
      PROVE  /\ i \in Int
             /\ Old(u, i) \in 1..Len(queue[u])
             /\ queue'[u][i] = queue[u][Old(u, i)]
             /\ u = v => Old(u, i) # 1
    BY <1>1, <1>2
<1>4. QueueInjective'
  <2> SUFFICES ASSUME NEW u \in Threads, NEW w \in Threads,
                      NEW i \in 1..Len(queue'[u]), NEW j \in 1..Len(queue'[w]),
                      queue'[u][i] = queue'[w][j]
               PROVE  u = w /\ i = j
      BY DEF QueueInjective
  <2>1. u = w /\ Old(u, i) = Old(w, j)
      BY <1>3 DEF QueueInjective
  <2> QED BY <2>1, <1>3
<1>5. 1 \in 1..n /\ c \in AllQueued
    BY <1>1, QueuedMembers
<1>6. ASSUME NEW d \in AllQueued' PROVE d \in AllQueued /\ d # c
  <2>1. PICK u \in Threads : \E i \in 1..Len(queue'[u]) : d = queue'[u][i]
      BY PushedMembers
  <2>5. PICK i \in 1..Len(queue'[u]) : d = queue'[u][i]
      BY <2>1
  <2>2. d = queue[u][Old(u, i)] /\ Old(u, i) \in 1..Len(queue[u])
      BY <2>5, <1>3
  <2>3. d \in AllQueued
      BY <2>2, QueuedMembers
  <2>4. d # c
      BY <2>2, <1>1, <1>3, <1>5 DEF QueueInjective
  <2> QED BY <2>3, <2>4
<1>7. ASSUME NEW d \in AllQueued, d # c PROVE d \in AllQueued'
  <2>1. PICK u \in Threads : \E i \in 1..Len(queue[u]) : d = queue[u][i]
      BY QueuedMembers
  <2>5. PICK i \in 1..Len(queue[u]) : d = queue[u][i]
      BY <2>1
  <2>2. CASE u # v
      BY <2>5, <2>2, <1>1, PushedMembers
  <2>3. CASE u = v
    <3>1. i # 1 /\ i \in 1..n
        BY <2>5, <2>3, <1>7, <1>1
    <3>2. i - 1 \in 1..Len(queue'[v]) /\ queue'[v][i - 1] = queue[v][i]
        BY <3>1, <1>1
    <3> QED BY <3>2, <2>5, <2>3, PushedMembers
  <2> QED BY <2>2, <2>3
<1> QED BY <1>4, <1>5, <1>6, <1>7

\* A worker without a connection starts on one nobody serves.
LEMMA Start1 ==
    ASSUME wconn \in [Slots -> Conns \cup {NoConn}], ServedOnce,
           NEW s \in Slots, wconn[s] = NoConn,
           NEW c \in Conns, c \notin Served,
           wconn' = [wconn EXCEPT ![s] = c]
    PROVE  ServedOnce' /\ Served' = Served \cup {c}
<1>1. c # NoConn
    BY ConstantsAssumption
<1>2. \A r \in Slots : wconn'[r] = IF r = s THEN c ELSE wconn[r]
    OBVIOUS
<1>3. \A r \in Slots : wconn[r] # c
    BY <1>1 DEF Served
<1>4. ServedOnce'
    BY <1>2, <1>3 DEF ServedOnce
<1>5. Served' \subseteq Served \cup {c}
    BY <1>2 DEF Served
<1>6. Served \subseteq Served'
    BY <1>2 DEF Served
<1>7. c \in Served'
    BY <1>1, <1>2 DEF Served
<1> QED BY <1>4, <1>5, <1>6, <1>7

\* A worker gives up its connection: nobody serves it.
LEMMA Close1 ==
    ASSUME wconn \in [Slots -> Conns \cup {NoConn}], ServedOnce,
           NEW s \in Slots, wconn[s] # NoConn,
           wconn' = [wconn EXCEPT ![s] = NoConn]
    PROVE  ServedOnce' /\ Served' = Served \ {wconn[s]} /\ wconn[s] \in Served
<1>1. \A r \in Slots : wconn'[r] = IF r = s THEN NoConn ELSE wconn[r]
    OBVIOUS
<1>2. ServedOnce'
    BY <1>1 DEF ServedOnce
<1>3. \A r \in Slots : r # s => wconn[r] # wconn[s]
    BY DEF ServedOnce
<1>4. Served' \subseteq Served \ {wconn[s]}
    BY <1>1, <1>3 DEF Served
<1>5. Served \ {wconn[s]} \subseteq Served'
    BY <1>1 DEF Served
<1>6. wconn[s] \in Served
    BY DEF Served
<1> QED BY <1>2, <1>4, <1>5, <1>6

\* A thread overwrites its *conn by a connection no thread retains.
LEMMA Hold1 ==
    ASSUME held \in [Threads -> Conns \cup {NoConn}], HeldOnce,
           NEW t \in Threads, NEW c \in Conns, c \notin Retained,
           held' = [held EXCEPT ![t] = c]
    PROVE  HeldOnce' /\ Retained' = (Retained \ {held[t]}) \cup {c}
<1>1. c # NoConn
    BY ConstantsAssumption
<1>2. \A u \in Threads : held'[u] = IF u = t THEN c ELSE held[u]
    OBVIOUS
<1>3. \A u \in Threads : held[u] # c
    BY <1>1 DEF Retained
<1>4. HeldOnce'
    BY <1>2, <1>3 DEF HeldOnce
<1>5. Retained' \subseteq (Retained \ {held[t]}) \cup {c}
  <2> SUFFICES ASSUME NEW u \in Threads, held'[u] # NoConn, u # t
               PROVE  held[u] \in Retained /\ held[u] # held[t]
      BY <1>2 DEF Retained
  <2> QED BY <1>2 DEF Retained, HeldOnce
<1>6. Retained \ {held[t]} \subseteq Retained'
    BY <1>2 DEF Retained
<1>7. c \in Retained'
    BY <1>1, <1>2 DEF Retained
<1> QED BY <1>4, <1>5, <1>6, <1>7

\* Destructors of existing connections keep the counter exact.
LEMMA DestroyCounts ==
    ASSUME alive \in SUBSET Conns, openConns = Cardinality(alive),
           NEW cs \in SUBSET alive, Destroy(cs)
    PROVE  /\ alive' \in SUBSET Conns
           /\ openConns' \in Nat
           /\ openConns' = Cardinality(alive')
           /\ openConns' <= openConns
<1>1. IsFiniteSet(alive) /\ IsFiniteSet(cs)
    BY ConstantsAssumption, FS_Subset
<1>2. alive' = alive \ cs /\ openConns' = openConns - Cardinality(cs)
    BY DEF Destroy
<1>3. alive \cap cs = cs
    OBVIOUS
<1>4. Cardinality(alive \ cs) = Cardinality(alive) - Cardinality(cs)
    BY <1>1, <1>3, FS_Difference
<1>5. /\ Cardinality(alive \ cs) \in Nat
      /\ Cardinality(cs) \in Nat
      /\ Cardinality(alive) \in Nat
    BY <1>1, FS_CardinalityType, FS_Difference
<1>6. openConns' = Cardinality(alive')
    BY <1>2, <1>4
<1> QED BY <1>2, <1>4, <1>5, <1>6

\* The variables that say who refers to a connection keep their types.
ConnTypes ==
    /\ queue \in [Threads -> Seq(Conns)]
    /\ held \in [Threads -> Conns \cup {NoConn}]
    /\ wconn \in [Slots -> Conns \cup {NoConn}]
    /\ phase \in [Slots -> {"idle", "reading", "writing"}]
    /\ alive \in SUBSET Conns
    /\ openConns \in Nat
    /\ fds \in SUBSET Conns

\* What a step of the work threads does to connections: it keeps ownership
\* and the counter right, and only ever lets go.
LetsGo ==
    /\ ConnTypes'
    /\ Owners'
    /\ Counting'
    /\ openConns' <= openConns
    /\ alive' \subseteq alive
    /\ AllQueued' \cup Served' \subseteq AllQueued \cup Served

LEMMA DispatchStep ==
    ASSUME TypeOK, Owners, Counting,
           NEW t \in Threads, NEW v \in Threads, queue[v] # <<>>,
           Dispatch(t, v), aref' = aref
    PROVE  LetsGo /\ fds' = fds
<1> DEFINE c == Head(queue[v])
           gone == {held[t]} \ (Served \cup Passing \cup {NoConn})
<1>1. /\ c \in Conns
      /\ queue' \in [Threads -> Seq(Conns)]
      /\ held' \in [Threads -> Conns \cup {NoConn}]
      /\ held' = [held EXCEPT ![t] = c]
      /\ queue' = [queue EXCEPT ![v] = Tail(@)]
      /\ fds' = fds
    BY DEF TypeOK, Dispatch
<1>2. /\ QueueInjective'
      /\ c \in AllQueued
      /\ AllQueued' = AllQueued \ {c}
    BY <1>1, Pop1 DEF TypeOK, Owners
<1>3. c \notin Served /\ c \notin Retained /\ c # NoConn
    BY <1>1, <1>2, ConstantsAssumption DEF Owners
<1>4. HeldOnce' /\ Retained' = (Retained \ {held[t]}) \cup {c}
    BY <1>1, <1>3, Hold1 DEF TypeOK, Owners
<1>5. held[t] # NoConn => held[t] \in Retained
    BY DEF Retained
<1>6. gone \subseteq alive
    BY <1>5 DEF Counting
<1>20. Destroy(gone)
    BY DEF Dispatch
<1>21. alive' = alive \ gone
    BY <1>20 DEF Destroy
<1>22. alive \in SUBSET Conns /\ openConns = Cardinality(alive)
    BY DEF TypeOK, Counting
<1> HIDE DEF gone
<1>23. /\ alive' \in SUBSET Conns
      /\ openConns' \in Nat
      /\ openConns' = Cardinality(alive')
      /\ openConns' <= openConns
    BY <1>6, <1>20, <1>22, DestroyCounts
<1> USE DEF gone
<1>7. /\ alive' \in SUBSET Conns
      /\ openConns' \in Nat
      /\ openConns' = Cardinality(alive')
      /\ openConns' <= openConns
      /\ alive' = alive \ gone
    BY <1>21, <1>23
<1>8. Passing' = Passing
    BY DEF Passing
<1>9. \A s \in Slots : wconn[s] # NoConn => wconn[s] \in Served
    BY DEF Served
<1>10. \A u \in Threads : held'[u] = IF u = t THEN c ELSE held[u]
    BY <1>1 DEF TypeOK
<1>11. CASE FreeWorkers(t) = {} /\ UNCHANGED <<wconn, phase>>
  <2>1. Served' = Served /\ ServedOnce'
      BY <1>11 DEF Served, ServedOnce, Owners
  <2>2. HeldByItsThread'
      BY <1>11, <1>3, <1>9, <1>10 DEF HeldByItsThread, Owners
  <2>3. \A s \in Slots : phase'[s] = "idle" <=> wconn'[s] = NoConn
      BY <1>11 DEF Owners
  <2>4. AllQueued' \cap (Served' \cup Retained') = {}
      BY <2>1, <1>2, <1>4 DEF Owners
  <2>5. alive' = AllQueued' \cup Served' \cup Retained' \cup Passing'
      BY <2>1, <1>2, <1>3, <1>4, <1>5, <1>7, <1>8 DEF Counting, Owners, Retained
  <2>6. ConnTypes'
      BY <1>1, <1>7, <1>11 DEF ConnTypes, TypeOK
  <2>7. Owners' /\ Counting'
      BY <1>2, <1>4, <1>7, <2>1, <2>2, <2>3, <2>4, <2>5 DEF Owners, Counting
  <2> QED BY <1>1, <1>2, <1>7, <2>1, <2>6, <2>7 DEF LetsGo
<1>12. CASE \E w \in FreeWorkers(t) :
                /\ wconn' = [wconn EXCEPT ![<<t, w>>] = c]
                /\ phase' = [phase EXCEPT ![<<t, w>>] = "reading"]
  <2> PICK w \in FreeWorkers(t) :
                /\ wconn' = [wconn EXCEPT ![<<t, w>>] = c]
                /\ phase' = [phase EXCEPT ![<<t, w>>] = "reading"]
      BY <1>12
  <2> DEFINE s == <<t, w>>
  <2>0. s \in Slots /\ s[1] = t /\ phase[s] = "idle"
      BY DEF FreeWorkers, Slots, Finished
  <2> HIDE DEF s
  <2>12. /\ wconn' = [wconn EXCEPT ![s] = c]
        /\ phase' = [phase EXCEPT ![s] = "reading"]
      BY DEF s
  <2>1. wconn[s] = NoConn
      BY <2>0 DEF Owners
  <2>2. ServedOnce' /\ Served' = Served \cup {c}
      BY <2>0, <2>12, <2>1, <1>1, <1>3, Start1 DEF TypeOK, Owners
  <2>3. \A r \in Slots : /\ wconn'[r] = (IF r = s THEN c ELSE wconn[r])
                         /\ phase'[r] = (IF r = s THEN "reading" ELSE phase[r])
      BY <2>0, <2>12 DEF TypeOK
  <2>4. \A u \in Threads : held[u] # c
      BY <1>3 DEF Retained
  <2>5. HeldByItsThread'
      BY <2>0, <2>3, <2>4, <1>3, <1>9, <1>10 DEF HeldByItsThread, Owners
  <2>6. \A r \in Slots : phase'[r] = "idle" <=> wconn'[r] = NoConn
      BY <2>3, <1>3 DEF Owners
  <2>7. AllQueued' \cap (Served' \cup Retained') = {}
      BY <2>2, <1>2, <1>4 DEF Owners
  <2>8. alive' = AllQueued' \cup Served' \cup Retained' \cup Passing'
      BY <2>2, <1>2, <1>3, <1>4, <1>5, <1>7, <1>8 DEF Counting, Owners, Retained
  <2>9. wconn' \in [Slots -> Conns \cup {NoConn}] /\ phase' \in [Slots -> {"idle", "reading", "writing"}]
      BY <2>12, <1>1 DEF TypeOK
  <2>10. ConnTypes'
      BY <1>1, <1>7, <2>9 DEF ConnTypes, TypeOK
  <2>11. Owners' /\ Counting'
      BY <1>2, <1>4, <1>7, <2>2, <2>5, <2>6, <2>7, <2>8 DEF Owners, Counting
  <2> QED BY <1>1, <1>2, <1>7, <2>2, <2>10, <2>11 DEF LetsGo
<1> QED BY <1>11, <1>12 DEF Dispatch, StartWorker

LEMMA CloseSocketStep ==
    ASSUME TypeOK, Owners, Counting,
           NEW t \in Threads, NEW w \in Workers, phase[<<t, w>>] # "idle",
           CloseSocket(t, w), aref' = aref
    PROVE  /\ LetsGo
           /\ fds' = fds \ {wconn[<<t, w>>]}
           /\ wconn[<<t, w>>] \notin AllQueued' \cup Served'
<1> DEFINE s == <<t, w>>
           c == wconn[s]
           gone == {c} \ ({held[t]} \cup Passing)
<1>1. s \in Slots /\ s[1] = t
    BY DEF Slots
<1>2. Destroy(gone) /\ alive' = alive \ gone
    BY DEF CloseSocket, Destroy
<1>3. /\ wconn' = [wconn EXCEPT ![s] = NoConn]
      /\ phase' = [phase EXCEPT ![s] = "idle"]
      /\ fds' = fds \ {c}
      /\ queue' = queue
      /\ held' = held
    BY DEF CloseSocket
<1>4. phase[s] # "idle"
    OBVIOUS
<1> HIDE DEF s
<1>5. c # NoConn /\ c \in Conns
    BY <1>1, <1>4 DEF Owners, TypeOK
<1>6. ServedOnce' /\ Served' = Served \ {c} /\ c \in Served
    BY <1>1, <1>3, <1>5, Close1 DEF TypeOK, Owners
<1>7. QueueInjective' /\ AllQueued' = AllQueued
    BY <1>3 DEF QueueInjective, AllQueued, Queued, Owners
<1>8. HeldOnce' /\ Retained' = Retained /\ Passing' = Passing
    BY <1>3 DEF HeldOnce, Retained, Passing, Owners
<1>9. c \notin AllQueued
    BY <1>6 DEF Owners
<1>10. c \in Retained <=> c = held[t]
    BY <1>1, <1>5 DEF Retained, Owners, HeldByItsThread
<1>11. \A r \in Slots : /\ wconn'[r] = (IF r = s THEN NoConn ELSE wconn[r])
                        /\ phase'[r] = (IF r = s THEN "idle" ELSE phase[r])
    BY <1>1, <1>3 DEF TypeOK
<1>12. gone \in SUBSET alive
    BY <1>6 DEF Counting
<1>13. alive \in SUBSET Conns /\ openConns = Cardinality(alive)
    BY DEF TypeOK, Counting
<1>14. alive' = AllQueued' \cup Served' \cup Retained' \cup Passing'
    BY <1>2, <1>6, <1>7, <1>8, <1>9, <1>10 DEF Counting
<1> HIDE DEF gone
<1>15. /\ alive' \in SUBSET Conns
       /\ openConns' \in Nat
       /\ openConns' = Cardinality(alive')
       /\ openConns' <= openConns
    BY <1>2, <1>12, <1>13, DestroyCounts
<1>16. HeldByItsThread'
    BY <1>3, <1>11 DEF HeldByItsThread, Owners
<1>17. \A r \in Slots : phase'[r] = "idle" <=> wconn'[r] = NoConn
    BY <1>11 DEF Owners
<1>18. Owners' /\ Counting'
    BY <1>6, <1>7, <1>8, <1>14, <1>15, <1>16, <1>17 DEF Owners, Counting
<1>19. wconn' \in [Slots -> Conns \cup {NoConn}] /\ phase' \in [Slots -> {"idle", "reading", "writing"}]
    BY <1>3 DEF TypeOK
<1>20. ConnTypes'
    BY <1>3, <1>15, <1>19 DEF ConnTypes, TypeOK
<1>21. LetsGo
    BY <1>2, <1>6, <1>7, <1>15, <1>18, <1>20 DEF LetsGo
<1> QED BY <1>3, <1>6, <1>7, <1>9, <1>21 DEF s

LEMMA EnqueueStep ==
    ASSUME TypeOK, Owners, Counting, Scans, Fresh, Enqueue
    PROVE  /\ ConnTypes' /\ Owners' /\ Counting'
           /\ openConns' = openConns + 1
           /\ alive' = alive \cup {asock}
           /\ AllQueued' = AllQueued \cup {asock}
           /\ Served' = Served
<1> DEFINE c == asock
<1>1. /\ c \in Conns /\ c \notin alive /\ aref = NoConn
      /\ ascan.tt \in Threads
      /\ queue \in [Threads -> Seq(Conns)]
      /\ QueueInjective
    BY DEF Enqueue, TypeOK, Scans, Fresh, Owners
<1>2. /\ queue' = [queue EXCEPT ![ascan.tt] = Append(@, c)]
      /\ alive' = alive \cup {c}
      /\ openConns' = openConns + 1
      /\ aref' = c
      /\ UNCHANGED <<held, wconn, phase, fds>>
    BY DEF Enqueue
<1>3. c \notin AllQueued /\ c \notin Served /\ c \notin Retained
    BY <1>1 DEF Counting
<1> HIDE DEF c
<1>4. QueueInjective' /\ AllQueued' = AllQueued \cup {c}
    BY <1>1, <1>2, <1>3, Append1
<1>5. Served' = Served /\ Retained' = Retained
    BY <1>2 DEF Served, Retained
<1>6. Passing' = {c} /\ Passing = {}
    BY <1>1, <1>2, ConstantsAssumption DEF Passing
<1>7. Owners'
    BY <1>2, <1>3, <1>4, <1>5 DEF Owners, ServedOnce, HeldOnce, HeldByItsThread
<1>8. alive' = AllQueued' \cup Served' \cup Retained' \cup Passing'
    BY <1>2, <1>4, <1>5, <1>6 DEF Counting
<1>9. IsFiniteSet(alive)
    BY ConstantsAssumption, FS_Subset DEF TypeOK
<1>10. openConns' = Cardinality(alive')
    BY <1>1, <1>2, <1>9, FS_AddElement DEF Counting
<1>11. queue' \in [Threads -> Seq(Conns)]
    BY <1>1, <1>2
<1>12. ConnTypes'
    BY <1>1, <1>2, <1>11 DEF ConnTypes, TypeOK
<1> QED BY <1>2, <1>4, <1>5, <1>7, <1>8, <1>10, <1>12 DEF Counting, c

LEMMA EnqueueReturnsStep ==
    ASSUME TypeOK, Owners, Counting, Fresh, EnqueueReturns
    PROVE  LetsGo /\ fds' = fds
<1> DEFINE gone == {aref} \ (AllQueued \cup Served \cup Retained)
<1>1. Destroy(gone) /\ alive' = alive \ gone
    BY DEF EnqueueReturns, Destroy
<1>2. UNCHANGED <<queue, held, wconn, phase, fds>> /\ aref' = NoConn
    BY DEF EnqueueReturns
<1>3. Passing = {aref} /\ Passing' = {}
    BY <1>2 DEF EnqueueReturns, Passing, Fresh
<1>4. gone \in SUBSET alive
    BY <1>3 DEF Counting
<1>5. alive \in SUBSET Conns /\ openConns = Cardinality(alive)
    BY DEF TypeOK, Counting
<1>6. AllQueued' = AllQueued /\ Served' = Served /\ Retained' = Retained
    BY <1>2 DEF AllQueued, Queued, Served, Retained
<1>7. Owners'
    BY <1>2, <1>6 DEF Owners, QueueInjective, ServedOnce, HeldOnce, HeldByItsThread
<1>8. alive' = AllQueued' \cup Served' \cup Retained' \cup Passing'
    BY <1>1, <1>3, <1>6 DEF Counting
<1> HIDE DEF gone
<1>9. /\ alive' \in SUBSET Conns
      /\ openConns' \in Nat
      /\ openConns' = Cardinality(alive')
      /\ openConns' <= openConns
    BY <1>1, <1>4, <1>5, DestroyCounts
<1>10. ConnTypes'
    BY <1>2, <1>9 DEF ConnTypes, TypeOK
<1> QED BY <1>1, <1>2, <1>6, <1>7, <1>8, <1>9, <1>10 DEF LetsGo, Counting

\* A step that leaves connections and the accept thread's reference alone.
LEMMA QuietStep ==
    ASSUME TypeOK, Owners, Counting, UNCHANGED <<connVars, aref>>
    PROVE  LetsGo /\ fds' = fds
<1>1. UNCHANGED <<queue, held, wconn, phase, alive, openConns, fds, aref>>
    BY DEF connVars
<1>2. /\ AllQueued' = AllQueued /\ Served' = Served
      /\ Retained' = Retained /\ Passing' = Passing
    BY <1>1 DEF AllQueued, Queued, Served, Retained, Passing
<1>3. Owners'
    BY <1>1, <1>2 DEF Owners, QueueInjective, ServedOnce, HeldOnce, HeldByItsThread
<1>4. Counting'
    BY <1>1, <1>2 DEF Counting
<1>5. ConnTypes'
    BY <1>1 DEF ConnTypes, TypeOK
<1> QED BY <1>1, <1>2, <1>3, <1>4, <1>5 DEF LetsGo, TypeOK

\* A load factor is never negative, so the first reading beats the initial -1.
LEMMA ReadingsNat ==
    ASSUME TypeOK, NEW t \in Threads
    PROVE  Readings(t) \subseteq Nat
<1>1. Len(queue[t]) \in Nat
    BY DEF TypeOK
<1>2. IsFiniteSet(Workers)
    BY FS_Interval, ConstantsAssumption DEF Workers
<1>3. Busy(t) \in Nat
    BY <1>2, FS_Subset, FS_CardinalityType DEF Busy
<1>4. \A a, b \in Nat : a + b \in Nat /\ a * b \in Nat
    OBVIOUS
<1>5. DefaultWorkers \in Nat /\ NumWorkers \in Nat /\ 0..NumWorkers \subseteq Nat
    BY ConstantsAssumption DEF DefaultWorkers
<1>6. Load(t) \in Nat
    BY <1>1, <1>3, <1>4, <1>5 DEF Load
<1>7. \A b \in 0..NumWorkers, k \in {DefaultWorkers, NumWorkers} : (Len(queue[t]) + b) * k \in Nat
    BY <1>1, <1>4, <1>5
<1> QED BY <1>6, <1>7 DEF Readings

-----------------------------------------------------------------------------
(* The invariant, action by action. *)

THEOREM InitIInv == Init => IInv
<1> SUFFICES ASSUME Init PROVE IInv
    OBVIOUS
<1> USE ConstantsAssumption DEF Init, InitWith
<1>1. TypeOK
    BY DEF TypeOK, AScanStart, TScanStart, Threads, Slots
<1>2. Scans
    BY DEF Scans, Threads
<1>3. \A t \in Threads : Len(queue[t]) = 0
    OBVIOUS
<1>4. AllQueued = {} /\ Served = {} /\ Retained = {} /\ Passing = {}
    BY <1>3 DEF AllQueued, Queued, Served, Retained, Passing
<1>5. Owners
    BY <1>3, <1>4 DEF Owners, QueueInjective, ServedOnce, HeldOnce, HeldByItsThread
<1>6. Counting
    BY <1>4, FS_EmptySet DEF Counting
<1>7. Fresh
    BY <1>4 DEF Fresh
<1>8. Limit
    BY DEF Limit
<1> QED BY <1>1, <1>2, <1>5, <1>6, <1>7, <1>8 DEF IInv

\* A tick of a work thread: it may take one connection from one queue.
LEMMA TickStep ==
    ASSUME IInv, NEW t \in Threads, ThreadRunner(t) \/ Tick(t)
    PROVE  LetsGo /\ fds' = fds /\ UNCHANGED <<running, acceptVars>>
<1> USE DEF IInv
<1>1. CASE ThreadRunner(t)
    BY <1>1, QuietStep DEF ThreadRunner, acceptVars
<1>2. CASE DequeueOwn(t)
    BY <1>2, DispatchStep DEF DequeueOwn, acceptVars
<1>3. CASE DequeueMiss(t)
    BY <1>3, QuietStep DEF DequeueMiss, acceptVars
<1>4. CASE StealScan(t)
    BY <1>4, QuietStep DEF StealScan, acceptVars
<1>5. CASE Steal(t)
  <2> DEFINE v == tscan[t].tt
  <2>1. v \in Threads /\ UNCHANGED <<running, acceptVars, aref>>
      BY <1>5 DEF Steal, Scans, acceptVars
  <2>2. CASE queue[v] # <<>> /\ Dispatch(t, v)
    <3> HIDE DEF v
    <3> QED BY <2>1, <2>2, DispatchStep
  <2>3. CASE UNCHANGED connVars
      BY <2>1, <2>3, QuietStep
  <2> QED BY <1>5, <2>2, <2>3 DEF Steal
<1> QED BY <1>1, <1>2, <1>3, <1>4, <1>5 DEF Tick

\* A completion handler of a worker: it may close the socket of one connection.
LEMMA HandlerStep ==
    ASSUME IInv, NEW t \in Threads, NEW w \in Workers, Handler(t, w)
    PROVE  /\ LetsGo
           /\ fds' \subseteq fds
           /\ AllQueued' \cup Served' \subseteq fds'
           /\ asock # NoConn => asock \in fds'
           /\ UNCHANGED <<running, acceptVars, threadVars>>
<1> USE DEF IInv
<1> DEFINE s == <<t, w>>
<1>1. s \in Slots
    BY DEF Slots
<1>2. CASE ReadOk(t, w)
  <2>1. /\ phase' = [phase EXCEPT ![s] = "writing"]
        /\ phase[s] = "reading"
        /\ UNCHANGED <<running, acceptVars, threadVars, queue, held, wconn, alive, openConns, fds, aref>>
      BY <1>2 DEF ReadOk, acceptVars
  <2> HIDE DEF s
  <2>2. \A r \in Slots : phase'[r] = (IF r = s THEN "writing" ELSE phase[r])
      BY <2>1, <1>1 DEF TypeOK
  <2>3. \A r \in Slots : phase'[r] = "idle" <=> wconn'[r] = NoConn
      BY <2>1, <2>2 DEF Owners
  <2>4. /\ AllQueued' = AllQueued /\ Served' = Served
        /\ Retained' = Retained /\ Passing' = Passing
      BY <2>1 DEF AllQueued, Queued, Served, Retained, Passing
  <2>5. Owners'
      BY <2>1, <2>3, <2>4 DEF Owners, QueueInjective, ServedOnce, HeldOnce, HeldByItsThread
  <2>6. Counting'
      BY <2>1, <2>4 DEF Counting
  <2>7. phase' \in [Slots -> {"idle", "reading", "writing"}]
      BY <2>1 DEF TypeOK
  <2>8. ConnTypes'
      BY <2>1, <2>7 DEF ConnTypes, TypeOK
  <2>9. LetsGo
      BY <2>1, <2>4, <2>5, <2>6, <2>8 DEF LetsGo, TypeOK
  <2> QED BY <2>1, <2>4, <2>9 DEF Fresh
<1>3. CASE ReadError(t, w) \/ WriteHandler(t, w)
  <2>1. /\ phase[<<t, w>>] # "idle"
        /\ CloseSocket(t, w)
        /\ aref' = aref
        /\ UNCHANGED <<running, acceptVars, threadVars>>
      BY <1>3 DEF ReadError, WriteHandler, acceptVars
  <2>2. /\ LetsGo
        /\ fds' = fds \ {wconn[s]}
        /\ wconn[s] \notin AllQueued' \cup Served'
      BY <2>1, CloseSocketStep
  <2>3. wconn[s] \in Served
      BY <2>1, <1>1 DEF Owners, Served
  <2>4. wconn[s] # asock
      BY <2>3 DEF Counting, Fresh
  <2> QED BY <2>1, <2>2, <2>4 DEF Fresh, LetsGo
<1> QED BY <1>2, <1>3 DEF Handler

\* Whatever the threads do, sockets without an owner and the limit are safe.
LEMMA FreshLimitKept ==
    ASSUME IInv, LetsGo, fds' \subseteq fds, AllQueued' \cup Served' \subseteq fds',
           asock # NoConn => asock \in fds', UNCHANGED acceptVars
    PROVE  Fresh' /\ Limit'
<1>1. UNCHANGED <<unseen, apc, asock, aref>>
    BY DEF acceptVars
<1>2. Fresh'
    BY <1>1 DEF IInv, Fresh, LetsGo
<1>3. openConns' \in Nat /\ openConns \in Nat /\ openConns' <= openConns
    BY DEF LetsGo, ConnTypes, IInv, TypeOK
<1>4. Limit'
    BY <1>1, <1>3, ConstantsAssumption DEF IInv, Limit
<1> QED BY <1>2, <1>4

\* What an invariant says about connections, without the scans.
Connections == ConnTypes /\ Owners /\ Counting /\ Fresh /\ Limit

LEMMA AcceptorConnections ==
    ASSUME IInv,
           Stop \/ AcceptorStep \/ AcceptError \/ \E c \in Conns : Accept(c)
    PROVE  Connections'
<1> USE DEF IInv
<1>0. openConns \in Nat /\ MaxOpen \in Nat
    BY ConstantsAssumption DEF TypeOK
<1>1. CASE Stop
  <2>1. UNCHANGED <<acceptVars, connVars, aref>>
      BY <1>1 DEF Stop, acceptVars
  <2>2. LetsGo /\ fds' = fds
      BY <2>1, QuietStep
  <2> QED BY <2>1, <2>2, FreshLimitKept DEF Connections, LetsGo, Fresh
<1>2. CASE AcceptCheck \/ AcceptError \/ AcceptScan
  <2>1. /\ UNCHANGED <<unseen, asock, aref, connVars>>
        /\ \/ apc = "check" /\ apc' = "returned"
           \/ apc = "check" /\ apc' = "accept" /\ openConns <= MaxOpen
           \/ apc = "accept" /\ apc' \in {"check", "returned"}
           \/ apc = "scan" /\ apc' \in {"scan", "enqueue"}
      BY <1>2 DEF AcceptCheck, AcceptError, AcceptScan
  <2>2. LetsGo /\ fds' = fds
      BY <2>1, QuietStep
  <2>3. UNCHANGED <<alive, openConns>>
      BY <2>1 DEF connVars
  <2>4. Fresh'
      BY <2>1, <2>2, <2>3 DEF Fresh, LetsGo
  <2>5. Limit'
      BY <2>1, <2>3 DEF Limit
  <2> QED BY <2>2, <2>4, <2>5 DEF Connections, LetsGo
<1>3. ASSUME NEW c \in Conns, Accept(c) PROVE Connections'
  <2>1. /\ apc = "accept" /\ apc' = "scan"
        /\ c \in unseen /\ unseen' = unseen \ {c}
        /\ asock' = c /\ asock = NoConn
        /\ fds' = fds \cup {c}
        /\ UNCHANGED <<queue, held, wconn, phase, alive, openConns, aref>>
      BY <1>3 DEF Accept, Fresh
  <2>2. /\ AllQueued' = AllQueued /\ Served' = Served
        /\ Retained' = Retained /\ Passing' = Passing
      BY <2>1 DEF AllQueued, Queued, Served, Retained, Passing
  <2>3. Owners'
      BY <2>1, <2>2 DEF Owners, QueueInjective, ServedOnce, HeldOnce, HeldByItsThread
  <2>4. Counting'
      BY <2>1, <2>2 DEF Counting
  <2>5. Fresh'
      BY <2>1, <2>2, ConstantsAssumption DEF Fresh
  <2>6. Limit'
      BY <2>1 DEF Limit
  <2>7. ConnTypes'
      BY <2>1 DEF ConnTypes, TypeOK
  <2> QED BY <2>3, <2>4, <2>5, <2>6, <2>7 DEF Connections
<1>4. CASE Enqueue
  <2>1. /\ apc = "enqueue" /\ apc' = "pushed"
        /\ asock' = NoConn /\ aref' = asock
        /\ UNCHANGED <<unseen, fds>>
      BY <1>4 DEF Enqueue
  <2>2. /\ ConnTypes' /\ Owners' /\ Counting'
        /\ openConns' = openConns + 1
        /\ alive' = alive \cup {asock}
        /\ AllQueued' = AllQueued \cup {asock}
        /\ Served' = Served
      BY <1>4, EnqueueStep
  <2>3. Fresh'
    <3>1. asock # NoConn /\ asock \in fds
        BY <2>1 DEF Fresh
    <3>2. NoConn \notin alive'
        BY <2>2, ConstantsAssumption DEF ConnTypes
    <3>3. unseen' \cap (fds' \cup alive' \cup {asock'}) = {}
        BY <2>1, <2>2, ConstantsAssumption DEF Fresh, TypeOK
    <3> QED BY <2>1, <2>2, <3>1, <3>2, <3>3 DEF Fresh
  <2>4. Limit'
      BY <1>0, <2>1, <2>2 DEF Limit
  <2> QED BY <2>2, <2>3, <2>4 DEF Connections
<1>5. CASE EnqueueReturns
  <2>1. LetsGo /\ fds' = fds
      BY <1>5, EnqueueReturnsStep
  <2>2. /\ apc = "pushed" /\ apc' = "check" /\ aref' = NoConn
        /\ UNCHANGED <<unseen, asock>>
      BY <1>5 DEF EnqueueReturns
  <2>3. Fresh'
      BY <2>1, <2>2 DEF Fresh, LetsGo
  <2>4. Limit'
      BY <1>0, <2>1, <2>2 DEF Limit, LetsGo, ConnTypes
  <2> QED BY <2>1, <2>3, <2>4 DEF Connections, LetsGo
<1> QED BY <1>1, <1>2, <1>3, <1>4, <1>5 DEF AcceptorStep

LEMMA ConnectionsStep == IInv /\ [Next]_vars => Connections'
<1> SUFFICES ASSUME IInv, [Next]_vars PROVE Connections'
    OBVIOUS
<1>1. CASE Stop \/ AcceptorStep \/ AcceptError \/ \E c \in Conns : Accept(c)
    BY <1>1, AcceptorConnections
<1>2. ASSUME NEW t \in Threads, ThreadRunner(t) \/ Tick(t) PROVE Connections'
  <2>1. LetsGo /\ fds' = fds /\ UNCHANGED acceptVars
      BY <1>2, TickStep
  <2>2. asock' = asock
      BY <2>1 DEF acceptVars
  <2>3. Fresh' /\ Limit'
      BY <2>1, <2>2, FreshLimitKept DEF IInv, Fresh, LetsGo
  <2> QED BY <2>1, <2>3 DEF Connections, LetsGo
<1>3. ASSUME NEW t \in Threads, NEW w \in Workers, Handler(t, w) PROVE Connections'
    BY <1>3, HandlerStep, FreshLimitKept DEF Connections, LetsGo
<1>4. CASE UNCHANGED vars
  <2>1. UNCHANGED <<acceptVars, connVars, aref>>
      BY <1>4 DEF vars, acceptVars
  <2>2. LetsGo /\ fds' = fds
      BY <2>1, QuietStep DEF IInv
  <2> QED BY <2>1, <2>2, FreshLimitKept DEF Connections, LetsGo, IInv, Fresh, acceptVars
<1> QED BY <1>1, <1>2, <1>3, <1>4 DEF Next

\* The variables of the accept thread, and those of the work threads' loops.
AcceptTypes ==
    /\ running \in BOOLEAN
    /\ unseen \in SUBSET Conns
    /\ apc \in {"check", "accept", "scan", "enqueue", "pushed", "returned"}
    /\ asock \in Conns \cup {NoConn}
    /\ aref \in Conns \cup {NoConn}
    /\ ascan \in [i : 1..NumThreads + 1, tt : 0..NumThreads, load : Int]

ThreadTypes ==
    /\ up \in [Threads -> BOOLEAN]
    /\ tpc \in [Threads -> {"loop", "scan", "steal"}]
    /\ tscan \in [Threads -> [i : 1..NumThreads + 1, tt : 0..NumThreads, load : Int]]

\* The two halves of Scans.
AcceptScans ==
    /\ apc = "scan" => ascan.i \in Threads
    /\ apc = "enqueue" => ascan.tt \in Threads

ThreadScan(t) ==
    /\ tpc[t] = "loop" => tscan[t] = TScanStart
    /\ tpc[t] = "scan" =>
          /\ tscan[t].i \in Threads
          /\ tscan[t].load >= -1
          /\ tscan[t].i = 1 => tscan[t].load = -1
          /\ tscan[t].i > 1 => tscan[t].tt \in Threads
    /\ tpc[t] = "steal" => tscan[t].tt \in Threads

LEMMA AcceptScanStep ==
    ASSUME IInv, AcceptScan
    PROVE  AcceptTypes' /\ AcceptScans'
<1> USE ConstantsAssumption DEF IInv, Threads
<1>1. PICK load \in Readings(ascan.i) :
         LET i    == ascan.i
             less == load < ascan.load \/ ascan.load < 0
         IN  /\ ascan' = [i    |-> i + 1,
                          tt   |-> IF Light(load) \/ less \/ ascan.tt = 0 THEN i ELSE ascan.tt,
                          load |-> IF ~Light(load) /\ less THEN load ELSE ascan.load]
             /\ apc' = IF Light(load) \/ i = NumThreads THEN "enqueue" ELSE "scan"
    BY DEF AcceptScan
<1>2. ascan.i \in 1..NumThreads /\ ascan.tt \in 0..NumThreads /\ ascan.load \in Int
    BY DEF AcceptScan, Scans, TypeOK
<1>3. load \in Int
    BY <1>2, ReadingsNat
<1>4. /\ ascan'.i = ascan.i + 1
      /\ ascan'.tt \in 1..NumThreads
      /\ ascan'.load \in Int
      /\ ascan' = [i |-> ascan'.i, tt |-> ascan'.tt, load |-> ascan'.load]
    BY <1>1, <1>2, <1>3
<1>5. apc' \in {"scan", "enqueue"} /\ (apc' = "scan" => ascan.i # NumThreads)
    BY <1>1
<1>6. UNCHANGED <<running, unseen, asock, aref>>
    BY DEF AcceptScan
<1> QED BY <1>2, <1>4, <1>5, <1>6 DEF AcceptTypes, AcceptScans, TypeOK

LEMMA StealScanStep ==
    ASSUME IInv, NEW t \in Threads, StealScan(t)
    PROVE  ThreadTypes' /\ \A u \in Threads : ThreadScan(u)'
<1> USE ConstantsAssumption DEF IInv
<1>1. PICK load \in Readings(tscan[t].i) :
         LET i    == tscan[t].i
             more == load > tscan[t].load
         IN  /\ tscan' = [tscan EXCEPT ![t] =
                             [i    |-> i + 1,
                              tt   |-> IF more THEN i ELSE @.tt,
                              load |-> IF more THEN load ELSE @.load]]
             /\ tpc' = [tpc EXCEPT ![t] = IF i = NumThreads THEN "steal" ELSE "scan"]
    BY DEF StealScan
<1> DEFINE i == tscan[t].i
           more == load > tscan[t].load
           new == [i    |-> i + 1,
                   tt   |-> IF more THEN i ELSE tscan[t].tt,
                   load |-> IF more THEN load ELSE tscan[t].load]
<1>2. /\ tpc[t] = "scan"
      /\ i \in 1..NumThreads
      /\ tscan[t].tt \in 0..NumThreads
      /\ tscan[t].load \in Int
      /\ tscan[t].load >= -1
      /\ i = 1 => tscan[t].load = -1
      /\ i > 1 => tscan[t].tt \in Threads
    BY DEF StealScan, Scans, TypeOK, Threads
<1>3. load \in Nat
    BY <1>2, ReadingsNat DEF Threads
<1>4. /\ new \in [i : 1..NumThreads + 1, tt : 0..NumThreads, load : Int]
      /\ new.i = i + 1
      /\ new.load >= -1
      /\ new.tt \in Threads
    BY <1>2, <1>3 DEF Threads
<1>5. tscan' = [tscan EXCEPT ![t] = new]
    BY <1>1
<1> HIDE DEF new
<1>6. \A u \in Threads : tscan'[u] = IF u = t THEN new ELSE tscan[u]
    BY <1>5 DEF TypeOK
<1>7. \A u \in Threads : tpc'[u] = IF u = t THEN (IF i = NumThreads THEN "steal" ELSE "scan") ELSE tpc[u]
    BY <1>1 DEF TypeOK
<1>11. tscan' \in [Threads -> [i : 1..NumThreads + 1, tt : 0..NumThreads, load : Int]]
    BY <1>4, <1>5 DEF TypeOK
<1>12. tpc' \in [Threads -> {"loop", "scan", "steal"}]
    BY <1>1 DEF TypeOK
<1>13. up' \in [Threads -> BOOLEAN]
    BY DEF StealScan, TypeOK
<1>8. ThreadTypes'
    BY <1>11, <1>12, <1>13 DEF ThreadTypes
<1>9. ThreadScan(t)'
  <2>1. tpc'[t] = (IF i = NumThreads THEN "steal" ELSE "scan") /\ tscan'[t] = new
      BY <1>6, <1>7
  <2>2. i # NumThreads => i + 1 \in Threads
      BY <1>2 DEF Threads
  <2>3. i + 1 # 1
      BY <1>2
  <2> QED BY <2>1, <2>2, <2>3, <1>4 DEF ThreadScan
<1>10. \A u \in Threads : u # t => ThreadScan(u)'
    BY <1>6, <1>7 DEF ThreadScan, Scans
<1> QED BY <1>8, <1>9, <1>10

LEMMA LoopsStep == IInv /\ [Next]_vars => AcceptTypes' /\ ThreadTypes' /\ Scans'
<1> SUFFICES ASSUME IInv, [Next]_vars PROVE AcceptTypes' /\ ThreadTypes' /\ Scans'
    OBVIOUS
<1> USE ConstantsAssumption DEF IInv
<1>0. /\ AcceptTypes /\ AcceptScans
      /\ ThreadTypes /\ \A t \in Threads : ThreadScan(t)
    BY DEF TypeOK, Scans, AcceptTypes, AcceptScans, ThreadTypes, ThreadScan
<1>1. UNCHANGED <<running, acceptVars>> => AcceptTypes' /\ AcceptScans'
    BY <1>0 DEF acceptVars, AcceptTypes, AcceptScans
<1>2. UNCHANGED threadVars => ThreadTypes' /\ \A t \in Threads : ThreadScan(t)'
    BY <1>0 DEF threadVars, ThreadTypes, ThreadScan
<1>3. SUFFICES AcceptTypes' /\ AcceptScans' /\ ThreadTypes' /\ \A t \in Threads : ThreadScan(t)'
    BY DEF Scans, AcceptScans, ThreadScan
<1>4. CASE AcceptScan
    BY <1>4, <1>2, AcceptScanStep DEF AcceptScan
<1>5. CASE Stop \/ AcceptCheck \/ AcceptError \/ Enqueue \/ EnqueueReturns
  <2>1. UNCHANGED threadVars
      BY <1>5 DEF Stop, AcceptCheck, AcceptError, Enqueue, EnqueueReturns
  <2>2. AScanStart \in [i : 1..NumThreads + 1, tt : 0..NumThreads, load : Int]
      BY DEF AScanStart
  <2>3. ASSUME Stop PROVE AcceptTypes' /\ AcceptScans'
      BY <1>0, <2>3 DEF Stop, acceptVars, AcceptTypes, AcceptScans
  <2>4. ASSUME AcceptCheck \/ AcceptError PROVE AcceptTypes' /\ AcceptScans'
      BY <1>0, <2>4 DEF AcceptCheck, AcceptError, AcceptTypes, AcceptScans
  <2>5. ASSUME Enqueue \/ EnqueueReturns PROVE AcceptTypes' /\ AcceptScans'
      BY <1>0, <2>2, <2>5 DEF Enqueue, EnqueueReturns, AcceptTypes, AcceptScans
  <2> QED BY <1>2, <1>5, <2>1, <2>3, <2>4, <2>5
<1>6. ASSUME NEW c \in Conns, Accept(c) PROVE AcceptTypes' /\ AcceptScans' /\ UNCHANGED threadVars
    BY <1>0, <1>6 DEF Accept, AcceptTypes, AcceptScans, AScanStart, Threads
<1>7. ASSUME NEW t \in Threads, ThreadRunner(t) \/ DequeueOwn(t) \/ DequeueMiss(t) \/ Steal(t)
      PROVE ThreadTypes' /\ (\A u \in Threads : ThreadScan(u)') /\ UNCHANGED <<running, acceptVars>>
  <2>1. CASE ThreadRunner(t)
    <3>1. up' = [up EXCEPT ![t] = TRUE] /\ UNCHANGED <<running, acceptVars, tpc, tscan>>
        BY <2>1 DEF ThreadRunner
    <3>2. up' \in [Threads -> BOOLEAN]
        BY <3>1, <1>0 DEF ThreadTypes
    <3> QED BY <1>0, <3>1, <3>2 DEF ThreadTypes, ThreadScan
  <2>4. CASE DequeueOwn(t)
      BY <1>2, <2>4 DEF DequeueOwn
  <2>2. CASE DequeueMiss(t)
    <3>1. /\ tpc' = [tpc EXCEPT ![t] = "scan"] /\ tpc[t] = "loop"
          /\ UNCHANGED <<running, acceptVars, up, tscan>>
        BY <2>2 DEF DequeueMiss
    <3>2. ThreadTypes'
        BY <1>0, <3>1 DEF ThreadTypes
    <3>3. \A u \in Threads : tpc'[u] = IF u = t THEN "scan" ELSE tpc[u]
        BY <1>0, <3>1 DEF ThreadTypes
    <3>4. tscan'[t] = TScanStart /\ 1 \in Threads
        BY <1>0, <3>1 DEF ThreadScan, Threads
    <3>5. ThreadScan(t)'
        BY <3>3, <3>4 DEF ThreadScan, TScanStart
    <3>6. \A u \in Threads : u # t => ThreadScan(u)'
        BY <1>0, <3>1, <3>3 DEF ThreadScan
    <3> QED BY <3>1, <3>2, <3>5, <3>6
  <2>3. CASE Steal(t)
    <3>1. /\ tpc' = [tpc EXCEPT ![t] = "loop"]
          /\ tscan' = [tscan EXCEPT ![t] = TScanStart]
          /\ UNCHANGED <<running, acceptVars, up>>
        BY <2>3 DEF Steal
    <3>2. TScanStart \in [i : 1..NumThreads + 1, tt : 0..NumThreads, load : Int]
        BY DEF TScanStart
    <3>3. ThreadTypes'
        BY <1>0, <3>1, <3>2 DEF ThreadTypes
    <3>4. \A u \in Threads : /\ tpc'[u] = (IF u = t THEN "loop" ELSE tpc[u])
                            /\ tscan'[u] = (IF u = t THEN TScanStart ELSE tscan[u])
        BY <1>0, <3>1 DEF ThreadTypes
    <3>5. \A u \in Threads : ThreadScan(u)'
        BY <1>0, <3>4 DEF ThreadScan
    <3> QED BY <3>1, <3>3, <3>5
  <2> QED BY <1>7, <2>1, <2>2, <2>3, <2>4
<1>8. ASSUME NEW t \in Threads, StealScan(t)
      PROVE ThreadTypes' /\ (\A u \in Threads : ThreadScan(u)') /\ UNCHANGED <<running, acceptVars>>
    BY <1>8, StealScanStep DEF StealScan
<1>9. ASSUME NEW t \in Threads, NEW w \in Workers, Handler(t, w)
      PROVE UNCHANGED <<running, acceptVars, threadVars>>
    BY <1>9, HandlerStep
<1>10. CASE UNCHANGED vars
    BY <1>10, <1>1, <1>2 DEF vars
<1> QED BY <1>1, <1>2, <1>4, <1>5, <1>6, <1>7, <1>8, <1>9, <1>10 DEF Next, AcceptorStep, Tick

THEOREM Inductive == IInv /\ [Next]_vars => IInv'
BY ConnectionsStep, LoopsStep
   DEF IInv, Connections, ConnTypes, AcceptTypes, ThreadTypes, TypeOK

\* The invariant holds of every execution.
THEOREM Invariant == Spec => []IInv
BY InitIInv, Inductive, PTL DEF Spec

-----------------------------------------------------------------------------
(* The properties the runs check. *)

\* Every variable keeps its type; open_connections never becomes negative
\* although three kinds of owners destroy connections.
THEOREM TypeCorrect == Spec => []TypeOK
BY Invariant, PTL DEF IInv

\* Enqueueing, stealing and dispatching never duplicate a connection.
THEOREM OwnersUnique == Spec => []OneOwner
<1>1. IInv => OneOwner
    BY DEF IInv, Owners, OneOwner, QueueInjective, ServedOnce
<1> QED BY <1>1, Invariant, PTL

\* open_connections is the number of referenced connections.
THEOREM CounterExact == Spec => []CountExact
<1>1. IInv => CountExact
    BY DEF IInv, Counting, CountExact
<1> QED BY <1>1, Invariant, PTL

\* The accept thread's check of the limit, made before it blocks in ::accept,
\* bounds the connections by MaxOpen + 1.
THEOREM LimitRespected == Spec => []WithinLimit
<1>1. IInv => WithinLimit
    BY DEF IInv, Limit, WithinLimit
<1> QED BY <1>1, Invariant, PTL

\* No asynchronous operation runs on a closed descriptor or a destroyed
\* connection.
THEOREM SocketsUsable == Spec => []SocketUsable
<1>1. IInv => SocketUsable
    BY DEF IInv, Fresh, Counting, SocketUsable
<1> QED BY <1>1, Invariant, PTL

\* Idle threads keep at most one finished connection each counted.
THEOREM RetentionBounded == Spec => []RetentionBound
<1>1. ASSUME IInv PROVE RetentionBound
  <2> DEFINE T == {held[t] : t \in Threads}
  <2>1. IsFiniteSet(Threads) /\ Cardinality(Threads) = NumThreads
      BY ConstantsAssumption, FS_Interval DEF Threads
  <2>2. IsFiniteSet(T) /\ Cardinality(T) <= NumThreads
    <3>1. held \in Surjection(Threads, T)
        BY <1>1 DEF IInv, TypeOK, Surjection
    <3> HIDE DEF T
    <3> QED BY <2>1, <3>1, FS_Surjection
  <2>3. CASE apc = "check"
    <3>1. Passing = {}
        BY <1>1, <2>3 DEF IInv, Fresh, Passing
    <3>2. alive \ (AllQueued \cup Served) \subseteq T
        BY <1>1, <3>1 DEF IInv, Counting, Retained
    <3> DEFINE R == alive \ (AllQueued \cup Served)
    <3> HIDE DEF R, T
    <3>3. IsFiniteSet(R) /\ Cardinality(R) <= Cardinality(T)
        BY <2>2, <3>2, FS_Subset DEF R
    <3>4. Cardinality(R) \in Nat /\ Cardinality(T) \in Nat
        BY <2>2, <3>3, FS_CardinalityType
    <3> QED BY <2>2, <3>3, <3>4, ConstantsAssumption DEF R, RetentionBound
  <2> QED BY <2>3 DEF RetentionBound
<1> QED BY <1>1, Invariant, PTL

\* With more workers per thread than the limit admits beyond one, a thread
\* that dequeues has a finished worker: otherwise its workers and the queue
\* would hold more connections than are counted.
LEMMA FreeWorkerExists ==
    ASSUME IInv, NumWorkers > MaxOpen,
           NEW t \in Threads, NEW v \in Threads, queue[v] # <<>>
    PROVE  FreeWorkers(t) # {}
<1> SUFFICES ASSUME FreeWorkers(t) = {} PROVE FALSE
    OBVIOUS
<1> USE ConstantsAssumption
<1> DEFINE f == [w \in Workers |-> wconn[<<t, w>>]]
           c == Head(queue[v])
<1>1. \A w \in Workers : <<t, w>> \in Slots /\ wconn[<<t, w>>] # NoConn
    BY DEF FreeWorkers, Finished, Slots, IInv, Owners
<1>2. f \in Injection(Workers, Served)
  <2>1. f \in [Workers -> Served]
      BY <1>1 DEF Served
  <2>2. \A w, x \in Workers : f[w] = f[x] => w = x
      BY <1>1 DEF IInv, Owners, ServedOnce
  <2> QED BY <2>1, <2>2 DEF Injection, IsInjective
<1>3. c \in AllQueued /\ c \notin Served
  <2>1. queue[v] \in Seq(Conns) /\ 1 \in 1..Len(queue[v]) /\ c = queue[v][1]
      BY DEF IInv, TypeOK
  <2>2. c \in AllQueued
      BY <2>1, QueuedMembers
  <2> QED BY <2>2 DEF IInv, Owners
<1>4. IsFiniteSet(alive) /\ Served \subseteq alive /\ Served \cup {c} \subseteq alive
    BY <1>3, FS_Subset DEF IInv, TypeOK, Counting
<1> HIDE DEF f, c
<1>5. IsFiniteSet(Served) /\ IsFiniteSet(Served \cup {c})
    BY <1>4, FS_Subset
<1>6. Cardinality(Workers) = NumWorkers
    BY FS_Interval DEF Workers
<1>7. NumWorkers <= Cardinality(Served)
    BY <1>2, <1>5, <1>6, FS_Injection
<1>8. Cardinality(Served \cup {c}) = Cardinality(Served) + 1
    BY <1>3, <1>5, FS_AddElement
<1>9. Cardinality(Served \cup {c}) <= Cardinality(alive)
    BY <1>4, FS_Subset
<1>10. Cardinality(Served) \in Nat /\ Cardinality(alive) \in Nat
    BY <1>4, <1>5, FS_CardinalityType
<1>11. Cardinality(alive) <= MaxOpen + 1
    BY DEF IInv, Counting, Limit
<1> QED BY <1>7, <1>8, <1>9, <1>10, <1>11

\* What NothingLost adds to the invariant, one dispatch at a time: the
\* connection that leaves the queue has a worker afterwards.
LEMMA DispatchLosesNothing ==
    ASSUME IInv, NumWorkers > MaxOpen,
           NEW t \in Threads, NEW v \in Threads, queue[v] # <<>>, Dispatch(t, v)
    PROVE  AllQueued \cup Served \subseteq AllQueued' \cup Served'
<1> DEFINE c == Head(queue[v])
<1>1. /\ queue \in [Threads -> Seq(Conns)] /\ QueueInjective
      /\ queue' = [queue EXCEPT ![v] = Tail(@)]
    BY DEF IInv, TypeOK, Owners, Dispatch
<1>2. AllQueued' = AllQueued \ {c} /\ c \in AllQueued
    BY <1>1, Pop1
<1>3. PICK w \in FreeWorkers(t) : wconn' = [wconn EXCEPT ![<<t, w>>] = c]
    BY FreeWorkerExists DEF Dispatch, StartWorker
<1>4. /\ <<t, w>> \in Slots
      /\ wconn[<<t, w>>] = NoConn
      /\ c \in Conns
      /\ c \notin Served
      /\ ServedOnce
      /\ wconn \in [Slots -> Conns \cup {NoConn}]
    BY <1>1, <1>2 DEF FreeWorkers, Finished, Slots, IInv, Owners, TypeOK
<1> HIDE DEF c
<1>5. Served' = Served \cup {c}
    BY <1>3, <1>4, Start1
<1> QED BY <1>2, <1>5

LEMMA NothingLostStep ==
    ASSUME IInv, NothingLost, [Next]_vars
    PROVE  NothingLost'
<1> SUFFICES ASSUME NumWorkers > MaxOpen, fds \subseteq AllQueued \cup Served \cup {asock}
             PROVE  fds' \subseteq AllQueued' \cup Served' \cup {asock'}
    BY DEF NothingLost, Lost
<1>1. UNCHANGED <<queue, wconn>> => AllQueued' = AllQueued /\ Served' = Served
    BY DEF AllQueued, Queued, Served
<1>2. CASE Stop \/ AcceptCheck \/ AcceptError \/ AcceptScan \/ EnqueueReturns
    BY <1>1, <1>2
    DEF Stop, AcceptCheck, AcceptError, AcceptScan, EnqueueReturns, acceptVars, connVars
<1>3. ASSUME NEW c \in Conns, Accept(c)
      PROVE  fds' \subseteq AllQueued' \cup Served' \cup {asock'}
  <2>1. asock \notin fds
      BY <1>3, ConstantsAssumption DEF Accept, IInv, Fresh, TypeOK
  <2> QED BY <1>1, <1>3, <2>1 DEF Accept
<1>4. CASE Enqueue
    BY <1>4, EnqueueStep DEF IInv, Enqueue
<1>5. ASSUME NEW t \in Threads, NEW v \in Threads, queue[v] # <<>>, Dispatch(t, v), UNCHANGED acceptVars
      PROVE  fds' \subseteq AllQueued' \cup Served' \cup {asock'}
    BY <1>5, DispatchLosesNothing DEF Dispatch, acceptVars
<1>6. ASSUME NEW t \in Threads, ThreadRunner(t) \/ Tick(t)
      PROVE  fds' \subseteq AllQueued' \cup Served' \cup {asock'}
  <2>1. CASE UNCHANGED <<acceptVars, connVars>>
      BY <1>1, <2>1 DEF acceptVars, connVars
  <2>2. CASE DequeueOwn(t)
      BY <2>2, <1>5 DEF DequeueOwn
  <2>3. CASE Steal(t)
    <3>1. tscan[t].tt \in Threads
        BY <2>3 DEF Steal, IInv, Scans
    <3> QED BY <2>1, <2>3, <3>1, <1>5 DEF Steal
  <2>4. ThreadRunner(t) \/ DequeueMiss(t) \/ StealScan(t) => UNCHANGED <<acceptVars, connVars>>
      BY DEF ThreadRunner, DequeueMiss, StealScan
  <2> QED BY <1>6, <2>1, <2>2, <2>3, <2>4 DEF Tick
<1>7. ASSUME NEW t \in Threads, NEW w \in Workers, Handler(t, w)
      PROVE  fds' \subseteq AllQueued' \cup Served' \cup {asock'}
  <2>1. CASE ReadOk(t, w)
      BY <1>1, <2>1 DEF ReadOk, acceptVars
  <2>2. CASE ReadError(t, w) \/ WriteHandler(t, w)
    <3>1. /\ phase[<<t, w>>] # "idle"
          /\ CloseSocket(t, w)
          /\ UNCHANGED acceptVars
        BY <2>2 DEF ReadError, WriteHandler
    <3>2. /\ fds' = fds \ {wconn[<<t, w>>]}
          /\ wconn' = [wconn EXCEPT ![<<t, w>>] = NoConn]
          /\ UNCHANGED <<queue, asock>>
        BY <3>1 DEF CloseSocket, acceptVars
    <3>3. <<t, w>> \in Slots /\ wconn[<<t, w>>] # NoConn
        BY <3>1 DEF Slots, IInv, Owners
    <3>4. Served' = Served \ {wconn[<<t, w>>]}
        BY <3>2, <3>3, Close1 DEF IInv, TypeOK, Owners
    <3>5. AllQueued' = AllQueued
        BY <3>2 DEF AllQueued, Queued
    <3> QED BY <3>2, <3>4, <3>5
  <2> QED BY <1>7, <2>1, <2>2 DEF Handler
<1>8. CASE UNCHANGED vars
    BY <1>1, <1>8 DEF vars, acceptVars, connVars
<1> QED BY <1>2, <1>3, <1>4, <1>6, <1>7, <1>8 DEF Next, AcceptorStep

\* With NumWorkers > MaxOpen no connection is dropped for want of a worker.
THEOREM EnoughWorkersLoseNothing == Spec => []NothingLost
<1>1. Init => NothingLost
    BY DEF Init, InitWith, NothingLost, Lost
<1>2. IInv /\ NothingLost /\ [Next]_vars => NothingLost'
    BY NothingLostStep
<1> QED BY <1>1, <1>2, Invariant, PTL DEF Spec

\* The destructor's own check, which fails in general, never fires then.
THEOREM EnoughWorkersCloseProperly == Spec => [](NumWorkers > MaxOpen => ClosedProperly)
<1>1. IInv /\ NothingLost => (NumWorkers > MaxOpen => ClosedProperly)
    BY DEF NothingLost, Lost, ClosedProperly, IInv, Counting
<1> QED BY <1>1, Invariant, EnoughWorkersLoseNothing, PTL

-----------------------------------------------------------------------------
(* The refinement of ConnectionLifecycle. *)

\* The stages are told apart by disjoint sets.
LEMMA StageCases ==
    ASSUME IInv, NEW c \in Conns
    PROVE  /\ c \in Waiting => Stage(c) = "waiting"
           /\ c \in AllQueued => Stage(c) = "queued"
           /\ c \in Served => Stage(c) = "serving"
           /\ c \in Lost => Stage(c) = "lost"
           /\ c \notin Waiting \cup AllQueued \cup Served \cup Lost => Stage(c) = "closed"
<1>1. Waiting \cap (AllQueued \cup Served \cup Lost) = {}
    BY DEF IInv, Fresh, Counting, Waiting, Lost
<1>2. AllQueued \cap Served = {} /\ Lost \cap (AllQueued \cup Served) = {}
    BY DEF IInv, Owners, Lost
<1> QED BY <1>1, <1>2 DEF Stage

LEMMA StageCasesNext ==
    ASSUME IInv', NEW c \in Conns
    PROVE  /\ c \in AllQueued' => Stage(c)' = "queued"
           /\ c \in Served' => Stage(c)' = "serving"
           /\ c \in Lost' => Stage(c)' = "lost"
           /\ c \notin Waiting' \cup AllQueued' \cup Served' \cup Lost' => Stage(c)' = "closed"
<1>1. Waiting' \cap (AllQueued' \cup Served' \cup Lost') = {}
    BY DEF IInv, Fresh, Counting, Waiting, Lost
<1>2. AllQueued' \cap Served' = {} /\ Lost' \cap (AllQueued' \cup Served') = {}
    BY DEF IInv, Owners, Lost
<1> QED BY <1>1, <1>2 DEF Stage

\* The instance has its own copy of the standard definition of Cardinality.
LEMMA SameCardinality == \A S : Lifecycle!Cardinality(S) = Cardinality(S)
BY DEF Cardinality, Lifecycle!Cardinality

\* A connection whose memberships do not change stays in its stage.
SameStage(c) ==
    /\ c \in Waiting' <=> c \in Waiting
    /\ c \in AllQueued' <=> c \in AllQueued
    /\ c \in Served' <=> c \in Served
    /\ c \in Lost' <=> c \in Lost

LEMMA OneMoves ==
    ASSUME NEW c \in Conns, \A d \in Conns : d # c => SameStage(d)
    PROVE  Status' = [Status EXCEPT ![c] = Stage(c)']
<1>1. \A d \in Conns : d # c => Stage(d)' = Stage(d)
    BY DEF SameStage, Stage
<1> QED BY <1>1 DEF Status

LEMMA NoneMoves ==
    ASSUME \A d \in Conns : SameStage(d)
    PROVE  Status' = Status
<1>1. \A d \in Conns : Stage(d)' = Stage(d)
    BY DEF SameStage, Stage
<1> QED BY <1>1 DEF Status

\* What is counted but neither queued nor served has ended.
LEMMA CountedEnded ==
    ASSUME IInv, NEW c \in alive, c \notin AllQueued \cup Served
    PROVE  c \in Conns /\ Status[c] \in {"closed", "lost"}
<1>1. c \in Conns /\ c \notin Waiting
    BY DEF IInv, TypeOK, Fresh, Waiting
<1>2. Stage(c) \in {"closed", "lost"}
    BY <1>1, StageCases
<1> QED BY <1>1, <1>2 DEF Status

LEMMA InitRefines == Init => Lifecycle!Init
<1> SUFFICES ASSUME Init PROVE Lifecycle!Init
    OBVIOUS
<1>1. \A c \in Conns : Stage(c) = "waiting"
    BY InitIInv, StageCases DEF Init, InitWith, Waiting
<1> QED BY <1>1 DEF Init, InitWith, Lifecycle!Init, Status

LEMMA EnqueueAdmits ==
    ASSUME IInv, IInv', Enqueue
    PROVE  \E c \in Conns : Lifecycle!Admit(c)
<1> PICK c \in Conns : c = asock
    BY DEF Enqueue, IInv, Fresh, TypeOK
<1>1. /\ AllQueued' = AllQueued \cup {c}
      /\ Served' = Served
      /\ alive' = alive \cup {c}
      /\ fds' = fds /\ unseen' = unseen /\ asock' = NoConn
    BY EnqueueStep DEF IInv, Enqueue
<1>2. \A d \in Conns : d # c => SameStage(d)
    BY <1>1, ConstantsAssumption DEF SameStage, Waiting, Lost
<1>3. Stage(c)' = "queued" /\ Status[c] = "waiting"
    BY <1>1, StageCases, StageCasesNext DEF Waiting, Status
<1>4. Cardinality(alive) <= MaxOpen
    BY DEF Enqueue, IInv, Limit, Counting
<1>5. Status' = [Status EXCEPT ![c] = "queued"]
    BY <1>1, <1>2, <1>3, OneMoves
<1>6. Status[c] = "waiting" /\ alive' = alive \cup {c}
    BY <1>1, <1>3
<1>7. Lifecycle!Admit(c)
    BY <1>4, <1>5, <1>6, SameCardinality DEF Lifecycle!Admit
<1> QED BY <1>7

LEMMA EnqueueReturnsForgets ==
    ASSUME IInv, IInv', EnqueueReturns
    PROVE  (\E c \in Conns : Lifecycle!Forget(c)) \/ UNCHANGED <<Status, alive>>
<1> DEFINE gone == {aref} \ (AllQueued \cup Served \cup Retained)
<1>1. /\ alive' = alive \ gone
      /\ UNCHANGED <<queue, wconn, fds, unseen, asock>>
      /\ aref # NoConn
    BY DEF EnqueueReturns, Destroy, IInv, Fresh
<1>2. AllQueued' = AllQueued /\ Served' = Served
    BY <1>1 DEF AllQueued, Queued, Served
<1>3. \A d \in Conns : SameStage(d)
    BY <1>1, <1>2 DEF SameStage, Waiting, Lost
<1>4. Status' = Status
    BY <1>3, NoneMoves
<1>5. CASE gone = {}
    BY <1>1, <1>4, <1>5
<1>6. CASE gone = {aref}
  <2>1. aref \in alive /\ aref \notin AllQueued \cup Served
      BY <1>1, <1>6 DEF IInv, Counting, Passing
  <2>2. aref \in Conns /\ Status[aref] \in {"closed", "lost"}
      BY <2>1, CountedEnded
  <2>3. alive' = alive \ {aref}
      BY <1>1, <1>6
  <2> QED BY <1>4, <2>1, <2>2, <2>3 DEF Lifecycle!Forget, Lifecycle!Ended
<1> QED BY <1>5, <1>6

LEMMA DispatchBeginsOrLoses ==
    ASSUME IInv, IInv', NEW t \in Threads, NEW v \in Threads, queue[v] # <<>>,
           Dispatch(t, v), UNCHANGED acceptVars
    PROVE  \E c \in Conns : Lifecycle!Begin(c) \/ Lifecycle!Lose(c)
<1>10. queue[v] \in Seq(Conns)
    BY DEF IInv, TypeOK
<1> PICK c \in Conns : c = Head(queue[v])
    BY <1>10
<1> DEFINE gone == {held[t]} \ (Served \cup Passing \cup {NoConn})
<1>1. /\ queue' = [queue EXCEPT ![v] = Tail(@)]
      /\ queue \in [Threads -> Seq(Conns)] /\ QueueInjective
      /\ alive' = alive \ gone
      /\ UNCHANGED <<fds, unseen, asock, aref>>
    BY DEF Dispatch, Destroy, acceptVars, IInv, TypeOK, Owners
<1>2. AllQueued' = AllQueued \ {c} /\ c \in AllQueued
    BY <1>1, Pop1
<1>3. c \notin Served /\ c \notin Retained /\ c \in fds /\ c \notin Waiting
    BY <1>1, <1>2 DEF IInv, Owners, Fresh, Counting, Waiting
<1>4. Status[c] = "queued"
    BY <1>1, <1>2, StageCases DEF Status
<1>5. gone \subseteq Retained
    BY DEF Retained
<1>6. \A d \in alive \ alive' : d # c /\ d \in Conns /\ Status[d] \in {"closed", "lost"}
    BY <1>1, <1>2, <1>3, <1>5, CountedEnded DEF IInv, Owners
<1> HIDE DEF gone
<1>7. CASE UNCHANGED wconn
  <2>1. Served' = Served
      BY <1>7 DEF Served
  <2>2. \A d \in Conns : d # c => SameStage(d)
      BY <1>1, <1>2, <2>1 DEF SameStage, Waiting, Lost
  <2>3. Stage(c)' = "lost"
    <3>1. c \in Lost'
        BY <1>1, <1>2, <1>3, <2>1 DEF Lost, Waiting
    <3> QED BY <1>1, <3>1, StageCasesNext
  <2>4. Status' = [Status EXCEPT ![c] = "lost"]
      BY <1>1, <2>2, <2>3, OneMoves
  <2>5. \A d \in alive \ alive' : Status'[d] \in {"closed", "lost"}
      BY <1>6, <2>4 DEF Status
  <2>6. alive' \in SUBSET alive
      BY <1>1
  <2>7. Lifecycle!Lose(c)
      BY <1>4, <2>4, <2>5, <2>6 DEF Lifecycle!Lose, Lifecycle!Move, Lifecycle!Ended
  <2> QED BY <1>1, <2>7
<1>8. ASSUME NEW w \in FreeWorkers(t), wconn' = [wconn EXCEPT ![<<t, w>>] = c]
      PROVE  \E d \in Conns : Lifecycle!Begin(d) \/ Lifecycle!Lose(d)
  <2>1. <<t, w>> \in Slots /\ wconn[<<t, w>>] = NoConn
      BY DEF FreeWorkers, Finished, Slots, IInv, Owners
  <2>2. Served' = Served \cup {c}
      BY <1>1, <1>3, <1>8, <2>1, Start1 DEF IInv, TypeOK, Owners
  <2>3. \A d \in Conns : d # c => SameStage(d)
      BY <1>1, <1>2, <2>2 DEF SameStage, Waiting, Lost
  <2>4. Stage(c)' = "serving"
      BY <1>1, <2>2, StageCasesNext
  <2>5. Status' = [Status EXCEPT ![c] = "serving"]
      BY <1>1, <2>3, <2>4, OneMoves
  <2>6. \A d \in alive \ alive' : Status'[d] \in {"closed", "lost"}
      BY <1>6, <2>5 DEF Status
  <2>7. alive' \in SUBSET alive
      BY <1>1
  <2>8. Lifecycle!Begin(c)
      BY <1>4, <2>5, <2>6, <2>7 DEF Lifecycle!Begin, Lifecycle!Move, Lifecycle!Ended
  <2> QED BY <1>1, <2>8
<1>9. \/ UNCHANGED wconn
      \/ \E w \in FreeWorkers(t) : wconn' = [wconn EXCEPT ![<<t, w>>] = c]
    BY DEF Dispatch, StartWorker
<1> QED BY <1>7, <1>8, <1>9

LEMMA CloseSocketFinishes ==
    ASSUME IInv, IInv', NEW t \in Threads, NEW w \in Workers,
           phase[<<t, w>>] # "idle", CloseSocket(t, w), UNCHANGED acceptVars
    PROVE  \E c \in Conns : Lifecycle!Finish(c)
<1> DEFINE s == <<t, w>>
<1>20. s \in Slots /\ wconn[s] # NoConn /\ wconn[s] \in Conns
    BY DEF Slots, IInv, Owners, TypeOK
<1> PICK c \in Conns : c = wconn[s]
    BY <1>20
<1> DEFINE gone == {c} \ ({held[t]} \cup Passing)
<1>1. /\ wconn' = [wconn EXCEPT ![s] = NoConn]
      /\ fds' = fds \ {c}
      /\ alive' = alive \ gone
      /\ UNCHANGED <<queue, unseen, asock>>
    BY DEF CloseSocket, Destroy, acceptVars
<1>2. s \in Slots /\ c = wconn[s] /\ c # NoConn
    BY <1>20
<1> HIDE DEF s
<1>21. wconn \in [Slots -> Conns \cup {NoConn}] /\ ServedOnce
    BY DEF IInv, TypeOK, Owners
<1>3. Served' = Served \ {c} /\ c \in Served
    BY <1>1, <1>20, <1>21, Close1
<1>4. AllQueued' = AllQueued
    BY <1>1 DEF AllQueued, Queued
<1>5. c \notin AllQueued /\ c \notin Waiting
    BY <1>3 DEF IInv, Owners, Fresh, Counting, Waiting
<1>6. gone \subseteq {c}
    OBVIOUS
<1> HIDE DEF gone
<1>7. \A d \in Conns : d # c => SameStage(d)
    BY <1>1, <1>3, <1>4 DEF SameStage, Waiting, Lost
<1>8. Stage(c)' = "closed"
  <2>1. c \notin Waiting' \cup AllQueued' \cup Served' \cup Lost'
      BY <1>1, <1>3, <1>4, <1>5 DEF Waiting, Lost
  <2> QED BY <1>2, <2>1, StageCasesNext
<1>9. Status' = [Status EXCEPT ![c] = "closed"]
    BY <1>2, <1>7, <1>8, OneMoves
<1>10. Status[c] = "serving"
    BY <1>2, <1>3, StageCases DEF Status
<1>11. \A d \in alive \ alive' : Status'[d] \in {"closed", "lost"}
    BY <1>1, <1>2, <1>6, <1>9 DEF Status
<1>12. alive' \in SUBSET alive
    BY <1>1
<1>13. Lifecycle!Finish(c)
    BY <1>9, <1>10, <1>11, <1>12 DEF Lifecycle!Finish, Lifecycle!Move, Lifecycle!Ended
<1> QED BY <1>2, <1>13

LEMMA StepRefines ==
    ASSUME IInv, IInv', [Next]_vars
    PROVE  [Lifecycle!Next]_(Lifecycle!vars)
<1> DEFINE Goal == (\E c \in Conns : \/ Lifecycle!Admit(c) \/ Lifecycle!Begin(c) \/ Lifecycle!Lose(c)
                                    \/ Lifecycle!Finish(c) \/ Lifecycle!Forget(c))
                   \/ UNCHANGED <<Status, alive>>
<1> SUFFICES Goal
    BY DEF Lifecycle!Next, Lifecycle!vars
<1>1. UNCHANGED <<unseen, asock, queue, wconn, fds, alive>> => Goal
  <2> SUFFICES ASSUME UNCHANGED <<unseen, asock, queue, wconn, fds, alive>> PROVE Goal
      OBVIOUS
  <2>1. AllQueued' = AllQueued /\ Served' = Served
      BY DEF AllQueued, Queued, Served
  <2>2. \A d \in Conns : SameStage(d)
      BY <2>1 DEF SameStage, Waiting, Lost
  <2> QED BY <2>2, NoneMoves
<1>2. CASE Stop \/ AcceptCheck \/ AcceptError \/ AcceptScan
    BY <1>1, <1>2 DEF Stop, AcceptCheck, AcceptError, AcceptScan, acceptVars, connVars
<1>3. ASSUME NEW c \in Conns, Accept(c) PROVE Goal
  <2>1. /\ c \in unseen /\ unseen' = unseen \ {c}
        /\ asock' = c /\ asock = NoConn
        /\ fds' = fds \cup {c}
        /\ UNCHANGED <<queue, wconn, alive>>
      BY <1>3 DEF Accept, IInv, Fresh
  <2>2. AllQueued' = AllQueued /\ Served' = Served
      BY <2>1 DEF AllQueued, Queued, Served
  <2>3. c \notin fds /\ NoConn \notin Conns
      BY <2>1, ConstantsAssumption DEF IInv, Fresh
  <2>4. \A d \in Conns : SameStage(d)
      BY <2>1, <2>2, <2>3 DEF SameStage, Waiting, Lost
  <2> QED BY <2>1, <2>4, NoneMoves
<1>4. CASE Enqueue
    BY <1>4, EnqueueAdmits
<1>5. CASE EnqueueReturns
    BY <1>5, EnqueueReturnsForgets
<1>6. ASSUME NEW t \in Threads, ThreadRunner(t) \/ Tick(t) PROVE Goal
  <2>1. CASE UNCHANGED <<acceptVars, connVars>>
      BY <1>1, <2>1 DEF acceptVars, connVars
  <2>2. CASE DequeueOwn(t)
      BY <2>2, DispatchBeginsOrLoses DEF DequeueOwn
  <2>3. CASE Steal(t)
    <3>1. tscan[t].tt \in Threads
        BY <2>3 DEF Steal, IInv, Scans
    <3> QED BY <2>1, <2>3, <3>1, DispatchBeginsOrLoses DEF Steal
  <2>4. ThreadRunner(t) \/ DequeueMiss(t) \/ StealScan(t) => UNCHANGED <<acceptVars, connVars>>
      BY DEF ThreadRunner, DequeueMiss, StealScan
  <2> QED BY <1>6, <2>1, <2>2, <2>3, <2>4 DEF Tick
<1>7. ASSUME NEW t \in Threads, NEW w \in Workers, Handler(t, w) PROVE Goal
  <2>1. CASE ReadOk(t, w)
      BY <1>1, <2>1 DEF ReadOk, acceptVars
  <2>2. CASE ReadError(t, w) \/ WriteHandler(t, w)
    <3>1. phase[<<t, w>>] # "idle" /\ CloseSocket(t, w) /\ UNCHANGED acceptVars
        BY <2>2 DEF ReadError, WriteHandler
    <3> QED BY <3>1, CloseSocketFinishes
  <2> QED BY <1>7, <2>1, <2>2 DEF Handler
<1>8. CASE UNCHANGED vars
    BY <1>1, <1>8 DEF vars, acceptVars, connVars
<1> QED BY <1>2, <1>3, <1>4, <1>5, <1>6, <1>7, <1>8 DEF Next, AcceptorStep

\* The server implements the connection lifecycle: a connection is admitted
\* under the limit, served at most once, and counted while it is queued or
\* served, whatever the threads interleave.
THEOREM Refinement == Spec => LifecycleSpec
<1>1. IInv /\ IInv' /\ [Next]_vars => [Lifecycle!Next]_(Lifecycle!vars)
    BY StepRefines
<1> QED BY <1>1, InitRefines, Invariant, PTL DEF Spec, LifecycleSpec, Lifecycle!Spec

=============================================================================
