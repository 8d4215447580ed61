------------------------------ MODULE MCProcess ------------------------------
(* The worker of MCHttpWorker, and the life of the process.  ProcessLife       *)
(* leaves out what a worker does, so each behaviour is of one of the two; the  *)
(* other has ended.                                                            *)
EXTENDS MCHttpWorker, ProcessLife

\* A worker whose thread will dequeue nothing for it.
WorkerEnded ==
    /\ waiting = {} /\ conn = NoConn /\ phase = "idle" /\ request = {}
    /\ parser = [state |-> "start", from |-> {}]
    /\ response = NoResponse /\ answer = [c \in Conns |-> NoAnswer] /\ down = FALSE

\* A process that was stopped before it had a handler for the signal.
ProcessEnded ==
    /\ main = "start" /\ outcome = "exited" /\ num_threads = 0
    /\ is_running = FALSE /\ server_running = FALSE /\ handle_stop = FALSE
    /\ handler = "none" /\ signals = 1 /\ global_stats = "null" /\ stats_object = "none"
    /\ left = [c \in Clients |-> 0] /\ holds = [c \in Clients |-> FALSE]

ServeInit == (Init /\ ProcessEnded) \/ (LifeInit /\ WorkerEnded)
ServeNext ==
    \/ Next /\ UNCHANGED lifeVars
    \/ LifeNext /\ UNCHANGED vars
ServeSpec ==
    ServeInit /\ [][ServeNext]_<<vars, lifeVars>> /\ WF_vars(Handler) /\ LifeFairness
=============================================================================
