------------------------ MODULE HttpServerRefinement ------------------------
(* The server of HttpServer implements ConnectionLifecycle. *)
EXTENDS HttpServer

\* Where a connection is in its life, read off who refers to its socket.
Waiting == unseen \cup {asock}

Stage(c) ==
    CASE c \in Waiting   -> "waiting"
      [] c \in AllQueued -> "queued"
      [] c \in Served    -> "serving"
      [] c \in Lost      -> "lost"
      [] OTHER           -> "closed"

Status == [c \in Conns |-> Stage(c)]

Lifecycle == INSTANCE ConnectionLifecycle WITH status <- Status, counted <- alive

\* Every step of the accept thread, of a work thread or of a worker is a step
\* of the lifecycle or leaves it alone: raw_accept, stealing, dispatch and
\* close_socket never serve a connection twice, never bring back one that was
\* closed, and never stop counting one that is queued or in service.
LifecycleSpec == Lifecycle!Spec
=============================================================================
