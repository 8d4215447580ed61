--------------------------- MODULE MCHttpWorker ---------------------------
(* HttpWorker with one client of each kind that process() tells apart. *)
EXTENDS HttpWorker, TLC

CONSTANTS c1, c2, c3

ThreeRequests ==
    c1 :> [route |-> "public", token |-> FALSE, verb |-> TRUE] @@
    c2 :> [route |-> "none", token |-> FALSE, verb |-> TRUE] @@
    c3 :> [route |-> "private", token |-> TRUE, verb |-> FALSE]
=============================================================================
