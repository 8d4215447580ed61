------------------------ MODULE ConnectionLifecycle ------------------------
(***************************************************************************)
(* What the server promises about connections, without threads, queues or  *)
(* reference counts.  A connection is admitted when at most MaxOpen others *)
(* are counted, waits, is served once and closed, or is lost while it      *)
(* waits.  It is counted from its admission until some moment after it was *)
(* closed or lost.                                                         *)
(***************************************************************************)
EXTENDS Integers, FiniteSets

CONSTANTS Conns, MaxOpen

VARIABLES status, counted

vars == <<status, counted>>

Ended == {"closed", "lost"}

Init ==
    /\ status = [c \in Conns |-> "waiting"]
    /\ counted = {}

Admit(c) ==
    /\ status[c] = "waiting"
    /\ Cardinality(counted) <= MaxOpen
    /\ status' = [status EXCEPT ![c] = "queued"]
    /\ counted' = counted \cup {c}

\* A connection moves on; ended ones may stop being counted at that moment.
Move(c, from, to) ==
    /\ status[c] = from
    /\ status' = [status EXCEPT ![c] = to]
    /\ counted' \in SUBSET counted
    /\ \A d \in counted \ counted' : status'[d] \in Ended

Begin(c)  == Move(c, "queued", "serving")
Lose(c)   == Move(c, "queued", "lost")
Finish(c) == Move(c, "serving", "closed")

\* An ended connection stops being counted on its own.
Forget(c) ==
    /\ c \in counted
    /\ status[c] \in Ended
    /\ counted' = counted \ {c}
    /\ UNCHANGED status

Next == \E c \in Conns : Admit(c) \/ Begin(c) \/ Lose(c) \/ Finish(c) \/ Forget(c)

Spec == Init /\ [][Next]_vars
=============================================================================
