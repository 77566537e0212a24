------------------------------- MODULE Guarded ------------------------------
(***************************************************************************)
(* The objects that the goroutines of one process share behind a lock: the *)
(* send window of a connection (Window) and the tables of the control      *)
(* plane (Control).  They share no state; a behaviour of this module is    *)
(* about one of them, and the other stays as it was made.                  *)
(***************************************************************************)
EXTENDS Control, Window

VARIABLE object   \* what this behaviour is about

guardedVars == <<vars, windowVars, object>>

GuardedInit ==
    /\ object \in {"window", "control"}
    /\ Init /\ WindowInit
    /\ object = "window" => part = CHOOSE p \in Parts \ {"connect"} : TRUE

GuardedNext ==
    \/ object = "window" /\ WindowNext /\ UNCHANGED <<vars, object>>
    \/ object = "control" /\ Next /\ UNCHANGED <<windowVars, object>>

\* What each of them may count on.
GuardedSpec ==
    /\ GuardedInit /\ [][GuardedNext]_guardedVars
    /\ WindowFairness
    /\ WF_guardedVars(object = "control" /\ Ticking /\ UNCHANGED <<windowVars, object>>)
=============================================================================
