-------------------------------- MODULE Executor --------------------------------
(***************************************************************************)
(* What a thread pool promises its callers: tasks start in the order they  *)
(* were accepted, each once, at most so many at a time; every one of them  *)
(* is run to its end; and the pool is gone only when all of them are.      *)
(* Nothing here says how, nor which thread runs what.                      *)
(***************************************************************************)
EXTENDS Integers, Sequences, FiniteSets

CONSTANTS
    Task,     \* what callers may ask for
    Parallel  \* how many tasks may run at a time

VARIABLES
    accepted, \* tasks accepted, oldest first
    started,  \* tasks that have started, oldest first
    finished, \* tasks that have ended
    gone      \* the pool is destroyed

execVars == <<accepted, started, finished, gone>>

Elements(s) == {s[i] : i \in 1..Len(s)}

Init ==
    /\ accepted = <<>>
    /\ started = <<>>
    /\ finished = {}
    /\ gone = FALSE

Accept(t) ==
    /\ ~gone
    /\ t \notin Elements(accepted)
    /\ accepted' = Append(accepted, t)
    /\ UNCHANGED <<started, finished, gone>>

Start ==
    /\ Len(started) < Len(accepted)
    /\ Len(started) - Cardinality(finished) < Parallel
    /\ started' = Append(started, accepted[Len(started) + 1])
    /\ UNCHANGED <<accepted, finished, gone>>

Finish(t) ==
    /\ t \in Elements(started) \ finished
    /\ finished' = finished \cup {t}
    /\ UNCHANGED <<accepted, started, gone>>

Destroy ==
    /\ ~gone
    /\ Elements(accepted) = finished
    /\ gone' = TRUE
    /\ UNCHANGED <<accepted, started, finished>>

Next == (\E t \in Task : Accept(t) \/ Finish(t)) \/ Start \/ Destroy

Spec == Init /\ [][Next]_execVars

\* As long as there is a task to start, and a place to run it, one is started.
FairSpec ==
    /\ Spec
    /\ WF_execVars(Start)
    /\ \A t \in Task : WF_execVars(Finish(t))
===============================================================================
