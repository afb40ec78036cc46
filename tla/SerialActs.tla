----------------------------- MODULE SerialActs -----------------------------
(***************************************************************************)
(* What ActorThreadPool promises its callers: the tasks of an act run one  *)
(* at a time, each once, in the order they were submitted, and as long as  *)
(* the pool is not shut down every task is run.                            *)
(***************************************************************************)
EXTENDS Naturals

CONSTANTS Acts, MaxTasks

VARIABLES
    submitted,  \* how many tasks of each act have been submitted
    started,    \* how many of them have been started
    active,     \* the acts with a task that is running
    halted      \* the pool has been shut down

vars == <<submitted, started, active, halted>>

Init ==
    /\ submitted = [a \in Acts |-> 0]
    /\ started = [a \in Acts |-> 0]
    /\ active = {}
    /\ halted = FALSE

Submit(a) ==
    /\ submitted[a] < MaxTasks
    /\ submitted' = [submitted EXCEPT ![a] = @ + 1]
    /\ UNCHANGED <<started, active, halted>>

Start(a) ==
    /\ a \notin active
    /\ started[a] < submitted[a]
    /\ started' = [started EXCEPT ![a] = @ + 1]
    /\ active' = active \cup {a}
    /\ UNCHANGED <<submitted, halted>>

Finish(a) ==
    /\ a \in active
    /\ active' = active \ {a}
    /\ UNCHANGED <<submitted, started, halted>>

Shutdown ==
    /\ ~halted
    /\ halted' = TRUE
    /\ UNCHANGED <<submitted, started, active>>

Next == Shutdown \/ \E a \in Acts : Submit(a) \/ Start(a) \/ Finish(a)

Fairness == \A a \in Acts :
    WF_vars(~halted /\ Start(a)) /\ WF_vars(Finish(a))

Spec == Init /\ [][Next]_vars /\ Fairness
=============================================================================
