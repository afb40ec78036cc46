-------------------------- MODULE ActorThreadPool --------------------------
(***************************************************************************)
(* The pool that runs the reactor's tasks.  The tasks of one act (one      *)
(* connection handler) may not overlap: while one is with the executor the *)
(* others wait in a list of their own, and the thread that completes one   *)
(* hands the next to the executor.  submit and complete hold the monitor   *)
(* of the act, and what they touch of other acts commutes: each is one     *)
(* step.  The executor of newFixedThreadPool is a library: a fixed number  *)
(* of threads, created with their first job, and one queue.                *)
(***************************************************************************)
EXTENDS Naturals, Sequences

CONSTANTS
    Acts,      \* the objects tasks are submitted for
    Threads,   \* the places for threads of the fixed pool
    MaxTasks,  \* bound: tasks submitted for one act
    NoAct      \* stands for no act

ASSUME PoolAssumption == MaxTasks \in Nat /\ NoAct \notin Acts

VARIABLES
    playingNow,  \* acts that have a task with the executor
    acts,        \* pending tasks of each act, in order
    queue,       \* jobs the executor has not given to a thread
    thread,      \* what each thread of the executor is doing
    job,         \* the job it has, when it has one
    submitted,   \* history: tasks submitted for each act; they are numbered
    started,     \* history: the last task of each act that was started
    halted       \* the executor has been shut down

poolVars == <<playingNow, acts, queue, thread, job, submitted, started, halted>>

Tasks == 1 .. MaxTasks
Jobs == [act : Acts, task : Tasks]
NoJob == [act |-> NoAct, task |-> 0]

\* vacant: not created yet; lost: ended by an exception, not replaced yet.
ThreadStates == {"vacant", "given", "running", "returning", "idle", "lost"}

PoolTypeOK ==
    /\ playingNow \subseteq Acts
    /\ acts \in [Acts -> Seq(Tasks)]
    /\ queue \in Seq(Jobs)
    /\ thread \in [Threads -> ThreadStates]
    /\ job \in [Threads -> Jobs \cup {NoJob}]
    /\ submitted \in [Acts -> 0 .. MaxTasks]
    /\ started \in [Acts -> 0 .. MaxTasks]
    /\ halted \in BOOLEAN

PoolInit ==
    /\ playingNow = {}
    /\ acts = [a \in Acts |-> <<>>]
    /\ queue = <<>>
    /\ thread = [w \in Threads |-> "vacant"]
    /\ job = [w \in Threads |-> NoJob]
    /\ submitted = [a \in Acts |-> 0]
    /\ started = [a \in Acts |-> 0]
    /\ halted = FALSE

-----------------------------------------------------------------------------
\* threads.execute, where th is what the threads do at that moment: a new
\* thread as long as there are fewer than allowed, then the queue; after a
\* shutdown the job is rejected with an exception.
execute(j, th) ==
    \/ /\ ~halted
       /\ \E w \in Threads :
            /\ th[w] \in {"vacant", "lost"}
            /\ thread' = [th EXCEPT ![w] = "given"]
            /\ job' = [job EXCEPT ![w] = j]
       /\ UNCHANGED queue
    \/ /\ ~halted
       /\ \A w \in Threads : th[w] \notin {"vacant", "lost"}
       /\ queue' = Append(queue, j)
       /\ thread' = th
       /\ UNCHANGED job
    \/ /\ halted
       /\ thread' = th
       /\ UNCHANGED <<queue, job>>

\* Seeded fault: every task goes to the executor.
submit_at_once(a) ==
    LET n == submitted[a] + 1
    IN  /\ n <= MaxTasks
        /\ submitted' = [submitted EXCEPT ![a] = n]
        /\ playingNow' = playingNow \cup {a}
        /\ execute([act |-> a, task |-> n], thread)
        /\ UNCHANGED <<acts, started, halted>>

submit(a) ==
    LET n == submitted[a] + 1
    IN  /\ n <= MaxTasks
        /\ submitted' = [submitted EXCEPT ![a] = n]
        /\ \/ /\ a \notin playingNow
              /\ playingNow' = playingNow \cup {a}
              /\ execute([act |-> a, task |-> n], thread)
              /\ UNCHANGED acts
           \/ /\ a \in playingNow
              /\ acts' = [acts EXCEPT ![a] = Append(@, n)]
              /\ UNCHANGED <<playingNow, queue, thread, job>>
        /\ UNCHANGED <<started, halted>>

release(a, th) ==
    /\ playingNow' = playingNow \ {a}
    /\ thread' = th
    /\ UNCHANGED <<acts, queue, job>>

\* Seeded fault: an act is released although a task of it is pending.
complete_releasing(a, th) == release(a, th)

\* Seeded fault: the list is polled and not asked whether it is empty: the null
\* it answers, task 0 here, goes to the executor.
complete_unasked(a, th) ==
    LET null == acts[a] = <<>>
    IN  /\ execute([act |-> a, task |-> IF null THEN 0 ELSE Head(acts[a])], th)
        /\ acts' = [acts EXCEPT ![a] = IF null THEN @ ELSE Tail(@)]
        /\ UNCHANGED playingNow

complete(a, th) ==
    \/ /\ acts[a] = <<>>
       /\ release(a, th)
    \/ /\ acts[a] # <<>>
       /\ execute([act |-> a, task |-> Head(acts[a])], th)
       /\ acts' = [acts EXCEPT ![a] = Tail(@)]
       /\ UNCHANGED playingNow

-----------------------------------------------------------------------------
(* The threads of the executor.                                             *)

start_task(w, j) ==
    /\ thread' = [thread EXCEPT ![w] = "running"]
    /\ started' = [started EXCEPT ![j.act] = j.task]

\* A new thread starts the job it was created for.
Begin(w) ==
    /\ thread[w] = "given"
    /\ start_task(w, job[w])
    /\ UNCHANGED <<playingNow, acts, queue, job, submitted, halted>>

\* A thread takes a job from the queue and starts it.
Take(w) ==
    /\ thread[w] = "idle"
    /\ queue # <<>>
    /\ start_task(w, Head(queue))
    /\ job' = [job EXCEPT ![w] = Head(queue)]
    /\ queue' = Tail(queue)
    /\ UNCHANGED <<playingNow, acts, submitted, halted>>

\* r.run() is over, one way or the other, and complete(act) is called.
Complete(w) ==
    /\ thread[w] = "running"
    /\ complete(job[w].act, [thread EXCEPT ![w] = "returning"])
    /\ UNCHANGED <<submitted, started, halted>>

\* The job is over.  The exception of r.run(), if there was one, ends the
\* thread, and a pool that is not shut down gets another in its place.
Return(w) ==
    /\ thread[w] = "returning"
    /\ thread' = [thread EXCEPT ![w] = IF halted THEN "lost" ELSE "idle"]
    /\ job' = [job EXCEPT ![w] = NoJob]
    /\ UNCHANGED <<playingNow, acts, queue, submitted, started, halted>>

Fail(w) ==
    /\ thread[w] = "returning"
    /\ thread' = [thread EXCEPT ![w] = "lost"]
    /\ job' = [job EXCEPT ![w] = NoJob]
    /\ UNCHANGED <<playingNow, acts, queue, submitted, started, halted>>

Replace(w) ==
    /\ ~halted
    /\ thread[w] = "lost"
    /\ thread' = [thread EXCEPT ![w] = "idle"]
    /\ UNCHANGED <<playingNow, acts, queue, job, submitted, started, halted>>

\* shutdownNow: what is queued is given up, what has a thread is interrupted.
shutdown ==
    /\ ~halted
    /\ halted' = TRUE
    /\ queue' = <<>>
    /\ UNCHANGED <<playingNow, acts, thread, job, submitted, started>>

-----------------------------------------------------------------------------
\* The selector thread calls submit until it shuts the pool down.
Submit(a) == ~halted /\ submit(a)

Work(w) == Begin(w) \/ Take(w) \/ Complete(w) \/ Return(w) \/ Fail(w)
           \/ Replace(w)

PoolNext ==
    \/ \E a \in Acts : Submit(a)
    \/ shutdown
    \/ \E w \in Threads : Work(w)

\* The virtual machine runs its threads, and no task runs for ever
\* (ProcessingEnds in TpcServer).
PoolFairness == \A w \in Threads : WF_poolVars(Work(w))

PoolSpec == PoolInit /\ [][PoolNext]_poolVars /\ PoolFairness
-----------------------------------------------------------------------------
\* The act a thread is occupied with, from taking a job to passing it on.
occupied(a) == {w \in Threads : thread[w] \in {"given", "running"}
                                /\ job[w].act = a}
queued(a) == {i \in 1 .. Len(queue) : queue[i].act = a}

\* The list of an act that is not with the executor is empty, an act in the
\* set has exactly one job with the executor or with a thread, and none
\* otherwise: nothing is run twice, and nothing waits for a thread that will
\* not come (submit and complete, under the monitor of the act).
OneJobPerAct ==
    /\ \A a \in Acts \ playingNow :
          acts[a] = <<>> /\ occupied(a) = {} /\ queued(a) = {}
    /\ \A a \in playingNow :
          /\ \A v, w \in occupied(a) : v = w
          /\ \A i, k \in queued(a) : i = k
          /\ occupied(a) = {} \/ queued(a) = {}
          /\ halted \/ occupied(a) # {} \/ queued(a) # {}

Serial == INSTANCE SerialActs WITH
    active <- {job[w].act : w \in {v \in Threads : thread[v] = "running"}}

\* The pool runs the tasks of each act in order, one at a time, and all of
\* them unless it is shut down (SerialActs!Spec, with its fairness).
TasksAreSerial == Serial!Spec
=============================================================================
