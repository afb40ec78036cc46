----------------------------- MODULE PoolProofs -----------------------------
(***************************************************************************)
(* The pool keeps its types, gives an act at most one job and runs the     *)
(* tasks of an act in their order, as SerialActs says, for every set of    *)
(* acts and threads and every number of tasks.                             *)
(***************************************************************************)
EXTENDS ActorThreadPool, SequenceTheorems, TLAPS

USE DEF Tasks

-----------------------------------------------------------------------------
(* Types.  A thread that has taken a job has one.                           *)

JobTaken == \A w \in Threads : thread[w] \in {"given", "running"} => job[w] \in Jobs

PoolTypeInv == PoolTypeOK /\ JobTaken

\* The types of what execute is given and of what it changes: thread, job and
\* queue, where th is what the threads are doing at that moment.
LEMMA ExecuteType ==
    ASSUME NEW j \in Jobs, NEW th \in [Threads -> ThreadStates],
           queue \in Seq(Jobs), job \in [Threads -> Jobs \cup {NoJob}],
           \A w \in Threads : th[w] \in {"given", "running"} => job[w] \in Jobs,
           execute(j, th)
    PROVE  /\ queue' \in Seq(Jobs)
           /\ thread' \in [Threads -> ThreadStates]
           /\ job' \in [Threads -> Jobs \cup {NoJob}]
           /\ JobTaken'
BY DEF execute, JobTaken, ThreadStates

\* PoolInit establishes the types.
LEMMA PoolTypeInit == PoolInit => PoolTypeInv
<1> SUFFICES ASSUME PoolInit PROVE PoolTypeInv
  OBVIOUS
<1>1. acts \in [Acts -> Seq(Tasks)] /\ queue \in Seq(Jobs)
  <2>1. <<>> \in Seq(Tasks) /\ <<>> \in Seq(Jobs)
    OBVIOUS
  <2> QED BY <2>1 DEF PoolInit
<1>2. /\ submitted \in [Acts -> 0 .. MaxTasks]
      /\ started \in [Acts -> 0 .. MaxTasks]
  BY PoolAssumption DEF PoolInit
<1>3. /\ thread \in [Threads -> ThreadStates]
      /\ job \in [Threads -> Jobs \cup {NoJob}]
      /\ JobTaken
  BY DEF PoolInit, JobTaken, ThreadStates
<1> QED BY <1>1, <1>2, <1>3 DEF PoolInit, PoolTypeInv, PoolTypeOK

\* submit, whoever calls it, preserves the types.
LEMMA SubmitType ==
    ASSUME PoolTypeInv, NEW a \in Acts, submit(a) PROVE PoolTypeInv'
<1> DEFINE n == submitted[a] + 1
<1>1. n \in Tasks /\ submitted' = [submitted EXCEPT ![a] = n]
  BY PoolAssumption DEF submit, PoolTypeInv, PoolTypeOK
<1>2. submitted' \in [Acts -> 0 .. MaxTasks]
  BY <1>1 DEF PoolTypeInv, PoolTypeOK
<1>3. CASE a \notin playingNow
  <2>1. /\ playingNow' = playingNow \cup {a} /\ acts' = acts
        /\ started' = started /\ halted' = halted
        /\ execute([act |-> a, task |-> n], thread)
    BY <1>3 DEF submit
  <2>2. [act |-> a, task |-> n] \in Jobs
    BY <1>1 DEF Jobs
  <2>3. /\ queue' \in Seq(Jobs) /\ thread' \in [Threads -> ThreadStates]
        /\ job' \in [Threads -> Jobs \cup {NoJob}] /\ JobTaken'
    BY <2>1, <2>2, ExecuteType DEF PoolTypeInv, PoolTypeOK, JobTaken
  <2> QED BY <1>2, <2>1, <2>3 DEF PoolTypeInv, PoolTypeOK
<1>4. CASE a \in playingNow
  <2>1. /\ acts' = [acts EXCEPT ![a] = Append(@, n)]
        /\ UNCHANGED <<playingNow, queue, thread, job, started, halted>>
    BY <1>4 DEF submit
  <2> QED BY <1>1, <1>2, <2>1 DEF PoolTypeInv, PoolTypeOK, JobTaken
<1> QED BY <1>3, <1>4

\* Complete preserves the types.
LEMMA CompleteType ==
    ASSUME PoolTypeInv, NEW w \in Threads, Complete(w) PROVE PoolTypeInv'
<1> DEFINE a == job[w].act
           th == [thread EXCEPT ![w] = "returning"]
<1>1. a \in Acts /\ complete(a, th) /\ UNCHANGED <<submitted, started, halted>>
  BY DEF Complete, PoolTypeInv, JobTaken, Jobs
<1>2. th \in [Threads -> ThreadStates]
  BY DEF PoolTypeInv, PoolTypeOK, ThreadStates
<1>3. \A v \in Threads : th[v] \in {"given", "running"} => job[v] \in Jobs
  BY DEF PoolTypeInv, PoolTypeOK, JobTaken
<1>4. CASE acts[a] = <<>>
  <2>1. playingNow' = playingNow \ {a} /\ thread' = th
        /\ UNCHANGED <<acts, queue, job>>
    BY <1>1, <1>4 DEF complete, release
  <2> QED BY <1>1, <1>2, <1>3, <2>1 DEF PoolTypeInv, PoolTypeOK, JobTaken
<1>5. CASE acts[a] # <<>>
  <2> DEFINE j == [act |-> a, task |-> Head(acts[a])]
  <2>1. /\ execute(j, th) /\ acts' = [acts EXCEPT ![a] = Tail(@)]
        /\ playingNow' = playingNow
    BY <1>1, <1>5 DEF complete
  <2>2. acts[a] \in Seq(Tasks)
    BY <1>1 DEF PoolTypeInv, PoolTypeOK
  <2>3. Head(acts[a]) \in Tasks /\ Tail(acts[a]) \in Seq(Tasks)
    BY <1>5, <2>2, HeadTailProperties
  <2>4. j \in Jobs
    BY <1>1, <2>3 DEF Jobs
  <2>5. /\ queue' \in Seq(Jobs) /\ thread' \in [Threads -> ThreadStates]
        /\ job' \in [Threads -> Jobs \cup {NoJob}] /\ JobTaken'
    BY <1>2, <1>3, <2>1, <2>4, ExecuteType DEF PoolTypeInv, PoolTypeOK
  <2> QED BY <1>1, <2>1, <2>3, <2>5 DEF PoolTypeInv, PoolTypeOK
<1> QED BY <1>4, <1>5

\* A thread that starts a job has it.
LEMMA StartType ==
    ASSUME PoolTypeInv, NEW w \in Threads, NEW j \in Jobs, start_task(w, j),
           job' = [job EXCEPT ![w] = j]
    PROVE  /\ thread' \in [Threads -> ThreadStates]
           /\ job' \in [Threads -> Jobs \cup {NoJob}]
           /\ started' \in [Acts -> 0 .. MaxTasks]
           /\ JobTaken'
<1>1. /\ thread' = [thread EXCEPT ![w] = "running"]
      /\ started' = [started EXCEPT ![j.act] = j.task]
  BY DEF start_task
<1>2. j.act \in Acts /\ j.task \in 0 .. MaxTasks
  BY PoolAssumption DEF Jobs
<1>3. started' \in [Acts -> 0 .. MaxTasks]
  BY <1>1, <1>2 DEF PoolTypeInv, PoolTypeOK
<1> QED BY <1>1, <1>3 DEF PoolTypeInv, PoolTypeOK, JobTaken, ThreadStates

\* Every step preserves the types.
LEMMA PoolTypeStep == PoolTypeInv /\ [PoolNext]_poolVars => PoolTypeInv'
<1> SUFFICES ASSUME PoolTypeInv, [PoolNext]_poolVars PROVE PoolTypeInv'
  OBVIOUS
<1>1. ASSUME NEW a \in Acts, Submit(a) PROVE PoolTypeInv'
  BY <1>1, SubmitType DEF Submit
<1>2. CASE shutdown
  BY <1>2 DEF shutdown, PoolTypeInv, PoolTypeOK, JobTaken
<1>3. ASSUME NEW w \in Threads, Work(w) PROVE PoolTypeInv'
  <2>1. CASE Begin(w)
    <3>1. job[w] \in Jobs
      BY <2>1, <1>3 DEF Begin, PoolTypeInv, JobTaken
    <3>2. job' = [job EXCEPT ![w] = job[w]]
      BY <2>1, <1>3 DEF Begin, PoolTypeInv, PoolTypeOK
    <3> QED BY <2>1, <3>1, <3>2, <1>3, StartType
            DEF Begin, PoolTypeInv, PoolTypeOK
  <2>2. CASE Take(w)
    <3>1. Head(queue) \in Jobs /\ Tail(queue) \in Seq(Jobs)
      BY <2>2, HeadTailProperties DEF Take, PoolTypeInv, PoolTypeOK
    <3> QED BY <2>2, <3>1, <1>3, StartType DEF Take, PoolTypeInv, PoolTypeOK
  <2>3. CASE Complete(w)
    BY <2>3, <1>3, CompleteType
  <2>4. CASE Return(w) \/ Fail(w)
    BY <2>4, <1>3 DEF Return, Fail, PoolTypeInv, PoolTypeOK, JobTaken,
                      ThreadStates
  <2>5. CASE Replace(w)
    BY <2>5, <1>3 DEF Replace, PoolTypeInv, PoolTypeOK, JobTaken, ThreadStates
  <2> QED BY <1>3, <2>1, <2>2, <2>3, <2>4, <2>5 DEF Work
<1>4. CASE UNCHANGED poolVars
  BY <1>4 DEF poolVars, PoolTypeInv, PoolTypeOK, JobTaken
<1> QED BY <1>1, <1>2, <1>3, <1>4 DEF PoolNext

\* The pool keeps its types: what submit, complete and the executor pass on is
\* always a job of an act.
THEOREM PoolTypeCorrect == PoolSpec => []PoolTypeOK
<1>1. PoolTypeInv => PoolTypeOK
  BY DEF PoolTypeInv
<1> QED BY <1>1, PoolTypeInit, PoolTypeStep, PTL DEF PoolSpec

-----------------------------------------------------------------------------
(* One job per act.                                                         *)

\* The threads occupied with an act, if th is what the threads are doing.
Occupied(th, a) == {w \in Threads : th[w] \in {"given", "running"}
                                   /\ job[w].act = a}

Resting(a) == acts[a] = <<>> /\ occupied(a) = {} /\ queued(a) = {}
Playing(a) ==
    /\ \A v, w \in occupied(a) : v = w
    /\ \A i, k \in queued(a) : i = k
    /\ occupied(a) = {} \/ queued(a) = {}
    /\ halted \/ occupied(a) # {} \/ queued(a) # {}

\* OneJobPerAct says one of two things of each act.
LEMMA ActRestsOrPlays ==
    ASSUME OneJobPerAct, NEW a \in Acts
    PROVE  /\ a \notin playingNow => Resting(a)
           /\ a \in playingNow => Playing(a)
BY DEF OneJobPerAct, Resting, Playing

\* And it holds after a step if they do.
LEMMA ActsTogether ==
    ASSUME playingNow' \subseteq Acts,
           \A b \in Acts : /\ b \notin playingNow' => Resting(b)'
                           /\ b \in playingNow' => Playing(b)'
    PROVE  OneJobPerAct'
<1>1. ASSUME NEW b \in Acts \ playingNow'
      PROVE  (acts[b] = <<>> /\ occupied(b) = {} /\ queued(b) = {})'
  BY DEF Resting, Playing
<1>2. ASSUME NEW b \in playingNow'
      PROVE  ( /\ \A v, w \in occupied(b) : v = w
               /\ \A i, k \in queued(b) : i = k
               /\ occupied(b) = {} \/ queued(b) = {}
               /\ halted \/ occupied(b) # {} \/ queued(b) # {} )'
  BY DEF Playing
<1> QED BY <1>1, <1>2 DEF OneJobPerAct

\* What a step does not touch stays as it is.
LEMMA ActAside ==
    ASSUME OneJobPerAct, NEW b \in Acts, b \in playingNow' <=> b \in playingNow,
           UNCHANGED <<acts[b], occupied(b), queued(b), halted>>
    PROVE  /\ b \notin playingNow' => Resting(b)'
           /\ b \in playingNow' => Playing(b)'
<1>1. CASE b \notin playingNow
  <2>1. Resting(b)
    BY <1>1, ActRestsOrPlays
  <2> QED BY <1>1, <2>1 DEF Resting
<1>2. CASE b \in playingNow
  <2>1. Playing(b)
    BY <1>2, ActRestsOrPlays
  <2> QED BY <1>2, <2>1 DEF Playing
<1> QED BY <1>1, <1>2

\* A step that is about one act.
LEMMA OneActStep ==
    ASSUME OneJobPerAct, NEW a \in Acts, playingNow \subseteq Acts,
           \/ playingNow' = playingNow \cup {a} /\ Playing(a)'
           \/ playingNow' = playingNow \ {a} /\ Resting(a)',
           \A b \in Acts \ {a} :
              UNCHANGED <<acts[b], occupied(b), queued(b), halted>>
    PROVE  OneJobPerAct'
<1>1. playingNow' \subseteq Acts
  OBVIOUS
<1>2. ASSUME NEW b \in Acts
      PROVE  /\ b \notin playingNow' => Resting(b)'
             /\ b \in playingNow' => Playing(b)'
  <2>1. CASE b = a
    <3>1. CASE playingNow' = playingNow \cup {a} /\ Playing(a)'
      BY <2>1, <3>1
    <3>2. CASE playingNow' = playingNow \ {a} /\ Resting(a)'
      BY <2>1, <3>2
    <3> QED BY <3>1, <3>2
  <2>2. CASE b # a
    <3>1. b \in playingNow' <=> b \in playingNow
      BY <2>2
    <3>2. UNCHANGED <<acts[b], occupied(b), queued(b), halted>>
      BY <2>2
    <3> QED BY <3>1, <3>2, ActAside
  <2> QED BY <2>1, <2>2
<1> QED BY <1>1, <1>2, ActsTogether

\* execute gives an act that has no job exactly one, and others none.
LEMMA ExecuteOneJob ==
    ASSUME NEW j \in Jobs, NEW th \in [Threads -> ThreadStates],
           queue \in Seq(Jobs), job \in [Threads -> Jobs \cup {NoJob}],
           Occupied(th, j.act) = {}, queued(j.act) = {},
           execute(j, th), halted' = halted
    PROVE  /\ Playing(j.act)'
           /\ \A b \in Acts \ {j.act} : /\ occupied(b)' = Occupied(th, b)
                                        /\ queued(b)' = queued(b)
<1>1. ASSUME NEW w \in Threads, th[w] \in {"vacant", "lost"}, queue' = queue,
             thread' = [th EXCEPT ![w] = "given"], job' = [job EXCEPT ![w] = j]
      PROVE  /\ Playing(j.act)'
             /\ \A b \in Acts \ {j.act} : /\ occupied(b)' = Occupied(th, b)
                                          /\ queued(b)' = queued(b)
  <2>1. \A b : queued(b)' = queued(b)
    BY <1>1 DEF queued
  <2>2. occupied(j.act)' = {w}
    BY <1>1 DEF occupied, Occupied
  <2>3. \A b \in Acts \ {j.act} : occupied(b)' = Occupied(th, b)
    BY <1>1 DEF occupied, Occupied
  <2> QED BY <2>1, <2>2, <2>3 DEF Playing
<1>2. ASSUME queue' = Append(queue, j), thread' = th, job' = job
      PROVE  /\ Playing(j.act)'
             /\ \A b \in Acts \ {j.act} : /\ occupied(b)' = Occupied(th, b)
                                          /\ queued(b)' = queued(b)
  <2>1. \A b : occupied(b)' = Occupied(th, b)
    BY <1>2 DEF occupied, Occupied
  <2>2. /\ Len(queue) \in Nat /\ Len(queue') = Len(queue) + 1
        /\ \A i \in 1 .. Len(queue) : queue'[i] = queue[i]
        /\ queue'[Len(queue) + 1] = j
    BY <1>2, AppendProperties
  <2>3. queued(j.act)' = {Len(queue) + 1}
    BY <2>2 DEF queued
  <2>4. \A b \in Acts \ {j.act} : queued(b)' = queued(b)
    BY <2>2 DEF queued
  <2> QED BY <2>1, <2>3, <2>4 DEF Playing
<1>3. ASSUME halted, thread' = th, queue' = queue, job' = job
      PROVE  /\ Playing(j.act)'
             /\ \A b \in Acts \ {j.act} : /\ occupied(b)' = Occupied(th, b)
                                          /\ queued(b)' = queued(b)
  BY <1>3 DEF Playing, occupied, Occupied, queued
<1> QED BY <1>1, <1>2, <1>3 DEF execute

\* In the beginning no act has a job.
LEMMA OneJobInit == PoolInit => OneJobPerAct
BY DEF PoolInit, OneJobPerAct, occupied, queued

\* submit gives an act that rests a job, and one that plays a pending task.
LEMMA SubmitOneJob ==
    ASSUME PoolTypeInv, OneJobPerAct, NEW a \in Acts, submit(a)
    PROVE  OneJobPerAct'
<1> DEFINE j == [act |-> a, task |-> submitted[a] + 1]
<1>1. halted' = halted
  BY DEF submit
<1>2. CASE a \notin playingNow
  <2>1. playingNow' = playingNow \cup {a} /\ acts' = acts /\ execute(j, thread)
    BY <1>2 DEF submit
  <2>2. j \in Jobs /\ j.act = a
    BY PoolAssumption DEF submit, Jobs, PoolTypeInv, PoolTypeOK
  <2>3. occupied(a) = {} /\ queued(a) = {}
    BY <1>2, ActRestsOrPlays DEF Resting
  <2>4. \A b : Occupied(thread, b) = occupied(b)
    BY DEF occupied, Occupied
  <2>5. /\ Playing(a)'
        /\ \A b \in Acts \ {a} : occupied(b)' = occupied(b)
                                /\ queued(b)' = queued(b)
    BY <1>1, <2>1, <2>2, <2>3, <2>4, ExecuteOneJob
       DEF PoolTypeInv, PoolTypeOK, Resting
  <2>6. \A b \in Acts \ {a} :
           UNCHANGED <<acts[b], occupied(b), queued(b), halted>>
    BY <1>1, <2>1, <2>5
  <2>7. playingNow \subseteq Acts
    BY DEF PoolTypeInv, PoolTypeOK
  <2> QED BY <2>1, <2>5, <2>6, <2>7, OneActStep
<1>3. CASE a \in playingNow
  <2>1. /\ acts' = [acts EXCEPT ![a] = Append(@, submitted[a] + 1)]
        /\ UNCHANGED <<playingNow, queue, thread, job>>
    BY <1>3 DEF submit
  <2>2. \A b : occupied(b)' = occupied(b) /\ queued(b)' = queued(b)
    BY <2>1 DEF occupied, queued
  <2>3. Playing(a)'
    BY <1>1, <1>3, <2>2, ActRestsOrPlays DEF Playing
  <2>4. playingNow' = playingNow \cup {a} /\ playingNow \subseteq Acts
    BY <1>3, <2>1 DEF PoolTypeInv, PoolTypeOK
  <2>5. \A b \in Acts \ {a} :
           UNCHANGED <<acts[b], occupied(b), queued(b), halted>>
    BY <1>1, <2>1, <2>2 DEF PoolTypeInv, PoolTypeOK
  <2> QED BY <2>3, <2>4, <2>5, OneActStep
<1> QED BY <1>2, <1>3

\* complete hands the next task on, or lets the act rest.
LEMMA CompleteOneJob ==
    ASSUME PoolTypeInv, OneJobPerAct, NEW w \in Threads, Complete(w)
    PROVE  OneJobPerAct'
<1>0. PICK a \in Acts, th \in [Threads -> ThreadStates] :
         a = job[w].act /\ th = [thread EXCEPT ![w] = "returning"]
  BY DEF Complete, PoolTypeInv, PoolTypeOK, JobTaken, Jobs, ThreadStates
<1>1. complete(a, th) /\ halted' = halted /\ thread[w] = "running"
  BY <1>0 DEF Complete
<1>2. w \in occupied(a)
  BY <1>0, <1>1 DEF occupied
<1>3. a \in playingNow
  BY <1>1, <1>2, ActRestsOrPlays DEF Resting
<1>4. occupied(a) = {w} /\ queued(a) = {}
  BY <1>1, <1>2, <1>3, ActRestsOrPlays DEF Playing
<1>5. Occupied(th, a) = {}
  BY <1>0, <1>4 DEF PoolTypeInv, PoolTypeOK, Occupied, occupied
<1>6. \A b \in Acts \ {a} : Occupied(th, b) = occupied(b)
  BY <1>0, <1>1 DEF PoolTypeInv, PoolTypeOK, Occupied, occupied
<1>7. CASE acts[a] = <<>>
  <2>1. playingNow' = playingNow \ {a} /\ thread' = th
        /\ UNCHANGED <<acts, queue, job>>
    BY <1>1, <1>7 DEF complete, release
  <2>2. \A b : occupied(b)' = Occupied(th, b) /\ queued(b)' = queued(b)
    BY <2>1 DEF occupied, Occupied, queued
  <2>3. Resting(a)'
    BY <1>4, <1>5, <1>7, <2>1, <2>2 DEF Resting
  <2>4. \A b \in Acts \ {a} :
           UNCHANGED <<acts[b], occupied(b), queued(b), halted>>
    BY <1>1, <1>6, <2>1, <2>2
  <2>5. playingNow \subseteq Acts
    BY DEF PoolTypeInv, PoolTypeOK
  <2> QED BY <1>1, <2>1, <2>3, <2>4, <2>5, OneActStep
<1>8. CASE acts[a] # <<>>
  <2>1. Head(acts[a]) \in Tasks
    BY <1>8, HeadTailProperties DEF PoolTypeInv, PoolTypeOK
  <2>2. PICK j \in Jobs : j = [act |-> a, task |-> Head(acts[a])]
    BY <2>1 DEF Jobs
  <2>3. /\ execute(j, th) /\ acts' = [acts EXCEPT ![a] = Tail(@)]
        /\ playingNow' = playingNow
    BY <1>1, <1>8, <2>2 DEF complete
  <2>4. j.act = a /\ queue \in Seq(Jobs) /\ job \in [Threads -> Jobs \cup {NoJob}]
    BY <2>2 DEF PoolTypeInv, PoolTypeOK
  <2>5. /\ Playing(a)'
        /\ \A b \in Acts \ {a} : occupied(b)' = Occupied(th, b)
                                /\ queued(b)' = queued(b)
    BY <1>1, <1>4, <1>5, <2>3, <2>4, ExecuteOneJob
  <2>6. \A b \in Acts \ {a} : acts'[b] = acts[b]
    BY <1>1, <2>3 DEF PoolTypeInv, PoolTypeOK
  <2>7. \A b \in Acts \ {a} :
           UNCHANGED <<acts[b], occupied(b), queued(b), halted>>
    BY <1>1, <1>6, <2>5, <2>6
  <2>8. playingNow \subseteq Acts /\ playingNow' = playingNow \cup {a}
    BY <1>3, <2>3 DEF PoolTypeInv, PoolTypeOK
  <2> QED BY <1>1, <2>5, <2>7, <2>8, OneActStep
<1> QED BY <1>7, <1>8

\* The first job of the queue becomes the job of the thread that takes it.
LEMMA TakeOneJob ==
    ASSUME PoolTypeInv, OneJobPerAct, NEW w \in Threads, Take(w)
    PROVE  OneJobPerAct'
<1>1. /\ thread[w] = "idle" /\ queue # <<>> /\ queue' = Tail(queue)
      /\ thread' = [thread EXCEPT ![w] = "running"]
      /\ job' = [job EXCEPT ![w] = Head(queue)]
      /\ UNCHANGED <<playingNow, acts, halted>>
  BY DEF Take, start_task
<1>2. queue \in Seq(Jobs) /\ Tail(queue) \in Seq(Jobs)
  BY <1>1, HeadTailProperties DEF PoolTypeInv, PoolTypeOK
<1>3. /\ Len(queue) \in Nat \ {0} /\ Len(queue') = Len(queue) - 1
      /\ \A i \in 1 .. Len(queue') : queue'[i] = queue[i + 1]
      /\ queue[1] = Head(queue) /\ Head(queue) \in Jobs
  BY <1>1, <1>2, HeadTailProperties, LenProperties, EmptySeq
<1>4. PICK a \in Acts : a = Head(queue).act /\ 1 \in queued(a)
  BY <1>3 DEF Jobs, queued
<1>5. a \in playingNow /\ occupied(a) = {} /\ \A i \in queued(a) : i = 1
  BY <1>4, ActRestsOrPlays DEF Resting, Playing
<1>6. queued(a)' = {}
  <2> SUFFICES ASSUME NEW i \in queued(a)' PROVE FALSE
    OBVIOUS
  <2>1. (i \in 1 .. Len(queue) /\ queue[i].act = a)'
    BY DEF queued
  <2>2. i \in Nat \ {0} /\ i + 1 \in queued(a)
    BY <1>3, <2>1 DEF queued
  <2> QED BY <1>5, <2>2
<1>7. occupied(a)' = {w}
  BY <1>1, <1>4, <1>5 DEF occupied, PoolTypeInv, PoolTypeOK
<1>8. Playing(a)'
  BY <1>6, <1>7 DEF Playing
<1>9. ASSUME NEW b \in Acts \ {a}
      PROVE  /\ b \notin playingNow' => Resting(b)'
             /\ b \in playingNow' => Playing(b)'
  <2>1. occupied(b)' = occupied(b)
    BY <1>1, <1>4, <1>9 DEF occupied, PoolTypeInv, PoolTypeOK
  <2>2. \A i \in queued(b)' : i \in Nat /\ i + 1 \in queued(b)
    BY <1>3 DEF queued
  <2>3. \A i \in queued(b) : i \in Nat /\ i - 1 \in queued(b)'
    <3> SUFFICES ASSUME NEW i \in queued(b) PROVE i \in Nat /\ i - 1 \in queued(b)'
      OBVIOUS
    <3>1. i \in 1 .. Len(queue) /\ queue[i].act = b /\ i # 1
      BY <1>3, <1>4, <1>9 DEF queued
    <3>2. i - 1 \in 1 .. Len(queue') /\ queue'[i - 1] = queue[i]
      BY <1>3, <3>1
    <3> QED BY <3>1, <3>2 DEF queued
  <2>4. queued(b)' = {} <=> queued(b) = {}
    BY <2>2, <2>3
  <2>5. (\A i, k \in queued(b) : i = k) => \A i, k \in queued(b)' : i = k
    <3> SUFFICES ASSUME \A i, k \in queued(b) : i = k,
                        NEW i \in queued(b)', NEW k \in queued(b)'
                 PROVE  i = k
      OBVIOUS
    <3>1. i + 1 = k + 1 /\ i \in Nat /\ k \in Nat
      BY <2>2
    <3> QED BY <3>1
  <2>6. CASE b \notin playingNow
    BY <1>1, <2>1, <2>4, <2>6, ActRestsOrPlays DEF Resting
  <2>7. CASE b \in playingNow
    BY <1>1, <2>1, <2>4, <2>5, <2>7, ActRestsOrPlays DEF Playing
  <2> QED BY <2>6, <2>7
<1>10. playingNow' \subseteq Acts
  BY <1>1 DEF PoolTypeInv, PoolTypeOK
<1>11. ASSUME NEW b \in Acts
       PROVE  /\ b \notin playingNow' => Resting(b)'
              /\ b \in playingNow' => Playing(b)'
  <2>1. CASE b = a
    BY <1>1, <1>5, <1>8, <2>1
  <2>2. CASE b # a
    BY <1>9, <2>2
  <2> QED BY <2>1, <2>2
<1> QED BY <1>10, <1>11, ActsTogether

\* Every step leaves each act its one job.
LEMMA OneJobStep ==
    PoolTypeInv /\ OneJobPerAct /\ [PoolNext]_poolVars => OneJobPerAct'
<1> SUFFICES ASSUME PoolTypeInv, OneJobPerAct, [PoolNext]_poolVars
             PROVE  OneJobPerAct'
  OBVIOUS
<1>1. ASSUME NEW a \in Acts, Submit(a) PROVE OneJobPerAct'
  BY <1>1, SubmitOneJob DEF Submit
<1>2. CASE shutdown
  <2>1. /\ queue' = <<>> /\ halted'
        /\ UNCHANGED <<playingNow, acts, thread, job>>
    BY <1>2 DEF shutdown
  <2>2. \A b : occupied(b)' = occupied(b) /\ queued(b)' = {}
    BY <2>1 DEF occupied, queued
  <2>3. playingNow' \subseteq Acts
    BY <2>1 DEF PoolTypeInv, PoolTypeOK
  <2>4. ASSUME NEW b \in Acts
        PROVE  /\ b \notin playingNow' => Resting(b)'
               /\ b \in playingNow' => Playing(b)'
    <3>1. CASE b \notin playingNow
      BY <2>1, <2>2, <3>1, ActRestsOrPlays DEF Resting
    <3>2. CASE b \in playingNow
      BY <2>1, <2>2, <3>2, ActRestsOrPlays DEF Playing
    <3> QED BY <3>1, <3>2
  <2> QED BY <2>3, <2>4, ActsTogether
<1>3. ASSUME NEW w \in Threads, Work(w) PROVE OneJobPerAct'
  <2>1. CASE Complete(w)
    BY <2>1, <1>3, CompleteOneJob
  <2>2. CASE Take(w)
    BY <2>2, <1>3, TakeOneJob
  <2>3. CASE Begin(w) \/ Return(w) \/ Fail(w) \/ Replace(w)
    <3>1. UNCHANGED <<playingNow, acts, queue, halted>>
      BY <2>3 DEF Begin, Return, Fail, Replace
    <3>2. \A b : queued(b)' = queued(b)
      BY <3>1 DEF queued
    <3>3. \A b \in Acts : occupied(b)' = occupied(b)
      BY <1>3, <2>3 DEF Begin, start_task, Return, Fail, Replace, occupied,
                        PoolTypeInv, PoolTypeOK
    <3>4. playingNow' \subseteq Acts
      BY <3>1 DEF PoolTypeInv, PoolTypeOK
    <3>5. ASSUME NEW b \in Acts
          PROVE  /\ b \notin playingNow' => Resting(b)'
                 /\ b \in playingNow' => Playing(b)'
      BY <3>1, <3>2, <3>3, ActAside
    <3> QED BY <3>4, <3>5, ActsTogether
  <2> QED BY <1>3, <2>1, <2>2, <2>3 DEF Work
<1>4. CASE UNCHANGED poolVars
  BY <1>4 DEF poolVars, OneJobPerAct, occupied, queued
<1> QED BY <1>1, <1>2, <1>3, <1>4 DEF PoolNext

\* An act with a task under way has exactly one job, with the executor or with
\* a thread, and an act without has none and nothing pending: submit and
\* complete neither lose a task nor let two of one act run.
THEOREM OneJobAtATime == PoolSpec => []OneJobPerAct
BY PoolTypeInit, PoolTypeStep, OneJobInit, OneJobStep, PTL DEF PoolSpec

-----------------------------------------------------------------------------
(* The tasks of an act are numbered.  The one with the executor or with a   *)
(* thread is the next to start, or has just started, and the pending list   *)
(* counts on from it.                                                       *)

Pending(a, n) ==
    /\ n \in Nat
    /\ Len(acts[a]) = submitted[a] - n
    /\ \A i \in 1 .. Len(acts[a]) : acts[a][i] = n + i

\* A job whose turn has come.
Due(j) == j.task = started[j.act] + 1 /\ Pending(j.act, j.task)
UnderWay(a) == Pending(a, started[a])

InOrder ==
    /\ \A a \in Acts \ playingNow : started[a] = submitted[a]
    /\ \A w \in Threads : thread[w] = "given" => Due(job[w])
    /\ \A w \in Threads : thread[w] = "running" => UnderWay(job[w].act)
    /\ \A i \in 1 .. Len(queue) : Due(queue[i])

\* Each act has its own list and its own numbers.
LEMMA OwnNumbers ==
    ASSUME NEW k \in Jobs, Due(k),
           UNCHANGED <<acts[k.act], submitted[k.act], started[k.act]>>
    PROVE  Due(k)'
BY DEF Due, Pending

LEMMA OwnTurn ==
    ASSUME NEW a \in Acts, UnderWay(a),
           UNCHANGED <<acts[a], submitted[a], started[a]>>
    PROVE  UnderWay(a)'
BY DEF UnderWay, Pending

LEMMA InOrderInit == PoolInit => InOrder
BY DEF PoolInit, InOrder

\* execute passes on one job more, and changes no other.
LEMMA ExecuteInOrder ==
    ASSUME NEW j \in Jobs, Due(j)', NEW th \in [Threads -> ThreadStates],
           queue \in Seq(Jobs), job \in [Threads -> Jobs \cup {NoJob}],
           execute(j, th),
           \A a \in Acts \ playingNow' : started'[a] = submitted'[a],
           \A w \in Threads, k \in Jobs : th[w] = "given" /\ k = job[w] => Due(k)',
           \A w \in Threads, a \in Acts :
              th[w] = "running" /\ a = job[w].act => UnderWay(a)',
           \A w \in Threads : th[w] \in {"given", "running"} => job[w] \in Jobs,
           \A i \in 1 .. Len(queue), k \in Jobs : k = queue[i] => Due(k)'
    PROVE  InOrder'
<1>0. \A k \in Jobs : k.act \in Acts
  BY DEF Jobs
<1>1. \A i \in 1 .. Len(queue) : queue[i] \in Jobs
  OBVIOUS
<1>2. CASE \E w \in Threads : /\ th[w] \in {"vacant", "lost"}
                              /\ thread' = [th EXCEPT ![w] = "given"]
                              /\ job' = [job EXCEPT ![w] = j]
                              /\ queue' = queue
  <2>1. PICK w \in Threads : /\ th[w] \in {"vacant", "lost"}
                             /\ thread' = [th EXCEPT ![w] = "given"]
                             /\ job' = [job EXCEPT ![w] = j]
                             /\ queue' = queue
    BY <1>2
  <2>2. ASSUME NEW v \in Threads, thread'[v] = "given" PROVE Due(job[v])'
    <3>1. PICK k \in Jobs : k = job'[v] /\ Due(k)'
      BY <2>1, <2>2
    <3> QED
      BY <3>1 DEF Due, Pending
  <2>3. ASSUME NEW v \in Threads, thread'[v] = "running" PROVE UnderWay(job[v].act)'
    <3>1. PICK a \in Acts : a = job'[v].act /\ UnderWay(a)'
      BY <1>0, <2>1, <2>3
    <3> QED
      BY <3>1 DEF UnderWay, Pending
  <2>4. ASSUME NEW i \in 1 .. Len(queue') PROVE Due(queue[i])'
    <3>1. PICK k \in Jobs : k = queue'[i] /\ Due(k)'
      BY <1>1, <2>1, <2>4
    <3> QED
      BY <3>1 DEF Due, Pending
  <2> QED
    BY <2>2, <2>3, <2>4 DEF InOrder
<1>3. CASE /\ thread' = th /\ job' = job
           /\ queue' = Append(queue, j) \/ queue' = queue
  <2>1. ASSUME NEW v \in Threads, thread'[v] = "given" PROVE Due(job[v])'
    <3>1. PICK k \in Jobs : k = job'[v] /\ Due(k)'
      BY <1>3, <2>1
    <3> QED
      BY <3>1 DEF Due, Pending
  <2>2. ASSUME NEW v \in Threads, thread'[v] = "running" PROVE UnderWay(job[v].act)'
    <3>1. PICK a \in Acts : a = job'[v].act /\ UnderWay(a)'
      BY <1>0, <1>3, <2>2
    <3> QED
      BY <3>1 DEF UnderWay, Pending
  <2>3. ASSUME NEW i \in 1 .. Len(queue') PROVE Due(queue[i])'
    <3>1. PICK k \in Jobs : k = queue'[i] /\ Due(k)'
      <4>1. CASE queue' = queue
        BY <1>1, <2>3, <4>1
      <4>2. CASE queue' = Append(queue, j)
        <5>1. CASE i = Len(queue) + 1
          BY <4>2, <5>1, AppendProperties
        <5>2. CASE i # Len(queue) + 1
          <6>1. i \in 1 .. Len(queue) /\ queue'[i] = queue[i]
            BY <2>3, <4>2, <5>2, AppendProperties, LenProperties
          <6> QED
            BY <1>1, <6>1
        <5> QED
          BY <5>1, <5>2
      <4> QED
        BY <1>3, <4>1, <4>2
    <3> QED
      BY <3>1 DEF Due, Pending
  <2> QED
    BY <2>1, <2>2, <2>3 DEF InOrder
<1> QED
  BY <1>2, <1>3 DEF execute

\* A step that passes no job on and makes nobody start.
LEMMA JobsStay ==
    ASSUME PoolTypeInv, InOrder,
           UNCHANGED queue,
           \A w \in Threads : thread'[w] \in {"given", "running"} =>
              thread'[w] = thread[w] /\ job'[w] = job[w],
           \A a \in Acts \ playingNow' : started'[a] = submitted'[a],
           \A k \in Jobs : Due(k) => Due(k)',
           \A a \in Acts : UnderWay(a) => UnderWay(a)'
    PROVE  InOrder'
<1>0. \A k \in Jobs : k.act \in Acts
  BY DEF Jobs
<1>1. ASSUME NEW w \in Threads, thread'[w] = "given" PROVE Due(job[w])'
  <2>1. PICK k \in Jobs : k = job'[w] /\ Due(k)'
    BY <1>1 DEF InOrder, PoolTypeInv, JobTaken
  <2> QED
    BY <2>1 DEF Due, Pending
<1>2. ASSUME NEW w \in Threads, thread'[w] = "running" PROVE UnderWay(job[w].act)'
  <2>1. PICK a \in Acts : a = job'[w].act /\ UnderWay(a)'
    BY <1>0, <1>2 DEF InOrder, PoolTypeInv, JobTaken
  <2> QED
    BY <2>1 DEF UnderWay, Pending
<1>3. ASSUME NEW i \in 1 .. Len(queue') PROVE Due(queue[i])'
  <2>1. PICK k \in Jobs : k = queue[i] /\ Due(k)'
    BY <1>3 DEF InOrder, PoolTypeInv, PoolTypeOK
  <2> QED
    BY <2>1 DEF Due, Pending
<1> QED
  BY <1>1, <1>2, <1>3 DEF InOrder

\* submit numbers on.
LEMMA SubmitInOrder ==
    ASSUME PoolTypeInv, OneJobPerAct, InOrder, NEW a \in Acts, submit(a)
    PROVE  InOrder'
<1> DEFINE n == submitted[a] + 1
<1>1. /\ submitted' = [submitted EXCEPT ![a] = n] /\ submitted[a] \in Nat
      /\ n \in Tasks /\ n \in Nat /\ UNCHANGED <<started, halted>>
      /\ submitted \in [Acts -> 0 .. MaxTasks]
  BY PoolAssumption DEF submit, PoolTypeInv, PoolTypeOK
<1>2. \A b \in Acts \ {a} : UNCHANGED <<submitted[b], started[b]>>
  BY <1>1
<1>3. CASE a \notin playingNow
  <2>0. PICK j \in Jobs : j = [act |-> a, task |-> n]
    BY <1>1 DEF Jobs
  <2>1. playingNow' = playingNow \cup {a} /\ acts' = acts /\ execute(j, thread)
    BY <1>3, <2>0 DEF submit
  <2>2. j \in Jobs /\ j.act = a /\ j.task = n
    BY <2>0
  <2>3. occupied(a) = {} /\ queued(a) = {} /\ acts[a] = <<>> /\ started[a] = submitted[a]
    BY <1>3, ActRestsOrPlays DEF Resting, InOrder
  <2>4. Due(j)'
    <3>1. /\ acts'[a] = <<>> /\ Len(acts'[a]) = 0 /\ submitted'[a] = n
          /\ n = started'[a] + 1
      BY <1>1, <2>1, <2>3 DEF PoolTypeInv, PoolTypeOK
    <3> QED
      BY <1>1, <2>2, <3>1 DEF Due, Pending
  <2>5. \A b \in Acts \ playingNow' : started'[b] = submitted'[b]
    BY <1>1, <1>2, <2>1 DEF InOrder
  <2>6. ASSUME NEW w \in Threads, NEW k \in Jobs, thread[w] = "given" /\ k = job[w]
        PROVE  Due(k)'
    <3>1. Due(k) /\ k.act \in Acts /\ k.act # a
      BY <2>3, <2>6 DEF InOrder, occupied, Jobs
    <3> QED
      BY <1>2, <2>1, <3>1, OwnNumbers
  <2>7. ASSUME NEW w \in Threads, NEW b \in Acts, thread[w] = "running" /\ b = job[w].act
        PROVE  UnderWay(b)'
    <3>1. UnderWay(b) /\ b # a
      BY <2>3, <2>7 DEF InOrder, occupied
    <3> QED
      BY <1>2, <2>1, <3>1, OwnTurn
  <2>8. ASSUME NEW i \in 1 .. Len(queue), NEW k \in Jobs, k = queue[i]
        PROVE  Due(k)'
    <3>1. Due(k) /\ k.act \in Acts /\ k.act # a
      BY <2>3, <2>8 DEF InOrder, queued, Jobs
    <3> QED
      BY <1>2, <2>1, <3>1, OwnNumbers
  <2>9. /\ queue \in Seq(Jobs) /\ job \in [Threads -> Jobs \cup {NoJob}]
        /\ thread \in [Threads -> ThreadStates]
        /\ \A w \in Threads : thread[w] \in {"given", "running"} => job[w] \in Jobs
    BY DEF PoolTypeInv, PoolTypeOK, JobTaken
  <2> HIDE DEF n
  <2> QED
    BY <2>1, <2>2, <2>4, <2>5, <2>6, <2>7, <2>8, <2>9, ExecuteInOrder
<1>4. CASE a \in playingNow
  <2>1. /\ acts' = [acts EXCEPT ![a] = Append(@, n)]
        /\ UNCHANGED <<playingNow, queue, thread, job>>
    BY <1>4 DEF submit
  <2>2. \A b \in Acts \ {a} : acts'[b] = acts[b]
    BY <2>1 DEF PoolTypeInv, PoolTypeOK
  <2>3. ASSUME NEW m, Pending(a, m) PROVE Pending(a, m)'
    <3>1. /\ acts[a] \in Seq(Tasks) /\ acts'[a] = Append(acts[a], n)
          /\ Len(acts[a]) \in Nat
      BY <2>1, LenProperties DEF PoolTypeInv, PoolTypeOK
    <3>2. /\ Len(acts'[a]) = Len(acts[a]) + 1
          /\ \A i \in 1 .. Len(acts[a]) : acts'[a][i] = acts[a][i]
          /\ acts'[a][Len(acts[a]) + 1] = n
      BY <1>1, <3>1, AppendProperties
    <3>3. /\ m \in Nat /\ Len(acts[a]) = submitted[a] - m
          /\ \A i \in 1 .. Len(acts[a]) : acts[a][i] = m + i
      BY <2>3 DEF Pending
    <3>4. Len(acts'[a]) = submitted'[a] - m /\ n = m + (Len(acts[a]) + 1)
      BY <1>1, <3>1, <3>2, <3>3 DEF PoolTypeInv, PoolTypeOK
    <3>5. ASSUME NEW i \in 1 .. Len(acts'[a]) PROVE acts'[a][i] = m + i
      <4>1. CASE i = Len(acts[a]) + 1
        BY <3>2, <3>4, <4>1
      <4>2. CASE i # Len(acts[a]) + 1
        <5>1. i \in 1 .. Len(acts[a])
          BY <3>1, <3>2, <3>5, <4>2
        <5> QED
          BY <3>2, <3>3, <5>1
      <4> QED
        BY <4>1, <4>2
    <3> QED
      BY <3>3, <3>4, <3>5 DEF Pending
  <2>4. \A k \in Jobs : Due(k) => Due(k)'
    <3> SUFFICES ASSUME NEW k \in Jobs, Due(k) PROVE Due(k)'
      OBVIOUS
    <3>1. k.act \in Acts
      BY DEF Jobs
    <3>2. CASE k.act = a
      BY <1>1, <2>3, <3>2 DEF Due
    <3>3. CASE k.act # a
      BY <1>2, <2>2, <3>1, <3>3, OwnNumbers
    <3> QED
      BY <3>2, <3>3
  <2>5. \A b \in Acts : UnderWay(b) => UnderWay(b)'
    <3> SUFFICES ASSUME NEW b \in Acts, UnderWay(b) PROVE UnderWay(b)'
      OBVIOUS
    <3>1. CASE b = a
      BY <1>1, <2>3, <3>1 DEF UnderWay
    <3>2. CASE b # a
      BY <1>2, <2>2, <3>2, OwnTurn
    <3> QED
      BY <3>1, <3>2
  <2>6. \A b \in Acts \ playingNow' : started'[b] = submitted'[b]
    BY <1>1, <1>2, <1>4, <2>1 DEF InOrder
  <2> HIDE DEF n
  <2> QED
    BY <2>1, <2>4, <2>5, <2>6, JobsStay
<1> QED
  BY <1>3, <1>4

\* A thread that has a job is the only one its act has anything to do with.
LEMMA WorksAlone ==
    ASSUME PoolTypeInv, OneJobPerAct, NEW w \in Threads,
           thread[w] \in {"given", "running"}
    PROVE  /\ job[w].act \in playingNow /\ job[w].act \in Acts
           /\ occupied(job[w].act) = {w} /\ queued(job[w].act) = {}
<1>1. job[w].act \in Acts /\ w \in occupied(job[w].act)
  BY DEF PoolTypeInv, JobTaken, Jobs, occupied
<1>2. job[w].act \in playingNow
  BY <1>1, ActRestsOrPlays DEF Resting
<1>3. Playing(job[w].act)
  BY <1>1, <1>2, ActRestsOrPlays
<1> QED
  BY <1>1, <1>2, <1>3 DEF Playing

\* complete passes on the next number.
LEMMA CompleteInOrder ==
    ASSUME PoolTypeInv, OneJobPerAct, InOrder, NEW w \in Threads, Complete(w)
    PROVE  InOrder'
<1>0. PICK a \in Acts, th \in [Threads -> ThreadStates] :
         a = job[w].act /\ th = [thread EXCEPT ![w] = "returning"]
  BY DEF Complete, PoolTypeInv, PoolTypeOK, JobTaken, Jobs, ThreadStates
<1>1. /\ complete(a, th) /\ thread[w] = "running"
      /\ UNCHANGED <<submitted, started, halted>>
  BY <1>0 DEF Complete
<1>2. occupied(a) = {w} /\ queued(a) = {} /\ a \in playingNow
  BY <1>0, <1>1, WorksAlone
<1>3. /\ UnderWay(a) /\ Len(acts[a]) \in Nat /\ acts[a] \in Seq(Tasks)
      /\ started[a] \in Nat /\ submitted[a] \in Nat
      /\ Len(acts[a]) = submitted[a] - started[a]
      /\ \A i \in 1 .. Len(acts[a]) : acts[a][i] = started[a] + i
  <2>1. acts[a] \in Seq(Tasks) /\ started[a] \in Nat /\ submitted[a] \in Nat
    BY PoolAssumption DEF PoolTypeInv, PoolTypeOK
  <2>2. UnderWay(a)
    BY <1>0, <1>1 DEF InOrder
  <2> QED
    BY <2>1, <2>2, LenProperties DEF UnderWay, Pending
<1>4. \A v \in Threads : th[v] \in {"given", "running"} =>
         th[v] = thread[v] /\ job[v] \in Jobs /\ job[v].act # a
  BY <1>0, <1>2 DEF occupied, PoolTypeInv, PoolTypeOK, JobTaken
<1>5. CASE acts[a] = <<>>
  <2>1. playingNow' = playingNow \ {a} /\ thread' = th
        /\ UNCHANGED <<acts, queue, job>>
    BY <1>1, <1>5 DEF complete, release
  <2>2. started[a] = submitted[a]
    BY <1>3, <1>5
  <2>3. \A b \in Acts \ playingNow' : started'[b] = submitted'[b]
    BY <1>1, <2>1, <2>2 DEF InOrder
  <2>4. \A k \in Jobs : Due(k) => Due(k)'
    BY <1>1, <2>1 DEF Due, Pending
  <2>5. \A b \in Acts : UnderWay(b) => UnderWay(b)'
    BY <1>1, <2>1 DEF UnderWay, Pending
  <2> QED
    BY <1>4, <2>1, <2>3, <2>4, <2>5, JobsStay
<1>6. CASE acts[a] # <<>>
  <2>1. /\ Head(acts[a]) \in Tasks /\ Head(acts[a]) = acts[a][1]
        /\ Tail(acts[a]) \in Seq(Tasks) /\ Len(Tail(acts[a])) = Len(acts[a]) - 1
        /\ \A i \in 1 .. Len(Tail(acts[a])) : Tail(acts[a])[i] = acts[a][i + 1]
        /\ Len(acts[a]) >= 1
    <3>1. /\ Head(acts[a]) \in Tasks /\ Tail(acts[a]) \in Seq(Tasks)
          /\ Len(Tail(acts[a])) = Len(acts[a]) - 1
          /\ \A i \in 1 .. Len(Tail(acts[a])) : Tail(acts[a])[i] = acts[a][i + 1]
      BY <1>3, <1>6, HeadTailProperties
    <3>2. Len(acts[a]) # 0
      BY <1>3, <1>6, EmptySeq
    <3>3. Head(acts[a]) = acts[a][1]
      BY <1>3, <1>6
    <3> QED
      BY <1>3, <3>1, <3>2, <3>3
  <2>2. PICK j \in Jobs : j = [act |-> a, task |-> Head(acts[a])]
    BY <2>1 DEF Jobs
  <2>3. /\ execute(j, th) /\ acts' = [acts EXCEPT ![a] = Tail(@)]
        /\ playingNow' = playingNow /\ j.act = a /\ j.task = started[a] + 1
    BY <1>1, <1>3, <1>6, <2>1, <2>2 DEF complete
  <2>4. acts'[a] = Tail(acts[a]) /\ \A b \in Acts \ {a} : acts'[b] = acts[b]
    BY <2>3 DEF PoolTypeInv, PoolTypeOK
  <2>5. Due(j)'
    <3>1. Len(acts'[a]) = submitted'[a] - j.task /\ j.task \in Nat
      <4>1. Len(acts'[a]) = Len(acts[a]) - 1 /\ submitted'[a] = submitted[a]
        BY <1>1, <2>1, <2>4
      <4>2. /\ Len(acts[a]) = submitted[a] - started[a]
            /\ submitted[a] \in Nat /\ started[a] \in Nat /\ j.task = started[a] + 1
        BY <1>3, <2>3
      <4> QED
        BY <4>1, <4>2
    <3>2. ASSUME NEW i \in 1 .. Len(acts'[a]) PROVE acts'[a][i] = j.task + i
      <4>1. i + 1 \in 1 .. Len(acts[a]) /\ acts'[a][i] = acts[a][i + 1]
        BY <1>3, <2>1, <2>4, <3>2
      <4>2. acts[a][i + 1] = started[a] + (i + 1)
        BY <1>3, <4>1
      <4>3. i \in Int /\ started[a] \in Nat /\ j.task = started[a] + 1
        BY <1>3, <2>3
      <4>4. started[a] + (i + 1) = (started[a] + 1) + i
        BY <4>3
      <4> QED
        BY <4>1, <4>2, <4>3, <4>4
    <3> QED
      BY <1>1, <2>3, <3>1, <3>2 DEF Due, Pending
  <2>6. \A b \in Acts \ playingNow' : started'[b] = submitted'[b]
    BY <1>1, <2>3 DEF InOrder
  <2>7. ASSUME NEW v \in Threads, NEW k \in Jobs, th[v] = "given" /\ k = job[v]
        PROVE  Due(k)'
    <3>1. Due(k) /\ k.act \in Acts /\ k.act # a
      BY <1>4, <2>7 DEF InOrder, Jobs
    <3> QED
      BY <1>1, <2>4, <3>1, OwnNumbers
  <2>8. ASSUME NEW v \in Threads, NEW b \in Acts, th[v] = "running" /\ b = job[v].act
        PROVE  UnderWay(b)'
    <3>1. UnderWay(b) /\ b # a
      BY <1>4, <2>8 DEF InOrder
    <3> QED
      BY <1>1, <2>4, <3>1, OwnTurn
  <2>9. ASSUME NEW i \in 1 .. Len(queue), NEW k \in Jobs, k = queue[i]
        PROVE  Due(k)'
    <3>1. Due(k) /\ k.act \in Acts /\ k.act # a
      BY <1>2, <2>9 DEF InOrder, queued, Jobs
    <3> QED
      BY <1>1, <2>4, <3>1, OwnNumbers
  <2>10. queue \in Seq(Jobs) /\ job \in [Threads -> Jobs \cup {NoJob}]
    BY DEF PoolTypeInv, PoolTypeOK
  <2> QED
    BY <1>4, <2>3, <2>5, <2>6, <2>7, <2>8, <2>9, <2>10, ExecuteInOrder
<1> QED
  BY <1>5, <1>6

\* A thread starts the task whose turn it is.
LEMMA StartInOrder ==
    ASSUME PoolTypeInv, InOrder, NEW w \in Threads, NEW j \in Jobs, Due(j),
           start_task(w, j), job' = [job EXCEPT ![w] = j], j.act \in playingNow,
           UNCHANGED <<playingNow, acts, submitted>>,
           \A v \in Threads \ {w} :
              thread[v] \in {"given", "running"} => job[v].act # j.act,
           \A i \in 1 .. Len(queue') : \E k \in 1 .. Len(queue) :
              queue'[i] = queue[k] /\ queue[k].act # j.act
    PROVE  InOrder'
<1>0. /\ thread' = [thread EXCEPT ![w] = "running"]
      /\ started' = [started EXCEPT ![j.act] = j.task]
      /\ thread \in [Threads -> ThreadStates] /\ started \in [Acts -> 0 .. MaxTasks]
      /\ job \in [Threads -> Jobs \cup {NoJob}] /\ j.act \in Acts
  BY DEF start_task, PoolTypeInv, PoolTypeOK, Jobs
<1>1. /\ started'[j.act] = j.task
      /\ \A b \in Acts \ {j.act} : started'[b] = started[b]
  BY <1>0
<1>2. \A b \in Acts \ playingNow' : started'[b] = submitted'[b]
  BY <1>1 DEF InOrder
<1>3. ASSUME NEW v \in Threads, thread'[v] = "given" PROVE Due(job[v])'
  <2>1. /\ v # w /\ thread[v] = "given" /\ job'[v] = job[v] /\ job[v] \in Jobs
        /\ job[v].act # j.act /\ job[v].act \in Acts /\ Due(job[v])
    BY <1>0, <1>3 DEF InOrder, PoolTypeInv, JobTaken, Jobs
  <2> QED
    BY <1>1, <2>1 DEF Due, Pending
<1>4. ASSUME NEW v \in Threads, thread'[v] = "running" PROVE UnderWay(job[v].act)'
  <2>1. CASE v = w
    <3>1. job'[v] = j
      BY <1>0, <2>1
    <3> QED
      BY <1>1, <3>1 DEF UnderWay, Pending, Due
  <2>2. CASE v # w
    <3>1. /\ thread[v] = "running" /\ job'[v] = job[v] /\ job[v] \in Jobs
          /\ job[v].act # j.act /\ job[v].act \in Acts /\ UnderWay(job[v].act)
      BY <1>0, <1>4, <2>2 DEF InOrder, PoolTypeInv, JobTaken, Jobs
    <3>2. PICK b \in Acts : b = job[v].act /\ b = job'[v].act /\ UnderWay(b) /\ b # j.act
      BY <3>1
    <3>3. UnderWay(b)'
      BY <1>1, <3>2, OwnTurn
    <3> QED
      BY <3>2, <3>3 DEF UnderWay, Pending
  <2> QED
    BY <2>1, <2>2
<1>5. ASSUME NEW i \in 1 .. Len(queue') PROVE Due(queue[i])'
  <2>1. PICK k \in 1 .. Len(queue) : queue'[i] = queue[k] /\ queue[k].act # j.act
    BY <1>5
  <2>2. queue[k] \in Jobs /\ queue[k].act \in Acts /\ Due(queue[k])
    <3>1. queue \in Seq(Jobs) /\ k \in 1 .. Len(queue)
      BY <2>1 DEF PoolTypeInv, PoolTypeOK
    <3>2. queue[k] \in Jobs
      BY <3>1
    <3> QED
      BY <3>1, <3>2 DEF InOrder, Jobs
  <2> QED
    BY <1>1, <2>1, <2>2 DEF Due, Pending
<1> QED
  BY <1>2, <1>3, <1>4, <1>5 DEF InOrder

\* What the thread that takes a job knows of it.
LEMMA TakesAlone ==
    ASSUME PoolTypeInv, OneJobPerAct, NEW w \in Threads, Take(w)
    PROVE  /\ Head(queue) \in Jobs /\ Head(queue) = queue[1] /\ 1 \in 1 .. Len(queue)
           /\ Head(queue).act \in playingNow /\ occupied(Head(queue).act) = {}
           /\ \A i \in 1 .. Len(queue') : /\ i + 1 \in 1 .. Len(queue)
                                          /\ queue'[i] = queue[i + 1]
                                          /\ queue[i + 1].act # Head(queue).act
<1>1. queue \in Seq(Jobs) /\ queue # <<>> /\ queue' = Tail(queue)
  BY DEF Take, PoolTypeInv, PoolTypeOK
<1>2. /\ Len(queue) \in Nat \ {0} /\ Len(queue') = Len(queue) - 1
      /\ \A i \in 1 .. Len(queue') : queue'[i] = queue[i + 1]
      /\ queue[1] = Head(queue) /\ Head(queue) \in Jobs
  BY <1>1, HeadTailProperties, LenProperties, EmptySeq
<1>3. PICK a \in Acts : a = Head(queue).act /\ 1 \in queued(a)
  BY <1>2 DEF Jobs, queued
<1>4. a \in playingNow /\ occupied(a) = {} /\ \A i \in queued(a) : i = 1
  BY <1>3, ActRestsOrPlays DEF Resting, Playing
<1>5. ASSUME NEW i \in 1 .. Len(queue')
      PROVE  i + 1 \in 1 .. Len(queue) /\ queue[i + 1].act # a
  <2>1. i + 1 \in 1 .. Len(queue) /\ i + 1 # 1
    BY <1>2
  <2> QED
    BY <1>4, <2>1 DEF queued
<1> QED
  BY <1>2, <1>3, <1>4, <1>5

\* Every step keeps the numbers in order.
LEMMA InOrderStep ==
    PoolTypeInv /\ OneJobPerAct /\ InOrder /\ [PoolNext]_poolVars => InOrder'
<1> SUFFICES ASSUME PoolTypeInv, OneJobPerAct, InOrder, [PoolNext]_poolVars
             PROVE  InOrder'
  OBVIOUS
<1>1. ASSUME NEW a \in Acts, Submit(a) PROVE InOrder'
  BY <1>1, SubmitInOrder DEF Submit
<1>2. CASE shutdown
  BY <1>2 DEF shutdown, InOrder, Due, UnderWay, Pending
<1>3. ASSUME NEW w \in Threads, Work(w) PROVE InOrder'
  <2>1. CASE Begin(w)
    <3>1. /\ job[w] \in Jobs /\ Due(job[w]) /\ job' = [job EXCEPT ![w] = job[w]]
          /\ start_task(w, job[w]) /\ thread[w] = "given"
          /\ UNCHANGED <<playingNow, acts, queue, submitted>>
      BY <2>1 DEF Begin, InOrder, PoolTypeInv, PoolTypeOK, JobTaken
    <3>2. /\ job[w].act \in playingNow /\ occupied(job[w].act) = {w}
          /\ queued(job[w].act) = {}
      BY <3>1, WorksAlone
    <3>3. \A v \in Threads \ {w} :
             thread[v] \in {"given", "running"} => job[v].act # job[w].act
      BY <3>2 DEF occupied
    <3>4. \A i \in 1 .. Len(queue) : queue[i].act # job[w].act
      BY <3>2 DEF queued
    <3> QED
      BY <3>1, <3>2, <3>3, <3>4, StartInOrder
  <2>2. CASE Take(w)
    <3>1. /\ job' = [job EXCEPT ![w] = Head(queue)] /\ start_task(w, Head(queue))
          /\ UNCHANGED <<playingNow, acts, submitted>>
      BY <2>2 DEF Take
    <3>2. /\ Head(queue) \in Jobs /\ Due(Head(queue))
          /\ Head(queue).act \in playingNow /\ occupied(Head(queue).act) = {}
      BY <2>2, TakesAlone DEF InOrder
    <3>3. \A v \in Threads \ {w} :
             thread[v] \in {"given", "running"} => job[v].act # Head(queue).act
      BY <3>2 DEF occupied
    <3>4. \A i \in 1 .. Len(queue') : \E k \in 1 .. Len(queue) :
              queue'[i] = queue[k] /\ queue[k].act # Head(queue).act
      BY <2>2, TakesAlone
    <3> QED
      BY <3>1, <3>2, <3>3, <3>4, StartInOrder
  <2>3. CASE Complete(w)
    BY <2>3, CompleteInOrder
  <2>4. CASE Return(w) \/ Fail(w) \/ Replace(w)
    <3>1. /\ UNCHANGED <<playingNow, acts, queue, submitted, started>>
          /\ \A v \in Threads : thread'[v] \in {"given", "running"} =>
                thread'[v] = thread[v] /\ job'[v] = job[v]
      BY <2>4 DEF Return, Fail, Replace, PoolTypeInv, PoolTypeOK
    <3>2. /\ \A a \in Acts \ playingNow' : started'[a] = submitted'[a]
          /\ \A k \in Jobs : Due(k) => Due(k)'
          /\ \A a \in Acts : UnderWay(a) => UnderWay(a)'
      BY <3>1 DEF InOrder, Due, UnderWay, Pending
    <3> QED
      BY <3>1, <3>2, JobsStay
  <2> QED
    BY <1>3, <2>1, <2>2, <2>3, <2>4 DEF Work
<1>4. CASE UNCHANGED poolVars
  BY <1>4 DEF poolVars, InOrder, Due, UnderWay, Pending
<1> QED
  BY <1>1, <1>2, <1>3, <1>4 DEF PoolNext

-----------------------------------------------------------------------------
(* The pool implements SerialActs, whose acts with a running task are those *)
(* some thread runs a task of.                                              *)

active == {job[w].act : w \in {v \in Threads : thread[v] = "running"}}
serialVars == <<submitted, started, active, halted>>
SerialNext == Serial!Next

\* Threads that neither start nor finish a task leave the active acts alone.
LEMMA SameActive ==
    ASSUME \A v \in Threads : thread'[v] = "running" <=> thread[v] = "running",
           \A v \in Threads : thread[v] = "running" => job'[v] = job[v]
    PROVE  active' = active
BY DEF active

\* execute creates threads, and starts nothing.
LEMMA ExecuteStartsNothing ==
    ASSUME NEW j, NEW th \in [Threads -> ThreadStates], execute(j, th),
           job \in [Threads -> Jobs \cup {NoJob}]
    PROVE  \A v \in Threads : /\ thread'[v] = "running" <=> th[v] = "running"
                              /\ th[v] = "running" => job'[v] = job[v]
BY DEF execute

LEMMA SerialInit == PoolInit => Serial!Init
BY DEF PoolInit, Serial!Init

LEMMA SubmitIsSerial ==
    ASSUME PoolTypeInv, NEW a \in Acts, submit(a) PROVE SerialNext
<1>1. /\ submitted[a] \in Nat /\ submitted[a] + 1 <= MaxTasks
      /\ submitted' = [submitted EXCEPT ![a] = submitted[a] + 1]
      /\ UNCHANGED <<started, halted>> /\ MaxTasks \in Nat
  BY PoolAssumption DEF submit, PoolTypeInv, PoolTypeOK
<1>2. \/ execute([act |-> a, task |-> submitted[a] + 1], thread)
      \/ UNCHANGED <<thread, job>>
  BY DEF submit
<1>3. active' = active
  BY <1>2, ExecuteStartsNothing, SameActive DEF PoolTypeInv, PoolTypeOK
<1>4. Serial!Submit(a)
  <2>1. submitted[a] < MaxTasks
    BY <1>1
  <2> QED
    BY <1>1, <1>3, <2>1 DEF Serial!Submit, active
<1> QED
  BY <1>4 DEF SerialNext, Serial!Next

LEMMA StartIsSerial ==
    ASSUME PoolTypeInv, NEW w \in Threads, NEW j \in Jobs, Due(j),
           start_task(w, j), job' = [job EXCEPT ![w] = j],
           \A v \in Threads : thread[v] = "running" => v # w /\ job[v].act # j.act,
           UNCHANGED <<submitted, halted>>
    PROVE  SerialNext
<1> DEFINE a == j.act
<1>0. /\ thread' = [thread EXCEPT ![w] = "running"]
      /\ started' = [started EXCEPT ![a] = j.task]
      /\ thread \in [Threads -> ThreadStates] /\ started \in [Acts -> 0 .. MaxTasks]
      /\ job \in [Threads -> Jobs \cup {NoJob}] /\ a \in Acts
  BY DEF start_task, PoolTypeInv, PoolTypeOK, Jobs
<1>1. a \notin active
  BY DEF active
<1>2. active' = active \cup {a}
  <2>1. \A v \in Threads : thread'[v] = "running" <=> v = w \/ thread[v] = "running"
    BY <1>0
  <2>2. job'[w] = j /\ \A v \in Threads \ {w} : job'[v] = job[v]
    BY <1>0
  <2> QED
    BY <2>1, <2>2 DEF active
<1>3. started[a] < submitted[a] /\ j.task = started[a] + 1
  <2>1. /\ Len(acts[a]) \in Nat /\ started[a] \in Nat /\ submitted[a] \in Nat
        /\ j.task = started[a] + 1 /\ Len(acts[a]) = submitted[a] - j.task
    BY <1>0, LenProperties, PoolAssumption DEF PoolTypeInv, PoolTypeOK, Due, Pending
  <2> QED
    BY <2>1
<1>4. Serial!Start(a)
  BY <1>0, <1>1, <1>2, <1>3 DEF Serial!Start, active
<1> QED
  BY <1>0, <1>4 DEF SerialNext, Serial!Next

LEMMA CompleteIsSerial ==
    ASSUME PoolTypeInv, OneJobPerAct, NEW w \in Threads, Complete(w)
    PROVE  SerialNext
<1>0. PICK a \in Acts, th \in [Threads -> ThreadStates] :
         a = job[w].act /\ th = [thread EXCEPT ![w] = "returning"]
  BY DEF Complete, PoolTypeInv, PoolTypeOK, JobTaken, Jobs, ThreadStates
<1>1. /\ complete(a, th) /\ thread[w] = "running"
      /\ UNCHANGED <<submitted, started, halted>>
  BY <1>0 DEF Complete
<1>2. occupied(a) = {w}
  BY <1>0, <1>1, WorksAlone
<1>3. \A v \in Threads : /\ thread'[v] = "running" <=> th[v] = "running"
                         /\ th[v] = "running" => job'[v] = job[v]
  BY <1>1, ExecuteStartsNothing DEF complete, release, PoolTypeInv, PoolTypeOK
<1>4. \A v \in Threads : th[v] = "running" <=> v # w /\ thread[v] = "running"
  BY <1>0 DEF PoolTypeInv, PoolTypeOK
<1>5. \A v \in Threads : thread[v] = "running" /\ job[v].act = a => v = w
  BY <1>2 DEF occupied
<1>6. a \in active /\ active' = active \ {a}
  BY <1>0, <1>1, <1>3, <1>4, <1>5 DEF active
<1>7. Serial!Finish(a)
  BY <1>1, <1>6 DEF Serial!Finish, active
<1> QED
  BY <1>7 DEF SerialNext, Serial!Next

LEMMA SerialStep ==
    PoolTypeInv /\ OneJobPerAct /\ InOrder /\ [PoolNext]_poolVars
      => [SerialNext]_serialVars
<1> SUFFICES ASSUME PoolTypeInv, OneJobPerAct, InOrder, [PoolNext]_poolVars
             PROVE  [SerialNext]_serialVars
  OBVIOUS
<1>1. ASSUME NEW a \in Acts, Submit(a) PROVE SerialNext
  BY <1>1, SubmitIsSerial DEF Submit
<1>2. CASE shutdown
  <2>1. /\ ~halted /\ halted' = TRUE /\ UNCHANGED <<submitted, started>>
        /\ active' = active
    BY <1>2 DEF shutdown, active
  <2>2. Serial!Shutdown
    BY <2>1 DEF Serial!Shutdown, active
  <2> QED
    BY <2>2 DEF SerialNext, Serial!Next
<1>3. ASSUME NEW w \in Threads, Work(w) PROVE [SerialNext]_serialVars
  <2>1. CASE Begin(w)
    <3>1. /\ job[w] \in Jobs /\ Due(job[w]) /\ job' = [job EXCEPT ![w] = job[w]]
          /\ start_task(w, job[w]) /\ thread[w] = "given"
          /\ UNCHANGED <<submitted, halted>>
      BY <2>1 DEF Begin, InOrder, PoolTypeInv, PoolTypeOK, JobTaken
    <3>2. occupied(job[w].act) = {w}
      BY <3>1, WorksAlone
    <3>3. \A v \in Threads : thread[v] = "running" => v # w /\ job[v].act # job[w].act
      BY <3>1, <3>2 DEF occupied
    <3> QED
      BY <3>1, <3>3, StartIsSerial
  <2>2. CASE Take(w)
    <3>1. /\ job' = [job EXCEPT ![w] = Head(queue)] /\ start_task(w, Head(queue))
          /\ thread[w] = "idle" /\ UNCHANGED <<submitted, halted>>
      BY <2>2 DEF Take
    <3>2. /\ Head(queue) \in Jobs /\ Due(Head(queue))
          /\ occupied(Head(queue).act) = {}
      BY <2>2, TakesAlone DEF InOrder
    <3>3. \A v \in Threads : thread[v] = "running" => v # w /\ job[v].act # Head(queue).act
      BY <3>1, <3>2 DEF occupied
    <3> QED
      BY <3>1, <3>2, <3>3, StartIsSerial
  <2>3. CASE Complete(w)
    BY <2>3, CompleteIsSerial
  <2>4. CASE Return(w) \/ Fail(w) \/ Replace(w)
    <3>1. /\ UNCHANGED <<submitted, started, halted>>
          /\ \A v \in Threads : /\ thread'[v] = "running" <=> thread[v] = "running"
                                /\ thread[v] = "running" => job'[v] = job[v]
      BY <2>4 DEF Return, Fail, Replace, PoolTypeInv, PoolTypeOK
    <3>2. active' = active
      BY <3>1, SameActive
    <3> QED
      BY <3>1, <3>2 DEF serialVars
  <2> QED
    BY <1>3, <2>1, <2>2, <2>3, <2>4 DEF Work
<1>4. CASE UNCHANGED poolVars
  BY <1>4 DEF poolVars, serialVars, active
<1> QED
  BY <1>1, <1>2, <1>3, <1>4 DEF PoolNext

\* The tasks of an act run one at a time, each once and in the order in which
\* they were submitted, whatever the executor does with its threads: every step
\* of submit, complete and the threads is a step of SerialActs, or none.
THEOREM TasksOneByOne ==
    PoolSpec => Serial!Init /\ [][Serial!Next]_serialVars
<1>1. PoolInit => PoolTypeInv /\ OneJobPerAct /\ InOrder /\ Serial!Init
  BY PoolTypeInit, OneJobInit, InOrderInit, SerialInit
<1>2. PoolTypeInv /\ OneJobPerAct /\ InOrder /\ [PoolNext]_poolVars
        => (PoolTypeInv /\ OneJobPerAct /\ InOrder)'
  BY PoolTypeStep, OneJobStep, InOrderStep
<1>3. PoolTypeInv /\ OneJobPerAct /\ InOrder /\ [PoolNext]_poolVars
        => [Serial!Next]_serialVars
  BY SerialStep DEF SerialNext
<1> QED
  BY <1>1, <1>2, <1>3, PTL DEF PoolSpec
=============================================================================
