--------------------------- MODULE ReactorProofs ---------------------------
(***************************************************************************)
(* Proofs about Reactor, for every number of connections, threads, requests *)
(* and frames: the reactor uses its pool as the pool wants to be used, so  *)
(* requests are handled in order, no frame is forgotten, and the selector  *)
(* thread does not go to sleep on a task.                                  *)
(***************************************************************************)
EXTENDS Reactor, PoolProofs

-----------------------------------------------------------------------------
(* The inductive invariant.                                                 *)

\* What TypeOK says of the variables that are not the pool's or the table's.
OwnTypes ==
    /\ running_id \in 0 .. MaxConns
    /\ key \in [Conns -> Keys]
    /\ write_op \in [Conns -> BOOLEAN]
    /\ writeQueue \in [Conns -> 0 .. MaxFrames]
    /\ selectorTasks \in Seq(Conns)
    /\ wakeup \in BOOLEAN
    /\ serve \in Places
    /\ current \in Conns \cup {NoConn}
    /\ selected \in [Conns -> SUBSET Ready]
    /\ arrived \in [Conns -> 0 .. MaxTasks]
    /\ client \in [Conns -> {"unborn", "knocking", "open", "closed"}]
    /\ step \in [Threads -> {"process", "queued", "asked", "removing"}]
    /\ target \in [Threads -> Conns \cup {NoConn}]
    /\ sent \in 0 .. MaxFrames

\* Only connections that were accepted are in the table.
Table == connections \subseteq 1 .. running_id /\ torn \in BOOLEAN

\* No queue holds more frames than were sent, no socket more requests than may
\* still be submitted.
Counts ==
    /\ \A c \in Conns : writeQueue[c] <= sent
    /\ \A c \in Conns : submitted[c] + arrived[c] <= MaxTasks

\* Clients are accepted in the order of their numbers, and only those that were
\* have something queued.
Births ==
    /\ \A c \in Conns : client[c] = "knocking" => c = running_id + 1
    /\ \A c \in Conns : "accept" \in selected[c] => client[c] = "knocking"
    /\ \A c \in Conns : writeQueue[c] > 0 => c <= running_id

\* Whoever is at work on a connection has one, and the pool is shut down only
\* when the selector thread is done.
Hands ==
    /\ serve \in {"write", "written", "empty"} => current \in Conns
    /\ \A w \in Threads : step[w] \in {"queued", "asked"} => target[w] \in Conns
    /\ halted => serve = "stopped"

\* The connections whose OP_WRITE is going to be asked for.
asked ==
    {c \in Conns :
        \/ \E i \in 1 .. Len(selectorTasks) : selectorTasks[i] = c
        \/ \E w \in Threads : processing(w, "queued") /\ target[w] = c}

\* NoLostWrites, in the words of the proofs.
LostWrites ==
    \A c \in Conns : key[c] = "valid" /\ writeQueue[c] > 0 =>
        write_op[c] \/ c \in asked \/ ~serving

LEMMA LostWritesSame == LostWrites <=> NoLostWrites
  BY DEF NoLostWrites, LostWrites, asked

\* What the selector thread is about to take OP_WRITE away from has an empty
\* queue, or it is going to be asked for again.
EmptyOrAsked ==
    serve = "empty" => writeQueue[current] = 0 \/ current \in asked

WritesKept == LostWrites /\ EmptyOrAsked

\* From the end of the tasks to the next, the wakeup is on its way.
AwakeForTasks ==
    serve \notin {"tasks", "dead"} /\ selectorTasks # <<>> =>
        wakeup \/ \E w \in Threads : processing(w, "asked")

IInv ==
    /\ PoolTypeInv /\ OneJobPerAct
    /\ OwnTypes /\ Table /\ Counts /\ Births /\ Hands
    /\ WritesKept /\ AwakeForTasks

-----------------------------------------------------------------------------
(* What the reactor does with the pool.                                     *)

LEMMA ConnsAreActs == Conns = Acts /\ NoConn \notin Conns /\ MaxConns \in Nat
                      /\ MaxFrames \in Nat /\ MaxTasks \in Nat
  BY ReactorAssumption, PoolAssumption

\* Every step is one of the pool or leaves it alone.
LEMMA StepOfPool ==
  ASSUME Hands, [Next]_vars
  PROVE  [PoolNext]_poolVars
<1>1. ASSUME NEW c \in Conns, Read(c)  PROVE PoolNext
  BY <1>1, ConnsAreActs DEF Hands, Read, PoolNext, Submit
<1>2. ASSUME NEW c \in Conns, AcceptFails(c)  PROVE PoolNext
  BY <1>2 DEF AcceptFails, PoolNext
<1>3. ASSUME NEW w \in Threads, ExecutorStep(w)  PROVE PoolNext
  BY <1>3 DEF ExecutorStep, PoolNext, Work
<1>4. ASSUME NEW w \in Threads, EndProcess(w)  PROVE PoolNext
  BY <1>4 DEF EndProcess, PoolNext, Work
<1>5. ASSUME NEW w \in Threads,
             (\E d \in Conns : Enqueue(w, d)) \/ AddTask(w) \/ WakeUp(w)
               \/ Dismiss(w) \/ Remove(w)
      PROVE  UNCHANGED poolVars
  BY <1>5 DEF Enqueue, AddTask, WakeUp, Dismiss, Remove
<1>6. CASE Select \/ RunTask \/ EndTasks \/ EndKeys \/ WriteFrame \/ FullSocket
           \/ WriteFails \/ SeeEmpty \/ AskAgain \/ EndWrite
  BY <1>6 DEF Select, RunTask, EndTasks, EndKeys, WriteFrame, FullSocket,
              WriteFails, SeeEmpty, AskAgain, EndWrite
<1>7. ASSUME NEW c \in Conns,
             \/ HandleAccept(c) \/ PutThrows(c) \/ ReadFails(c) \/ OnlyWrite(c)
             \/ Knock(c) \/ SendRequest(c) \/ CloseEnd(c)
      PROVE  UNCHANGED poolVars
  BY <1>7 DEF HandleAccept, PutThrows, accept, ReadFails, OnlyWrite, Knock, SendRequest, CloseEnd
<1>8. CASE UNCHANGED vars
  BY <1>8 DEF vars
<1> QED  BY <1>1, <1>2, <1>3, <1>4, <1>5, <1>6, <1>7, <1>8
         DEF Next, SelectorStep, ThreadStep

\* execute takes nothing away from a thread that runs a task.
LEMMA ExecuteLeavesRunning ==
  ASSUME NEW j, NEW th \in [Threads -> ThreadStates], execute(j, th),
         NEW v \in Threads, th[v] = "running"
  PROVE  thread'[v] = "running"
  BY DEF execute

\* A thread that is between two halves of a send goes on running.
LEMMA SenderRuns ==
  ASSUME PoolTypeInv, Hands, [Next]_vars, NEW v \in Threads, thread[v] = "running",
         step[v] \in {"queued", "asked"}
  PROVE  thread'[v] = "running"
<1>0. thread \in [Threads -> ThreadStates]
  BY DEF PoolTypeInv, PoolTypeOK
<1>1. CASE UNCHANGED poolVars
  BY <1>1 DEF poolVars
<1>2. ASSUME NEW a \in Acts, submit(a)  PROVE thread'[v] = "running"
  <2>1. CASE thread' = thread
    BY <2>1
  <2>2. CASE execute([act |-> a, task |-> submitted[a] + 1], thread)
    BY <2>2, <1>0, ExecuteLeavesRunning
  <2> QED  BY <1>2, <2>1, <2>2 DEF submit
<1>3. CASE shutdown
  BY <1>3 DEF shutdown
<1>4. ASSUME NEW w \in Threads, ExecutorStep(w)  PROVE thread'[v] = "running"
  BY <1>4, <1>0 DEF ExecutorStep, Begin, Take, Return, start_task
<1>5. ASSUME NEW w \in Threads, EndProcess(w)  PROVE thread'[v] = "running"
  <2>1. w # v /\ Complete(w)
    BY <1>5 DEF EndProcess, processing
  <2> DEFINE th == [thread EXCEPT ![w] = "returning"]
  <2>2. th \in [Threads -> ThreadStates] /\ th[v] = "running"
    BY <2>1, <1>0 DEF ThreadStates
  <2>3. CASE thread' = th
    BY <2>2, <2>3
  <2>4. CASE execute([act |-> job[w].act, task |-> Head(acts[job[w].act])], th)
    <3> HIDE DEF th
    <3> QED  BY <2>2, <2>4, ExecuteLeavesRunning
  <2> QED  BY <2>1, <2>3, <2>4 DEF Complete, complete, release
<1>6. \/ UNCHANGED poolVars \/ shutdown
      \/ \E a \in Acts : submit(a)
      \/ \E w \in Threads : ExecutorStep(w) \/ EndProcess(w)
  <2>1. CASE UNCHANGED vars
    BY <2>1 DEF vars
  <2>2. CASE SelectorStep
    BY <2>2, ConnsAreActs
       DEF SelectorStep, Select, RunTask, EndTasks, EndKeys, WriteFrame,
           FullSocket, WriteFails, SeeEmpty, AskAgain, EndWrite, HandleAccept, PutThrows, accept,
           AcceptFails, Read, ReadFails, OnlyWrite
  <2>3. ASSUME NEW w \in Threads, ThreadStep(w)
        PROVE  UNCHANGED poolVars \/ ExecutorStep(w) \/ EndProcess(w)
    BY <2>3 DEF ThreadStep, Enqueue, AddTask, WakeUp, Dismiss, Remove
  <2>4. ASSUME NEW c \in Conns, Knock(c) \/ SendRequest(c) \/ CloseEnd(c)
        PROVE  UNCHANGED poolVars
    BY <2>4 DEF Knock, SendRequest, CloseEnd
  <2> QED  BY <2>1, <2>2, <2>3, <2>4 DEF Next
<1> QED  BY <1>1, <1>2, <1>3, <1>4, <1>5, <1>6

-----------------------------------------------------------------------------
(* The initial states.                                                      *)

LEMMA ReactorInit == Init => IInv
<1> SUFFICES ASSUME Init  PROVE IInv
  OBVIOUS
<1>1. PoolTypeInv /\ OneJobPerAct
  BY PoolTypeInit, OneJobInit DEF Init
<1>2. OwnTypes
  <2>1. /\ running_id \in 0 .. MaxConns /\ sent \in 0 .. MaxFrames
        /\ writeQueue \in [Conns -> 0 .. MaxFrames]
        /\ arrived \in [Conns -> 0 .. MaxTasks]
    BY ConnsAreActs DEF Init
  <2>2. /\ selectorTasks \in Seq(Conns) /\ selected \in [Conns -> SUBSET Ready]
    BY DEF Init
  <2> QED  BY <2>1, <2>2 DEF Init, OwnTypes, Keys, Places
<1>8. Table
  BY DEF Init, Table
<1>3. Counts
  BY ConnsAreActs DEF Init, Counts, PoolInit
<1>4. Births
  BY DEF Init, Births
<1>5. Hands
  BY DEF Init, Hands, PoolInit
<1>6. WritesKept
  BY DEF Init, WritesKept, LostWrites, EmptyOrAsked
<1>7. AwakeForTasks
  BY DEF Init, AwakeForTasks
<1> QED  BY <1>1, <1>2, <1>3, <1>4, <1>5, <1>6, <1>7, <1>8 DEF IInv

-----------------------------------------------------------------------------
(* Types, counts and the order of births.                                   *)

\* Requests that were read are submitted, at most one task for all of them.
LEMMA CountsStep ==
  ASSUME PoolTypeInv, OwnTypes, Counts, Births, [Next]_vars
  PROVE  Counts'
<1>0. /\ submitted \in [Acts -> 0 .. MaxTasks] /\ arrived \in [Conns -> 0 .. MaxTasks]
      /\ writeQueue \in [Conns -> 0 .. MaxFrames] /\ sent \in 0 .. MaxFrames
      /\ Conns = Acts /\ MaxTasks \in Nat /\ MaxFrames \in Nat
  BY ConnsAreActs DEF PoolTypeInv, PoolTypeOK, OwnTypes
<1>1. CASE UNCHANGED <<writeQueue, sent, submitted, arrived>>
  BY <1>1 DEF Counts
<1>2. ASSUME NEW c \in Conns, Read(c)  PROVE Counts'
  BY <1>0, <1>2 DEF Counts, Read, submit, processVars
<1>3. ASSUME NEW c \in Conns, SendRequest(c)  PROVE Counts'
  BY <1>0, <1>3 DEF Counts, SendRequest, poolVars, processVars
<1>4. CASE WriteFrame
  <2>1. ASSUME NEW c \in Conns  PROVE (writeQueue[c] <= sent)'
    BY <1>0, <1>4 DEF Counts, WriteFrame, processVars
  <2> QED  BY <1>4, <2>1 DEF Counts, WriteFrame, poolVars, clientVars
<1>5. ASSUME NEW w \in Threads, NEW d \in Conns, Enqueue(w, d)  PROVE Counts'
  BY <1>0, <1>5 DEF Counts, Enqueue, poolVars, clientVars
<1>6. \/ UNCHANGED <<writeQueue, sent, submitted, arrived>>
      \/ \E c \in Conns : Read(c) \/ SendRequest(c)
      \/ WriteFrame
      \/ \E w \in Threads, d \in Conns : Enqueue(w, d)
  <2>1. CASE UNCHANGED vars
    BY <2>1 DEF vars, poolVars, clientVars, processVars
  <2>2. CASE Select \/ RunTask \/ EndTasks \/ EndKeys \/ FullSocket \/ WriteFails
             \/ SeeEmpty \/ AskAgain \/ EndWrite
    BY <2>2 DEF Select, RunTask, EndTasks, EndKeys, FullSocket, WriteFails,
                SeeEmpty, AskAgain, EndWrite, poolVars, clientVars, processVars
  <2>3. ASSUME NEW c \in Conns,
               HandleAccept(c) \/ PutThrows(c) \/ AcceptFails(c) \/ ReadFails(c) \/ OnlyWrite(c)
               \/ Knock(c) \/ CloseEnd(c)
        PROVE  UNCHANGED <<writeQueue, sent, submitted, arrived>>
    BY <2>3 DEF HandleAccept, PutThrows, accept, AcceptFails, ReadFails, OnlyWrite, Knock, CloseEnd,
                shutdown, poolVars, clientVars, processVars
  <2>4. ASSUME NEW w \in Threads,
               ExecutorStep(w) \/ EndProcess(w) \/ AddTask(w) \/ WakeUp(w)
               \/ Dismiss(w) \/ Remove(w)
        PROVE  UNCHANGED <<writeQueue, sent, submitted, arrived>>
    BY <2>4 DEF ExecutorStep, EndProcess, AddTask, WakeUp, Dismiss, Remove, Begin, Take,
                Return, Complete, poolVars, clientVars, processVars
  <2> QED  BY <2>1, <2>2, <2>3, <2>4 DEF Next, SelectorStep, ThreadStep
<1> QED  BY <1>1, <1>2, <1>3, <1>4, <1>5, <1>6

\* The client whose knocking is accepted is the next one.
LEMMA BirthsStep ==
  ASSUME OwnTypes, Table, Births, Hands, [Next]_vars
  PROVE  Births'
<1>0. /\ running_id \in 0 .. MaxConns /\ MaxConns \in Nat
      /\ writeQueue \in [Conns -> 0 .. MaxFrames] /\ MaxFrames \in Nat
      /\ client \in [Conns -> {"unborn", "knocking", "open", "closed"}]
      /\ selected \in [Conns -> SUBSET Ready]
      /\ Conns \subseteq Nat
  BY ConnsAreActs DEF OwnTypes, Conns
<1>1. CASE UNCHANGED <<client, running_id, selected, writeQueue>>
  BY <1>1 DEF Births
<1>2. CASE Select
  BY <1>0, <1>2 DEF Births, Select, ready, clientVars
<1>3. ASSUME NEW c \in Conns, HandleAccept(c) \/ PutThrows(c)  PROVE Births'
  <2>1. c = running_id + 1 /\ running_id' = c
    BY <1>3 DEF Births, HandleAccept, PutThrows, accept
  <2>2. \A d \in Conns : client[d] = "knocking" => d = c
    BY <2>1 DEF Births
  <2> QED  BY <1>0, <1>3, <2>1, <2>2 
                DEF Births, HandleAccept, PutThrows, accept
<1>4. ASSUME NEW c \in Conns, Read(c) \/ ReadFails(c) \/ OnlyWrite(c)  PROVE Births'
  <2>1. selected' = [selected EXCEPT ![c] = {}]
        /\ UNCHANGED <<client, running_id, writeQueue>>
    BY <1>4 DEF Read, ReadFails, OnlyWrite, then_write, clientVars
  <2> QED  BY <1>0, <2>1 DEF Births
<1>5. CASE WriteFrame
  BY <1>0, <1>5 DEF Births, WriteFrame, selectorVars, channelVars, clientVars
<1>6. ASSUME NEW w \in Threads, NEW d \in Conns, Enqueue(w, d)  PROVE Births'
  BY <1>0, <1>6 DEF Table, Births, Enqueue, selectorVars, channelVars, clientVars
<1>7. ASSUME NEW c \in Conns, Knock(c) \/ CloseEnd(c)  PROVE Births'
  BY <1>0, <1>7 DEF Births, Knock, CloseEnd, selectorVars, channelVars
<1>8. \/ UNCHANGED <<client, running_id, selected, writeQueue>>
      \/ Select \/ WriteFrame
      \/ \E c \in Conns : \/ HandleAccept(c) \/ PutThrows(c) \/ Read(c) \/ ReadFails(c)
                          \/ OnlyWrite(c) \/ Knock(c) \/ CloseEnd(c)
      \/ \E w \in Threads, d \in Conns : Enqueue(w, d)
  <2>1. CASE UNCHANGED vars
    BY <2>1 DEF vars, selectorVars, channelVars, clientVars
  <2>2. CASE RunTask \/ EndTasks \/ EndKeys \/ FullSocket \/ WriteFails
             \/ SeeEmpty \/ AskAgain \/ EndWrite
    BY <2>2 DEF RunTask, EndTasks, EndKeys, FullSocket, WriteFails, SeeEmpty,
                AskAgain, EndWrite, channelVars, clientVars
  <2>3. ASSUME NEW c \in Conns, AcceptFails(c) \/ SendRequest(c)
        PROVE  UNCHANGED <<client, running_id, selected, writeQueue>>
    BY <2>3 DEF AcceptFails, SendRequest, selectorVars, channelVars, clientVars
  <2>4. ASSUME NEW w \in Threads,
               ExecutorStep(w) \/ EndProcess(w) \/ AddTask(w) \/ WakeUp(w)
               \/ Dismiss(w) \/ Remove(w)
        PROVE  UNCHANGED <<client, running_id, selected, writeQueue>>
    BY <2>4 DEF ExecutorStep, EndProcess, AddTask, WakeUp, Dismiss, Remove, selectorVars,
                channelVars, clientVars
  <2> QED  BY <2>1, <2>2, <2>3, <2>4 DEF Next, SelectorStep, ThreadStep
<1> QED  BY <1>1, <1>2, <1>3, <1>4, <1>5, <1>6, <1>7, <1>8

\* Nobody enters the table but by being accepted.
LEMMA TableStep ==
  ASSUME OwnTypes, Table, [Next]_vars
  PROVE  Table'
<1>0. running_id \in Nat
  BY ConnsAreActs DEF OwnTypes
<1>1. CASE UNCHANGED <<tableVars, running_id>>
  BY <1>1 DEF Table, tableVars
<1>2. ASSUME NEW c \in Conns, HandleAccept(c) \/ PutThrows(c)  PROVE Table'
  <2>1. running_id' = running_id + 1 /\ torn' \in BOOLEAN
    BY <1>2 DEF HandleAccept, PutThrows, accept, Table
  <2>2. \/ connections' \subseteq 1 .. running_id'
        \/ connections' = connections \cup {running_id'}
        \/ connections' = connections
    BY <1>2 DEF HandleAccept, PutThrows, left_by_write
  <2>3. 1 .. running_id \subseteq 1 .. running_id' /\ running_id' \in 1 .. running_id'
    BY <1>0, <2>1
  <2>4. connections' \subseteq 1 .. running_id'
    BY <2>2, <2>3, Zenon DEF Table
  <2> QED  BY <2>1, <2>4 DEF Table
<1>3. ASSUME NEW w \in Threads, Dismiss(w)  PROVE Table'
  BY <1>3 DEF Dismiss, Table, channelVars
<1>4. ASSUME NEW w \in Threads, Remove(w)  PROVE Table'
  BY <1>4 DEF Remove, left_by_write, Table, channelVars
<1>5. \/ UNCHANGED <<tableVars, running_id>>
      \/ \E c \in Conns : HandleAccept(c) \/ PutThrows(c)
      \/ \E w \in Threads : Dismiss(w) \/ Remove(w)
  <2>1. CASE UNCHANGED vars
    BY <2>1 DEF vars, channelVars
  <2>2. CASE Select \/ RunTask \/ EndTasks \/ EndKeys \/ WriteFrame \/ FullSocket
             \/ WriteFails \/ SeeEmpty \/ AskAgain \/ EndWrite
    BY <2>2 DEF Select, RunTask, EndTasks, EndKeys, WriteFrame, FullSocket, WriteFails,
                SeeEmpty, AskAgain, EndWrite, channelVars
  <2>3. ASSUME NEW c \in Conns, \/ AcceptFails(c) \/ Read(c) \/ ReadFails(c) \/ OnlyWrite(c)
                               \/ Knock(c) \/ SendRequest(c) \/ CloseEnd(c)
        PROVE  UNCHANGED <<tableVars, running_id>>
    BY <2>3 DEF AcceptFails, Read, ReadFails, OnlyWrite, Knock, SendRequest, CloseEnd,
                channelVars, tableVars
  <2>4. ASSUME NEW w \in Threads, \/ ExecutorStep(w) \/ EndProcess(w) \/ AddTask(w)
                                 \/ WakeUp(w) \/ \E d \in Conns : Enqueue(w, d)
        PROVE  UNCHANGED <<tableVars, running_id>>
    BY <2>4 DEF ExecutorStep, EndProcess, AddTask, WakeUp, Enqueue, channelVars,
                tableVars
  <2> QED  BY <2>1, <2>2, <2>3, <2>4 DEF Next, SelectorStep, ThreadStep
<1> QED  BY <1>1, <1>2, <1>3, <1>4, <1>5

\* The selector thread and the clients keep the types.
LEMMA SelectorTypes ==
  ASSUME PoolTypeInv, OwnTypes, Births, Hands,
         SelectorStep \/ \E c \in Conns : Knock(c) \/ SendRequest(c) \/ CloseEnd(c)
  PROVE  OwnTypes'
<1>0. /\ MaxConns \in Nat /\ MaxFrames \in Nat /\ MaxTasks \in Nat
      /\ Conns = 1 .. MaxConns /\ Conns = Acts
      /\ submitted \in [Acts -> 0 .. MaxTasks]
  BY ConnsAreActs DEF PoolTypeInv, PoolTypeOK, Conns
<1>1. CASE Select
  <2>1. selected' \in [Conns -> SUBSET Ready]
    BY <1>1 DEF Select, ready, Ready
  <2>2. key' \in [Conns -> Keys]
    BY <1>1 DEF Select, OwnTypes, Keys
  <2> QED  BY <1>1, <2>1, <2>2 DEF Select, OwnTypes, Places, clientVars, processVars
<1>2. CASE RunTask
  <2>1. Head(selectorTasks) \in Conns /\ selectorTasks' \in Seq(Conns)
    BY <1>2 DEF RunTask, OwnTypes
  <2>2. write_op' \in [Conns -> BOOLEAN] /\ serve' \in Places
    BY <1>2, <2>1 DEF RunTask, OwnTypes, Places
  <2> QED  BY <1>2, <2>1, <2>2 DEF RunTask, OwnTypes, clientVars, processVars
<1>3. CASE EndTasks \/ EndKeys
  BY <1>3 DEF EndTasks, EndKeys, OwnTypes, Places, channelVars, clientVars, processVars
<1>4. ASSUME NEW c \in Conns, HandleAccept(c) \/ PutThrows(c)  PROVE OwnTypes'
  <2>1. running_id' \in 0 .. MaxConns
    BY <1>0, <1>4 DEF HandleAccept, PutThrows, accept, Births
  <2> QED  BY <1>4, <2>1 DEF HandleAccept, PutThrows, accept, OwnTypes, Keys, Places,
                             processVars
<1>5. ASSUME NEW c \in Conns, AcceptFails(c)  PROVE OwnTypes'
  BY <1>5 DEF AcceptFails, OwnTypes, Places, channelVars, clientVars, processVars
<1>6. ASSUME NEW c \in Conns, Read(c)  PROVE OwnTypes'
  BY <1>0, <1>6 DEF Read, then_write, OwnTypes, Places, processVars
<1>7. ASSUME NEW c \in Conns, ReadFails(c) \/ OnlyWrite(c)  PROVE OwnTypes'
  BY <1>7 DEF ReadFails, OnlyWrite, close, then_write, OwnTypes, Places, Keys,
              clientVars, processVars
<1>8. CASE WriteFrame
  <2>1. current \in Conns
    BY <1>8 DEF WriteFrame, Hands
  <2>2. writeQueue' \in [Conns -> 0 .. MaxFrames]
    BY <1>0, <1>8, <2>1 DEF WriteFrame, OwnTypes
  <2> QED  BY <1>8, <2>2 DEF WriteFrame, OwnTypes, selectorVars, channelVars,
                             clientVars, processVars
<1>9. CASE FullSocket \/ WriteFails \/ SeeEmpty \/ AskAgain \/ EndWrite
  BY <1>9 DEF FullSocket, WriteFails, SeeEmpty, AskAgain, EndWrite, close, OwnTypes,
              Places, Keys, channelVars, clientVars, processVars
<1>10. ASSUME NEW c \in Conns, Knock(c) \/ CloseEnd(c)  PROVE OwnTypes'
  BY <1>10 DEF Knock, CloseEnd, OwnTypes, selectorVars, channelVars, processVars
<1>11. ASSUME NEW c \in Conns, SendRequest(c)  PROVE OwnTypes'
  <2>1. /\ submitted[c] \in 0 .. MaxTasks /\ arrived \in [Conns -> 0 .. MaxTasks]
        /\ submitted[c] + arrived[c] < MaxTasks
        /\ arrived' = [arrived EXCEPT ![c] = @ + 1]
    BY <1>0, <1>11 DEF SendRequest, OwnTypes
  <2>2. arrived[c] \in 0 .. MaxTasks
    BY <2>1
  <2>3. arrived[c] + 1 \in 0 .. MaxTasks
    BY <1>0, <2>1, <2>2
  <2>4. arrived' \in [Conns -> 0 .. MaxTasks]
    BY <2>1, <2>3
  <2> QED  BY <1>11, <2>4 DEF SendRequest, OwnTypes, selectorVars, channelVars,
                              processVars
<1> QED  BY <1>1, <1>2, <1>3, <1>4, <1>5, <1>6, <1>7, <1>8, <1>9, <1>10, <1>11
         DEF SelectorStep

\* So do the threads of the pool.
LEMMA ThreadTypes ==
  ASSUME OwnTypes, Counts, Hands, NEW w \in Threads, ThreadStep(w)
  PROVE  OwnTypes'
<1>1. CASE ExecutorStep(w) \/ EndProcess(w)
  BY <1>1 DEF ExecutorStep, EndProcess, OwnTypes, selectorVars, channelVars,
              clientVars, processVars
<1>2. ASSUME NEW d \in Conns, Enqueue(w, d)  PROVE OwnTypes'
  <2>1. sent' \in 0 .. MaxFrames /\ writeQueue' \in [Conns -> 0 .. MaxFrames]
    BY <1>2, ConnsAreActs DEF Enqueue, OwnTypes, Counts
  <2> QED  BY <1>2, <2>1 DEF Enqueue, OwnTypes, selectorVars, channelVars, clientVars
<1>3. CASE AddTask(w)
  <2>1. selectorTasks' \in Seq(Conns)
    BY <1>3 DEF AddTask, processing, Hands, OwnTypes
  <2> QED  BY <1>3, <2>1 DEF AddTask, OwnTypes, selectorVars, channelVars, clientVars
<1>4. CASE WakeUp(w) \/ Dismiss(w) \/ Remove(w)
  BY <1>4 DEF WakeUp, Dismiss, Remove, OwnTypes, selectorVars, channelVars, clientVars
<1> QED  BY <1>1, <1>2, <1>3, <1>4 DEF ThreadStep

LEMMA OwnTypesStep ==
  ASSUME PoolTypeInv, OwnTypes, Counts, Births, Hands, [Next]_vars
  PROVE  OwnTypes'
<1>1. CASE UNCHANGED vars
  BY <1>1 DEF vars, OwnTypes, selectorVars, channelVars, clientVars, processVars
<1> QED  BY <1>1, SelectorTypes, ThreadTypes DEF Next

\* Whoever is at work on a connection has one.
LEMMA HandsStep ==
  ASSUME OwnTypes, Hands, [Next]_vars
  PROVE  Hands'
<1>0. /\ step \in [Threads -> {"process", "queued", "asked", "removing"}]
      /\ target \in [Threads -> Conns \cup {NoConn}]
  BY DEF OwnTypes
<1>1. CASE UNCHANGED vars
  BY <1>1 DEF vars, Hands, selectorVars, processVars, poolVars
<1>2. CASE SelectorStep
  <2>1. CASE Select \/ RunTask \/ EndTasks \/ EndKeys
    BY <2>1 DEF Select, RunTask, EndTasks, EndKeys, Hands, processVars, poolVars
  <2>2. ASSUME NEW c \in Conns, HandleAccept(c) \/ PutThrows(c) \/ AcceptFails(c)  PROVE Hands'
    BY <2>2 DEF HandleAccept, PutThrows, accept, AcceptFails, shutdown, Hands, processVars, poolVars
  <2>3. ASSUME NEW c \in Conns, Read(c) \/ ReadFails(c) \/ OnlyWrite(c)  PROVE Hands'
    BY <2>3 DEF Read, ReadFails, OnlyWrite, submit, then_write, Hands, processVars,
                poolVars
  <2>4. CASE WriteFrame \/ FullSocket \/ WriteFails \/ SeeEmpty \/ AskAgain \/ EndWrite
    BY <2>4 DEF WriteFrame, FullSocket, WriteFails, SeeEmpty, AskAgain, EndWrite,
                Hands, selectorVars, processVars, poolVars
  <2> QED  BY <1>2, <2>1, <2>2, <2>3, <2>4 DEF SelectorStep
<1>3. ASSUME NEW w \in Threads, ThreadStep(w)  PROVE Hands'
  <2>1. UNCHANGED <<serve, current, halted>>
    BY <1>3 DEF ThreadStep, ExecutorStep, EndProcess, Enqueue, AddTask, WakeUp, Dismiss, Remove,
                Begin, Take, Return, Complete, selectorVars, poolVars
  <2>2. \A v \in Threads : step'[v] \in {"queued", "asked"} => target'[v] \in Conns
    BY <1>0, <1>3 DEF ThreadStep, ExecutorStep, EndProcess, Enqueue, AddTask, WakeUp,
                      Dismiss, Remove, processing, Hands, processVars
  <2> QED  BY <2>1, <2>2 DEF Hands
<1>4. ASSUME NEW c \in Conns, Knock(c) \/ SendRequest(c) \/ CloseEnd(c)  PROVE Hands'
  BY <1>4 DEF Knock, SendRequest, CloseEnd, Hands, selectorVars, processVars, poolVars
<1> QED  BY <1>1, <1>2, <1>3, <1>4 DEF Next

-----------------------------------------------------------------------------
(* No frame is forgotten.                                                   *)

\* Only a thread's own step moves it on, and only RunTask takes a task away.
LEMMA TasksAndThreads ==
  ASSUME OwnTypes, [Next]_vars
  PROVE  /\ \/ selectorTasks' = selectorTasks
            \/ RunTask
            \/ \E w \in Threads : AddTask(w)
         /\ \A v \in Threads : processing(v, "queued") =>
               AddTask(v) \/ (step'[v] = "queued" /\ target'[v] = target[v])
         /\ \A v \in Threads : processing(v, "asked") =>
               WakeUp(v) \/ step'[v] = "asked"
<1>0. /\ step \in [Threads -> {"process", "queued", "asked", "removing"}]
      /\ target \in [Threads -> Conns \cup {NoConn}]
  BY DEF OwnTypes
<1>1. CASE UNCHANGED <<selectorTasks, step, target>>
  BY <1>1 DEF processing
<1>2. CASE RunTask
  BY <1>2 DEF RunTask, processing, processVars
<1>3. ASSUME NEW w \in Threads, ThreadStep(w)
      PROVE  /\ selectorTasks' = selectorTasks \/ AddTask(w)
             /\ \A v \in Threads \ {w} : step'[v] = step[v] /\ target'[v] = target[v]
             /\ processing(w, "queued") =>
                   AddTask(w) \/ (step'[w] = "queued" /\ target'[w] = target[w])
             /\ processing(w, "asked") => WakeUp(w) \/ step'[w] = "asked"
  <2>1. CASE ExecutorStep(w)
    BY <2>1 DEF ExecutorStep, processVars, processing
  <2>2. CASE EndProcess(w)
    BY <2>2 DEF EndProcess, processVars, processing
  <2>3. ASSUME NEW d \in Conns, Enqueue(w, d)
        PROVE  /\ selectorTasks' = selectorTasks
               /\ \A v \in Threads \ {w} : step'[v] = step[v] /\ target'[v] = target[v]
               /\ ~processing(w, "queued") /\ ~processing(w, "asked")
    BY <1>0, <2>3 DEF Enqueue, processing
  <2>4. CASE AddTask(w)
    BY <1>0, <2>4 DEF AddTask, processing
  <2>5. CASE WakeUp(w)
    BY <1>0, <2>5 DEF WakeUp, processing
  <2>6. CASE Dismiss(w) \/ Remove(w)
    BY <1>0, <2>6 DEF Dismiss, Remove, processing
  <2> QED  BY <1>3, <2>1, <2>2, <2>3, <2>4, <2>5, <2>6 DEF ThreadStep
<1>4. \/ UNCHANGED <<selectorTasks, step, target>> \/ RunTask
      \/ \E w \in Threads : ThreadStep(w)
  <2>1. CASE UNCHANGED vars
    BY <2>1 DEF vars, processVars
  <2>2. CASE SelectorStep
    BY <2>2 DEF SelectorStep, Select, EndTasks, EndKeys, WriteFrame, FullSocket,
                WriteFails, SeeEmpty, AskAgain, EndWrite, HandleAccept, PutThrows, accept, AcceptFails,
                Read, ReadFails, OnlyWrite, processVars
  <2>3. ASSUME NEW c \in Conns, Knock(c) \/ SendRequest(c) \/ CloseEnd(c)
        PROVE  UNCHANGED <<selectorTasks, step, target>>
    BY <2>3 DEF Knock, SendRequest, CloseEnd, processVars
  <2> QED  BY <2>1, <2>2, <2>3 DEF Next
<1> QED  BY <1>1, <1>2, <1>3, <1>4 DEF processing

\* What is asked for stays so until its task is run.
LEMMA AskedStays ==
  ASSUME PoolTypeInv, OwnTypes, Hands, [Next]_vars, ~RunTask,
         NEW c \in Conns, c \in asked
  PROVE  c \in asked'
<1>0. selectorTasks \in Seq(Conns)
  BY DEF OwnTypes
<1>1. ASSUME NEW w \in Threads, AddTask(w)
      PROVE  /\ selectorTasks' = Append(selectorTasks, target[w])
             /\ target[w] \in Conns
  BY <1>1 DEF AddTask, processing, Hands
<1>2. CASE \E i \in 1 .. Len(selectorTasks) : selectorTasks[i] = c
  <2>1. PICK i \in 1 .. Len(selectorTasks) : selectorTasks[i] = c
    BY <1>2
  <2>2. i \in 1 .. Len(selectorTasks') /\ selectorTasks'[i] = c
    <3>1. CASE selectorTasks' = selectorTasks
      BY <2>1, <3>1
    <3>2. ASSUME NEW w \in Threads, AddTask(w)
          PROVE  i \in 1 .. Len(selectorTasks') /\ selectorTasks'[i] = c
      BY <1>0, <1>1, <2>1, <3>2
    <3> QED  BY <3>1, <3>2, TasksAndThreads
  <2> QED  BY <2>2 DEF asked
<1>3. ASSUME NEW v \in Threads, processing(v, "queued"), target[v] = c
      PROVE  c \in asked'
  <2>1. CASE AddTask(v)
    <3>1. /\ Len(selectorTasks) + 1 \in 1 .. Len(selectorTasks')
          /\ selectorTasks'[Len(selectorTasks) + 1] = c
      BY <1>0, <1>1, <1>3, <2>1
    <3> QED  BY <3>1 DEF asked
  <2>2. CASE step'[v] = "queued" /\ target'[v] = target[v]
    <3>1. thread'[v] = "running"
      BY <1>3, SenderRuns DEF processing
    <3> QED  BY <1>3, <2>2, <3>1 DEF asked, processing
  <2> QED  BY <1>3, <2>1, <2>2, TasksAndThreads
<1> QED  BY <1>2, <1>3 DEF asked

\* It is about to be asked for what was queued this moment.
LEMMA EnqueueKeepsWrites ==
  ASSUME PoolTypeInv, OwnTypes, Hands, WritesKept, NEW w \in Threads, NEW d \in Conns,
         Enqueue(w, d)
  PROVE  WritesKept'
<1>0. /\ step \in [Threads -> {"process", "queued", "asked", "removing"}]
      /\ target \in [Threads -> Conns \cup {NoConn}]
      /\ writeQueue \in [Conns -> 0 .. MaxFrames]
  BY DEF OwnTypes
<1>1. [Next]_vars /\ ~RunTask
  <2>1. selectorTasks' = selectorTasks /\ step' # step
    BY <1>0 DEF Enqueue, processing
  <2>2. ~RunTask
    BY <2>1 DEF RunTask, processVars
  <2> QED  BY <2>2 DEF Next, ThreadStep
<1>2. d \in asked'
  <2>1. (processing(w, "queued") /\ target[w] = d)'
    BY <1>0 DEF Enqueue, processing, poolVars
  <2> QED  BY <2>1 DEF asked
<1>3. \A c \in Conns \ {d} : writeQueue'[c] = writeQueue[c]
  BY <1>0 DEF Enqueue
<1>4. UNCHANGED <<key, write_op, serve, current>>
  BY DEF Enqueue, selectorVars, channelVars
<1>5. LostWrites'
  <2> SUFFICES ASSUME NEW c \in Conns, key'[c] = "valid", writeQueue'[c] > 0
               PROVE  write_op'[c] \/ c \in asked' \/ ~serving'
    BY DEF LostWrites
  <2> QED  BY <1>1, <1>2, <1>3, <1>4, AskedStays
           DEF WritesKept, LostWrites, serving
<1>6. EmptyOrAsked'
  <2> SUFFICES ASSUME serve' = "empty"
               PROVE  writeQueue'[current'] = 0 \/ current' \in asked'
    BY DEF EmptyOrAsked
  <2>1. current \in Conns /\ current' = current
    BY <1>4 DEF Hands
  <2> QED  BY <1>1, <1>2, <1>3, <1>4, <2>1, AskedStays DEF WritesKept, EmptyOrAsked
<1> QED  BY <1>5, <1>6 DEF WritesKept

\* A task that is run gives its connection OP_WRITE, or ends serve().
LEMMA RunTaskKeepsWrites ==
  ASSUME OwnTypes, WritesKept, RunTask
  PROVE  WritesKept'
<1> DEFINE h == Head(selectorTasks)
<1>0. /\ selectorTasks \in Seq(Conns) /\ selectorTasks # <<>>
      /\ write_op \in [Conns -> BOOLEAN]
      /\ selectorTasks' = Tail(selectorTasks)
      /\ UNCHANGED <<key, writeQueue, thread, step, target>>
  BY DEF OwnTypes, RunTask, poolVars, processVars
<1>1. ASSUME NEW c \in Conns \ {h}, c \in asked  PROVE c \in asked'
  <2>1. CASE \E w \in Threads : processing(w, "queued") /\ target[w] = c
    <3>1. (\E w \in Threads : processing(w, "queued") /\ target[w] = c)'
      BY <1>0, <2>1 DEF processing
    <3> QED  BY <3>1 DEF asked
  <2>2. CASE \E i \in 1 .. Len(selectorTasks) : selectorTasks[i] = c
    <3>1. PICK i \in 1 .. Len(selectorTasks) : selectorTasks[i] = c
      BY <2>2
    <3>2. i # 1
      BY <1>0, <1>1, <3>1
    <3>3. i - 1 \in 1 .. Len(selectorTasks') /\ selectorTasks'[i - 1] = c
      BY <1>0, <3>1, <3>2
    <3> QED  BY <3>3 DEF asked
  <2> QED  BY <1>1, <2>1, <2>2 DEF asked
<1>2. CASE key[h] = "valid"
  <2>1. serve' = "tasks" /\ serve = "tasks" /\ write_op' = [write_op EXCEPT ![h] = TRUE]
    BY <1>2 DEF RunTask
  <2> HIDE DEF h
  <2> QED  BY <1>0, <1>1, <2>1 DEF WritesKept, LostWrites, EmptyOrAsked, serving
<1>3. CASE key[h] # "valid"
  <2>1. serve' = "dead"
    BY <1>3 DEF RunTask
  <2> QED  BY <2>1 DEF WritesKept, LostWrites, EmptyOrAsked, serving
<1> QED  BY <1>2, <1>3

\* A step that queues nothing, takes OP_WRITE from no channel and opens only
\* channels with an empty queue.
Harmless ==
    /\ ~RunTask
    /\ write_op' = write_op
    /\ \A c \in Conns : writeQueue'[c] > 0 => writeQueue[c] > 0
    /\ \A c \in Conns : key'[c] = "valid" => key[c] = "valid" \/ ~(writeQueue[c] > 0)
    /\ serve \in {"dead", "spinning", "stopped"} => serve' = serve
    /\ serve' = "empty" => \/ serve = "empty" /\ UNCHANGED <<current, writeQueue>>
                           \/ writeQueue'[current'] = 0

LEMMA HarmlessKeepsWrites ==
  ASSUME PoolTypeInv, OwnTypes, Hands, WritesKept, [Next]_vars, Harmless
  PROVE  WritesKept'
<1>1. LostWrites'
  <2> SUFFICES ASSUME NEW c \in Conns, key'[c] = "valid", writeQueue'[c] > 0
               PROVE  write_op'[c] \/ c \in asked' \/ ~serving'
    BY DEF LostWrites
  <2>1. key[c] = "valid" /\ writeQueue[c] > 0
    BY DEF Harmless
  <2>2. write_op[c] \/ c \in asked \/ ~serving
    BY <2>1 DEF WritesKept, LostWrites
  <2>3. CASE c \in asked
    BY <2>3, AskedStays DEF Harmless
  <2> QED  BY <2>2, <2>3 DEF Harmless, serving
<1>2. EmptyOrAsked'
  <2> SUFFICES ASSUME serve' = "empty"
               PROVE  writeQueue'[current'] = 0 \/ current' \in asked'
    BY DEF EmptyOrAsked
  <2>1. CASE serve = "empty" /\ UNCHANGED <<current, writeQueue>>
    <3>1. current \in Conns
      BY <2>1 DEF Hands
    <3>2. CASE current \in asked
      BY <2>1, <3>1, <3>2, AskedStays DEF Harmless
    <3> QED  BY <2>1, <3>2 DEF WritesKept, EmptyOrAsked
  <2> QED  BY <2>1 DEF Harmless
<1> QED  BY <1>1, <1>2 DEF WritesKept

\* OP_WRITE is taken away from a channel with nothing to write, or that is
\* going to be asked for.
LEMMA EndWriteKeepsWrites ==
  ASSUME PoolTypeInv, OwnTypes, Hands, WritesKept, [Next]_vars, EndWrite
  PROVE  WritesKept'
<1>0. /\ serve = "empty" /\ serve' = "keys" /\ current \in Conns
      /\ writeQueue' = writeQueue /\ ~RunTask
      /\ key \in [Conns -> Keys] /\ write_op \in [Conns -> BOOLEAN]
  BY DEF EndWrite, Hands, OwnTypes, RunTask
<1>1. \A c \in Conns : /\ key'[c] = "valid" => key[c] = "valid"
                       /\ c # current => write_op'[c] = write_op[c]
  BY <1>0 DEF EndWrite, close
<1>2. LostWrites'
  <2> SUFFICES ASSUME NEW c \in Conns, key'[c] = "valid", writeQueue'[c] > 0
               PROVE  write_op'[c] \/ c \in asked' \/ ~serving'
    BY DEF LostWrites
  <2>1. CASE c \in asked
    BY <1>0, <2>1, AskedStays
  <2>2. CASE c = current
    BY <1>0, <2>1, <2>2 DEF WritesKept, EmptyOrAsked
  <2>3. CASE c # current
    BY <1>0, <1>1, <2>1, <2>3 DEF WritesKept, LostWrites, serving
  <2> QED  BY <2>2, <2>3
<1> QED  BY <1>0, <1>2 DEF WritesKept, EmptyOrAsked

\* No other step of the selector thread does harm.
LEMMA SelectorHarmless ==
  ASSUME OwnTypes, Births, SelectorStep, ~RunTask, ~EndWrite
  PROVE  Harmless
<1>0. /\ key \in [Conns -> Keys] /\ writeQueue \in [Conns -> 0 .. MaxFrames]
      /\ running_id \in Nat /\ Conns \subseteq Nat /\ MaxFrames \in Nat
  BY ConnsAreActs DEF OwnTypes, Conns
<1>1. CASE Select
  BY <1>0, <1>1 DEF Select, Harmless
<1>2. CASE EndTasks \/ EndKeys
  BY <1>2 DEF EndTasks, EndKeys, Harmless, channelVars
<1>3. ASSUME NEW c \in Conns, HandleAccept(c) \/ PutThrows(c)  PROVE Harmless
  <2>1. c = running_id + 1
    BY <1>3 DEF HandleAccept, PutThrows, accept, Births
  <2>2. ~(writeQueue[c] > 0)
    BY <1>0, <2>1 DEF Births
  <2>3. \A d \in Conns : key'[d] = "valid" => key[d] = "valid" \/ d = c
    BY <1>0, <1>3 DEF HandleAccept, PutThrows
  <2> QED  BY <1>3, <2>2, <2>3 DEF HandleAccept, PutThrows, accept, Harmless
<1>4. ASSUME NEW c \in Conns, AcceptFails(c)  PROVE Harmless
  BY <1>4 DEF AcceptFails, Harmless, channelVars
<1>5. ASSUME NEW c \in Conns, Read(c) \/ ReadFails(c) \/ OnlyWrite(c)  PROVE Harmless
  BY <1>0, <1>5 DEF Read, ReadFails, OnlyWrite, close, then_write, Harmless
<1>6. CASE WriteFrame
  <2>1. \A c \in Conns : writeQueue'[c] > 0 => writeQueue[c] > 0
    BY <1>0, <1>6 DEF WriteFrame
  <2> QED  BY <1>6, <2>1 DEF WriteFrame, Harmless, selectorVars, channelVars
<1>7. CASE FullSocket \/ WriteFails \/ SeeEmpty
  BY <1>0, <1>7 DEF FullSocket, WriteFails, SeeEmpty, close, Harmless, channelVars
<1>8. CASE AskAgain
  BY <1>8 DEF AskAgain, Harmless, channelVars
<1> QED  BY <1>1, <1>2, <1>3, <1>4, <1>5, <1>6, <1>7, <1>8 DEF SelectorStep

\* Nor does a step of anybody else, except that it may queue a frame.
LEMMA OthersHarmless ==
  ASSUME OwnTypes, [Next]_vars, ~SelectorStep,
         \A w \in Threads, d \in Conns : ~Enqueue(w, d)
  PROVE  Harmless
<1>1. UNCHANGED <<key, write_op, writeQueue, serve, current>>
  <2>1. CASE UNCHANGED vars
    BY <2>1 DEF vars, selectorVars, channelVars
  <2>2. ASSUME NEW w \in Threads,
               ExecutorStep(w) \/ EndProcess(w) \/ AddTask(w) \/ WakeUp(w)
               \/ Dismiss(w) \/ Remove(w)
        PROVE  UNCHANGED <<key, write_op, writeQueue, serve, current>>
    BY <2>2 DEF ExecutorStep, EndProcess, AddTask, WakeUp, Dismiss, Remove, selectorVars,
                channelVars
  <2>3. ASSUME NEW c \in Conns, Knock(c) \/ SendRequest(c) \/ CloseEnd(c)
        PROVE  UNCHANGED <<key, write_op, writeQueue, serve, current>>
    BY <2>3 DEF Knock, SendRequest, CloseEnd, selectorVars, channelVars
  <2> QED  BY <2>1, <2>2, <2>3 DEF Next, ThreadStep
<1> QED  BY <1>1 DEF Harmless, SelectorStep

LEMMA WritesStep ==
  ASSUME PoolTypeInv, OwnTypes, Births, Hands, WritesKept, [Next]_vars
  PROVE  WritesKept'
<1>1. CASE RunTask
  BY <1>1, RunTaskKeepsWrites
<1>2. CASE EndWrite
  BY <1>2, EndWriteKeepsWrites
<1>3. CASE \E w \in Threads, d \in Conns : Enqueue(w, d)
  BY <1>3, EnqueueKeepsWrites
<1>4. CASE SelectorStep /\ ~RunTask /\ ~EndWrite
  BY <1>4, SelectorHarmless, HarmlessKeepsWrites
<1> QED  BY <1>1, <1>2, <1>3, <1>4, OthersHarmless, HarmlessKeepsWrites

-----------------------------------------------------------------------------
(* The selector thread does not go to sleep on a task.                      *)

\* Only a select takes the wakeup, and it goes on to the tasks.
LEMMA WakeupStays ==
  ASSUME OwnTypes, [Next]_vars
  PROVE  /\ wakeup => wakeup' \/ Select
         /\ serve \in {"tasks", "dead"} => serve' = serve \/ EndTasks \/ RunTask
         /\ Select \/ RunTask => serve' \in {"tasks", "dead"}
<1>1. CASE UNCHANGED vars
  BY <1>1 DEF vars, selectorVars, Select, RunTask
<1>2. CASE SelectorStep
  BY <1>2 DEF SelectorStep, Select, RunTask, EndTasks, EndKeys, WriteFrame, FullSocket,
              WriteFails, SeeEmpty, AskAgain, EndWrite, HandleAccept, PutThrows, accept, AcceptFails,
              Read, ReadFails, OnlyWrite
<1>3. ASSUME NEW w \in Threads, ThreadStep(w)
      PROVE  serve' = serve /\ (wakeup => wakeup')
  BY <1>3 DEF ThreadStep, ExecutorStep, EndProcess, Enqueue, AddTask, WakeUp, Dismiss, Remove,
              selectorVars
<1>4. ASSUME NEW c \in Conns, Knock(c) \/ SendRequest(c) \/ CloseEnd(c)
      PROVE  serve' = serve /\ wakeup' = wakeup
  BY <1>4 DEF Knock, SendRequest, CloseEnd, selectorVars
<1>5. Select \/ RunTask => serve' \in {"tasks", "dead"}
  BY DEF Select, RunTask
<1> QED  BY <1>1, <1>2, <1>3, <1>4, <1>5 DEF Next

LEMMA AwakeStep ==
  ASSUME PoolTypeInv, OwnTypes, Hands, AwakeForTasks, [Next]_vars
  PROVE  AwakeForTasks'
<1> SUFFICES ASSUME serve' \notin {"tasks", "dead"}, selectorTasks' # <<>>, ~wakeup'
             PROVE  (\E w \in Threads : processing(w, "asked"))'
  BY DEF AwakeForTasks
<1>0. step \in [Threads -> {"process", "queued", "asked", "removing"}]
  BY DEF OwnTypes
<1>1. ~Select /\ ~RunTask
  BY WakeupStays
<1>2. ~EndTasks
  BY DEF EndTasks
<1>3. serve \notin {"tasks", "dead"} /\ ~wakeup
  BY <1>1, <1>2, WakeupStays
<1>4. ASSUME NEW w \in Threads, AddTask(w)
      PROVE  (\E v \in Threads : processing(v, "asked"))'
  <2>1. step'[w] = "asked" /\ thread'[w] = "running"
    BY <1>0, <1>4 DEF AddTask, processing, poolVars
  <2> QED  BY <2>1 DEF processing
<1>5. CASE selectorTasks' = selectorTasks
  <2>1. PICK v \in Threads : processing(v, "asked")
    BY <1>3, <1>5 DEF AwakeForTasks
  <2>2. ~WakeUp(v)
    BY DEF WakeUp
  <2>3. step'[v] = "asked"
    BY <2>1, <2>2, TasksAndThreads
  <2>4. thread'[v] = "running"
    BY <2>1, SenderRuns DEF processing
  <2> QED  BY <2>3, <2>4 DEF processing
<1> QED  BY <1>1, <1>4, <1>5, TasksAndThreads

-----------------------------------------------------------------------------
(* The theorems.                                                            *)

LEMMA ReactorStep == IInv /\ [Next]_vars => IInv'
<1> SUFFICES ASSUME IInv, [Next]_vars  PROVE IInv'
  OBVIOUS
<1>1. (PoolTypeInv /\ OneJobPerAct)'
  BY StepOfPool, PoolTypeStep, OneJobStep DEF IInv
<1>2. (OwnTypes /\ Table /\ Counts /\ Births /\ Hands)'
  BY OwnTypesStep, TableStep, CountsStep, BirthsStep, HandsStep DEF IInv
<1>3. (WritesKept /\ AwakeForTasks)'
  BY WritesStep, AwakeStep DEF IInv
<1> QED  BY <1>1, <1>2, <1>3 DEF IInv

\* The invariant of all the proofs above: what the reactor does between
\* accepting a client and closing its channel keeps each of its parts.
THEOREM ReactorInvariant == Spec => []IInv
  BY ReactorInit, ReactorStep, PTL DEF Spec

\* The variables keep their types: the selector thread has a connection
\* whenever it writes, and a client is given a number no other client has.
THEOREM ReactorType == Spec => []TypeOK
<1>1. IInv => TypeOK
  <2> SUFFICES ASSUME IInv  PROVE TypeOK
    OBVIOUS
  <2>1. connections \subseteq Conns
    BY ConnsAreActs DEF IInv, Table, OwnTypes, Conns
  <2> QED  BY <2>1 DEF IInv, PoolTypeInv, OwnTypes, Table, TypeOK
<1> QED  BY <1>1, ReactorInvariant, PTL

\* A frame in the queue of an open channel is never forgotten: send() and
\* continueWrite() run at the same time, and whatever their order OP_WRITE is
\* set or about to be.
THEOREM WritesAreKept == Spec => []NoLostWrites
<1>1. IInv => NoLostWrites
  BY LostWritesSame DEF IInv, WritesKept
<1> QED  BY <1>1, ReactorInvariant, PTL

\* The selector thread does not select with a task in its queue unless it is
\* going to be woken: updateInterestedOps adds the task before it wakes.
THEOREM SelectorIsWoken == Spec => []NoSleepOnTasks
<1>1. IInv => NoSleepOnTasks
  BY DEF IInv, AwakeForTasks, NoSleepOnTasks
<1> QED  BY <1>1, ReactorInvariant, PTL

\* No client's requests are ever with two threads at once: the reactor, with
\* all it does besides, uses its pool as PoolSpec allows.
THEOREM ReactorServesInTurn == Spec => []OneJobPerAct
<1>1. IInv => OneJobPerAct
  BY DEF IInv
<1> QED  BY <1>1, ReactorInvariant, PTL

\* And they are handled in the order in which the selector thread read them,
\* each once: what the reactor does is, for the tasks of its handlers, a step
\* of SerialActs or none.
THEOREM RequestsOneByOne == Spec => Serial!Init /\ [][Serial!Next]_serialVars
<1>1. Init => InOrder /\ Serial!Init
  BY InOrderInit, SerialInit DEF Init
<1>2. IInv /\ InOrder /\ [Next]_vars => InOrder' /\ [Serial!Next]_serialVars
  BY StepOfPool, InOrderStep, SerialStep DEF IInv, SerialNext
<1> QED  BY <1>1, <1>2, ReactorInvariant, PTL DEF Spec
=============================================================================
