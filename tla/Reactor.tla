------------------------------ MODULE Reactor ------------------------------
(***************************************************************************)
(* The reactor server: one selector thread accepts, reads and writes, and  *)
(* an ActorThreadPool runs the protocol on what was read.  A thread of the *)
(* pool that has a frame for a client adds it to the handler's writeQueue  *)
(* and asks the selector thread, through selectorTasks and a wakeup, to    *)
(* watch for the client's socket to become writable.                       *)
(* What process() decides is modelled in TpcServer; here a task sends to   *)
(* some clients and may drop its own (ImplementationStompMessagingProtocol *)
(* lines 27-57).                                                           *)
(***************************************************************************)
EXTENDS ActorThreadPool

CONSTANTS
    MaxConns,         \* bound: connections accepted
    MaxFrames,        \* bound: frames sent by the protocol, all together
    ClientsMayClose,  \* whether a client may close its end
    NoConn            \* stands for no connection

Conns == 1 .. MaxConns

ASSUME ReactorAssumption ==
    /\ MaxConns \in Nat /\ MaxFrames \in Nat
    /\ ClientsMayClose \in BOOLEAN
    /\ NoConn \notin Conns /\ Acts = Conns

VARIABLES
    running_id,     \* StompConnections.running_id
    connections,    \* keys of StompConnections.connections
    torn,           \* two threads have been writing that table at once
    key,            \* the selection key of each channel
    write_op,       \* OP_WRITE is among its interestOps (OP_READ always is)
    writeQueue,     \* how many frames the handler has queued
    selectorTasks,  \* the connections whose OP_WRITE is to be set, in order
    wakeup,         \* selector.wakeup() was called since the last select
    serve,          \* where the selector thread is
    current,        \* the connection whose key it handles
    selected,       \* what select() found and is not handled yet
    arrived,        \* requests in each socket, not read
    client,         \* what the client's end of each connection is
    step,           \* where each thread of the pool is in process()
    target,         \* the connection it is sending to
    sent            \* frames sent so far

selectorVars == <<serve, current, selected>>
tableVars == <<connections, torn>>
channelVars == <<running_id, key, write_op>>
clientVars == <<arrived, client>>
processVars == <<step, target, sent>>
vars == <<poolVars, tableVars, selectorVars, channelVars, clientVars,
          processVars, writeQueue, selectorTasks, wakeup>>

\* cancelled: the channel is closed; removed: a select() has seen that, and
\* chan.keyFor(selector) is null from then on.
Keys == {"none", "valid", "cancelled", "removed"}

\* dead: an unchecked exception has left serve(); spinning: the loop of
\* continueWrite fails to write for ever; stopped: serve() has shut down.
Places == {"select", "tasks", "keys", "write", "written", "empty", "dead",
           "spinning", "stopped"}

\* accept: of the server's own key, for the client that is to be connection c.
Ready == {"accept", "read", "write"}

TypeOK ==
    /\ PoolTypeOK
    /\ running_id \in 0 .. MaxConns
    /\ connections \subseteq Conns
    /\ torn \in BOOLEAN
    /\ key \in [Conns -> Keys]
    /\ write_op \in [Conns -> BOOLEAN]
    /\ writeQueue \in [Conns -> 0 .. MaxFrames]
    /\ selectorTasks \in Seq(Conns)
    /\ wakeup \in BOOLEAN
    /\ serve \in Places
    /\ current \in Conns \cup {NoConn}
    /\ selected \in [Conns -> SUBSET Ready]
    /\ arrived \in [Conns -> 0 .. MaxTasks]
    /\ client \in [Conns -> {"unborn", "knocking", "open", "closed"}]
    /\ step \in [Threads -> {"process", "queued", "asked", "removing"}]
    /\ target \in [Threads -> Conns \cup {NoConn}]
    /\ sent \in 0 .. MaxFrames

Init ==
    /\ PoolInit
    /\ running_id = 0
    /\ connections = {}
    /\ torn = FALSE
    /\ key = [c \in Conns |-> "none"]
    /\ write_op = [c \in Conns |-> FALSE]
    /\ writeQueue = [c \in Conns |-> 0]
    /\ selectorTasks = <<>>
    /\ wakeup = FALSE
    /\ serve = "select"
    /\ current = NoConn
    /\ selected = [c \in Conns |-> {}]
    /\ arrived = [c \in Conns |-> 0]
    /\ client = [c \in Conns |-> "unborn"]
    /\ step = [w \in Threads |-> "process"]
    /\ target = [w \in Threads |-> NoConn]
    /\ sent = 0

-----------------------------------------------------------------------------
(* The connection table: a TreeMap that threads of the pool remove from and  *)
(* the selector thread adds to, with no lock.                                *)

processing(w, s) == thread[w] = "running" /\ step[w] = s

\* What a write leaves in the table: in a torn tree any entry may be lost, and
\* one removed may stay.
left_by_write(table) == IF torn' THEN SUBSET (1 .. running_id') ELSE {table}

\* connections.get misses a key that is not there, and may miss one that is
\* while another is unlinked above it, or while the tree is rotated.
may_miss(c) ==
    \/ c \notin connections
    \/ torn
    \/ \E w \in Threads : /\ processing(w, "removing")
                          /\ job[w].act < c \/ running_id > 2

-----------------------------------------------------------------------------
(* The loop of serve(): select, run the tasks, handle the selected keys.    *)

ready(c) ==
    {r \in Ready :
        \/ r = "accept" /\ client[c] = "knocking"
        \/ r = "read" /\ key[c] = "valid"
                      /\ (arrived[c] > 0 \/ client[c] = "closed")
        \/ r = "write" /\ key[c] = "valid" /\ write_op[c]}

\* select() waits for a key that is ready or a wakeup; it takes the cancelled
\* keys out of the selector.
Select ==
    /\ serve = "select"
    /\ wakeup \/ \E c \in Conns : ready(c) # {}
    /\ selected' = [c \in Conns |-> ready(c)]
    /\ key' = [c \in Conns |-> IF key[c] = "cancelled" THEN "removed"
                                                       ELSE key[c]]
    /\ wakeup' = FALSE
    /\ serve' = "tasks"
    /\ UNCHANGED <<poolVars, tableVars, current, running_id, write_op,
                   clientVars, processVars, writeQueue, selectorTasks>>

\* Seeded fault: the tasks are cleared after the first of them has run.
RunTaskAndClear ==
    /\ serve = "tasks"
    /\ selectorTasks # <<>>
    /\ LET c == Head(selectorTasks)
       IN  IF key[c] = "valid"
           THEN write_op' = [write_op EXCEPT ![c] = TRUE] /\ UNCHANGED serve
           ELSE serve' = "dead" /\ UNCHANGED write_op
    /\ selectorTasks' = <<>>
    /\ UNCHANGED <<poolVars, tableVars, current, selected, running_id, key,
                   clientVars, processVars, writeQueue, wakeup>>

\* key.interestOps throws when the key is null or cancelled, and nothing in
\* serve() catches that.
RunTask ==
    /\ serve = "tasks"
    /\ selectorTasks # <<>>
    /\ LET c == Head(selectorTasks)
       IN  IF key[c] = "valid"
           THEN write_op' = [write_op EXCEPT ![c] = TRUE] /\ UNCHANGED serve
           ELSE serve' = "dead" /\ UNCHANGED write_op
    /\ selectorTasks' = Tail(selectorTasks)
    /\ UNCHANGED <<poolVars, tableVars, current, selected, running_id, key,
                   clientVars, processVars, writeQueue, wakeup>>

EndTasks ==
    /\ serve = "tasks"
    /\ selectorTasks = <<>>
    /\ serve' = "keys"
    /\ UNCHANGED <<poolVars, tableVars, current, selected, channelVars,
                   clientVars, processVars, writeQueue, selectorTasks, wakeup>>

accept(c) ==
    /\ serve = "keys"
    /\ "accept" \in selected[c]
    /\ selected' = [selected EXCEPT ![c] = {}]
    /\ running_id' = running_id + 1
    /\ torn' = (torn \/ \E w \in Threads : processing(w, "removing"))
    /\ client' = [client EXCEPT ![c] = "open"]
    /\ UNCHANGED <<poolVars, current, write_op, arrived, processVars,
                   writeQueue, selectorTasks, wakeup>>

HandleAccept(c) ==
    /\ accept(c)
    /\ connections' \in left_by_write(connections \cup {running_id'})
    /\ key' = [key EXCEPT ![c] = "valid"]
    /\ UNCHANGED serve

\* In a torn tree put may throw, and nothing in serve() catches that.
PutThrows(c) ==
    /\ accept(c)
    /\ torn'
    /\ connections' \in left_by_write(connections)
    /\ serve' = "dead"
    /\ UNCHANGED key

\* accept, or preparing the channel, is an IOException: serve() ends.
AcceptFails(c) ==
    /\ serve = "keys"
    /\ "accept" \in selected[c]
    /\ serve' = "stopped"
    /\ shutdown
    /\ UNCHANGED <<tableVars, current, selected, channelVars, clientVars,
                   processVars, writeQueue, selectorTasks, wakeup>>

close(c) == key' = [key EXCEPT ![c] = "cancelled"]

\* After the read, a key that is still valid is asked whether it is writable.
then_write(c) ==
    /\ selected' = [selected EXCEPT ![c] = {}]
    /\ serve' = IF "write" \in selected[c] /\ key'[c] = "valid"
                THEN "write" ELSE "keys"
    /\ current' = IF serve' = "write" THEN c ELSE NoConn

\* continueRead gives a task.
Read(c) ==
    /\ serve = "keys"
    /\ "read" \in selected[c]
    /\ arrived[c] > 0
    /\ arrived' = [arrived EXCEPT ![c] = 0]
    /\ submit(c)
    /\ UNCHANGED key
    /\ then_write(c)
    /\ UNCHANGED <<tableVars, running_id, write_op, client, processVars,
                   writeQueue, selectorTasks, wakeup>>

\* The client's end is closed: -1, or an IOException.
ReadFails(c) ==
    /\ serve = "keys"
    /\ "read" \in selected[c]
    /\ client[c] = "closed"
    /\ close(c)
    /\ then_write(c)
    /\ UNCHANGED <<poolVars, tableVars, running_id, write_op, clientVars,
                   processVars, writeQueue, selectorTasks, wakeup>>

\* A key that is only writable.
OnlyWrite(c) ==
    /\ serve = "keys"
    /\ selected[c] = {"write"}
    /\ UNCHANGED key
    /\ then_write(c)
    /\ UNCHANGED <<poolVars, tableVars, running_id, write_op, clientVars,
                   processVars, writeQueue, selectorTasks, wakeup>>

EndKeys ==
    /\ serve = "keys"
    /\ \A c \in Conns : selected[c] = {}
    /\ serve' = "select"
    /\ UNCHANGED <<poolVars, tableVars, current, selected, channelVars,
                   clientVars, processVars, writeQueue, selectorTasks, wakeup>>

-----------------------------------------------------------------------------
(* continueWrite of the current handler.                                    *)

\* Seeded fault: the loop does not ask whether the queue is empty.
WriteFrameUnasked ==
    /\ serve = "write"
    /\ writeQueue' = [writeQueue EXCEPT ![current] = @ - 1]
    /\ UNCHANGED <<poolVars, tableVars, selectorVars, channelVars,
                   clientVars, processVars, selectorTasks, wakeup>>

WriteFrame ==
    /\ serve = "write"
    /\ writeQueue[current] > 0
    /\ writeQueue' = [writeQueue EXCEPT ![current] = @ - 1]
    /\ UNCHANGED <<poolVars, tableVars, selectorVars, channelVars,
                   clientVars, processVars, selectorTasks, wakeup>>

\* The socket does not take all of the frame: return.
FullSocket ==
    /\ serve = "write"
    /\ writeQueue[current] > 0
    /\ serve' = "keys"
    /\ current' = NoConn
    /\ UNCHANGED <<poolVars, tableVars, selected, channelVars, clientVars,
                   processVars, writeQueue, selectorTasks, wakeup>>

\* The write is an IOException: the channel is closed, the frame is not taken
\* out of the queue, and the next write of the loop fails as well.
WriteFails ==
    /\ serve = "write"
    /\ writeQueue[current] > 0
    /\ client[current] = "closed"
    /\ close(current)
    /\ serve' = "spinning"
    /\ UNCHANGED <<poolVars, tableVars, current, selected, running_id,
                   write_op, clientVars, processVars, writeQueue,
                   selectorTasks, wakeup>>

\* The loop ends.
SeeEmpty ==
    /\ serve = "write"
    /\ writeQueue[current] = 0
    /\ serve' = "written"
    /\ UNCHANGED <<poolVars, tableVars, current, selected, channelVars,
                   clientVars, processVars, writeQueue, selectorTasks, wakeup>>

\* The queue is asked once more.
AskAgain ==
    /\ serve = "written"
    /\ serve' = IF writeQueue[current] = 0 THEN "empty" ELSE "keys"
    /\ current' = IF writeQueue[current] = 0 THEN current ELSE NoConn
    /\ UNCHANGED <<poolVars, tableVars, selected, channelVars, clientVars,
                   processVars, writeQueue, selectorTasks, wakeup>>

\* shouldTerminate: the connection is not found in the table.
EndWrite ==
    /\ serve = "empty"
    /\ \/ /\ may_miss(current)
          /\ close(current)
          /\ UNCHANGED write_op
       \/ /\ current \in connections
          /\ write_op' = [write_op EXCEPT ![current] = FALSE]
          /\ UNCHANGED key
    /\ serve' = "keys"
    /\ current' = NoConn
    /\ UNCHANGED <<poolVars, tableVars, selected, running_id, clientVars,
                   processVars, writeQueue, selectorTasks, wakeup>>

-----------------------------------------------------------------------------
(* A thread of the pool, inside process().                                  *)

\* NonBlockingConnectionHandler.send, first half.
Enqueue(w, d) ==
    /\ processing(w, "process")
    /\ sent < MaxFrames
    /\ d \in connections
    /\ writeQueue' = [writeQueue EXCEPT ![d] = @ + 1]
    /\ sent' = sent + 1
    /\ step' = [step EXCEPT ![w] = "queued"]
    /\ target' = [target EXCEPT ![w] = d]
    /\ UNCHANGED <<poolVars, tableVars, selectorVars, channelVars,
                   clientVars, selectorTasks, wakeup>>

\* updateInterestedOps, first half.
AddTask(w) ==
    /\ processing(w, "queued")
    /\ selectorTasks' = Append(selectorTasks, target[w])
    /\ step' = [step EXCEPT ![w] = "asked"]
    /\ UNCHANGED <<poolVars, tableVars, selectorVars, channelVars,
                   clientVars, target, sent, writeQueue, wakeup>>

\* Seeded fault: nobody wakes the selector thread.
WakeUpForgotten(w) ==
    /\ processing(w, "asked")
    /\ step' = [step EXCEPT ![w] = "process"]
    /\ target' = [target EXCEPT ![w] = NoConn]
    /\ UNCHANGED <<poolVars, tableVars, selectorVars, channelVars,
                   clientVars, sent, writeQueue, selectorTasks, wakeup>>

WakeUp(w) ==
    /\ processing(w, "asked")
    /\ wakeup' = TRUE
    /\ step' = [step EXCEPT ![w] = "process"]
    /\ target' = [target EXCEPT ![w] = NoConn]
    /\ UNCHANGED <<poolVars, tableVars, selectorVars, channelVars,
                   clientVars, sent, writeQueue, selectorTasks>>

\* connections.disconnect begins, when the flag was set and the second is over.
\* The flag is set by an Error or a disconnect of any client's request: the
\* thread may not have sent a frame.
Dismiss(w) ==
    /\ processing(w, "process")
    /\ step' = [step EXCEPT ![w] = "removing"]
    /\ torn' = (torn \/ \E v \in Threads : processing(v, "removing"))
    /\ UNCHANGED <<poolVars, connections, selectorVars, channelVars,
                   clientVars, target, sent, writeQueue, selectorTasks, wakeup>>

\* connections.remove has returned, or thrown.
Remove(w) ==
    /\ processing(w, "removing")
    /\ step' = [step EXCEPT ![w] = "process"]
    /\ UNCHANGED <<poolVars, torn, selectorVars, channelVars, clientVars,
                   target, sent, writeQueue, selectorTasks, wakeup>>
    /\ connections' \in left_by_write(connections \ {job[w].act})

\* process() is over, or has thrown.
EndProcess(w) ==
    /\ processing(w, "process")
    /\ Complete(w)
    /\ UNCHANGED <<tableVars, selectorVars, channelVars, clientVars,
                   processVars, writeQueue, selectorTasks, wakeup>>

\* The executor.  That a thread which ends by an exception is replaced is in
\* ActorThreadPool; here it returns like any other.
ExecutorStep(w) ==
    /\ Begin(w) \/ Take(w) \/ Return(w)
    /\ UNCHANGED <<tableVars, selectorVars, channelVars, clientVars,
                   processVars, writeQueue, selectorTasks, wakeup>>

-----------------------------------------------------------------------------
(* The clients.  What they do once nobody selects any more is left out.     *)

serving == serve \notin {"dead", "spinning", "stopped"}

Knock(c) ==
    /\ serving
    /\ c = running_id + 1
    /\ client[c] = "unborn"
    /\ client' = [client EXCEPT ![c] = "knocking"]
    /\ UNCHANGED <<poolVars, tableVars, selectorVars, channelVars, arrived,
                   processVars, writeQueue, selectorTasks, wakeup>>

SendRequest(c) ==
    /\ serving
    /\ client[c] = "open"
    /\ key[c] = "valid"
    /\ submitted[c] + arrived[c] < MaxTasks
    /\ arrived' = [arrived EXCEPT ![c] = @ + 1]
    /\ UNCHANGED <<poolVars, tableVars, selectorVars, channelVars, client,
                   processVars, writeQueue, selectorTasks, wakeup>>

CloseEnd(c) ==
    /\ serving /\ ClientsMayClose
    /\ client[c] = "open"
    /\ client' = [client EXCEPT ![c] = "closed"]
    /\ UNCHANGED <<poolVars, tableVars, selectorVars, channelVars, arrived,
                   processVars, writeQueue, selectorTasks, wakeup>>

-----------------------------------------------------------------------------
SelectorStep ==
    \/ Select \/ RunTask \/ EndTasks \/ EndKeys
    \/ \E c \in Conns : \/ HandleAccept(c) \/ PutThrows(c) \/ AcceptFails(c)
                        \/ Read(c) \/ ReadFails(c) \/ OnlyWrite(c)
    \/ WriteFrame \/ FullSocket \/ WriteFails \/ SeeEmpty \/ AskAgain
    \/ EndWrite

ThreadStep(w) ==
    \/ ExecutorStep(w) \/ EndProcess(w)
    \/ \E d \in Conns : Enqueue(w, d)
    \/ AddTask(w) \/ WakeUp(w) \/ Dismiss(w) \/ Remove(w)

Next ==
    \/ SelectorStep
    \/ \E w \in Threads : ThreadStep(w)
    \/ \E c \in Conns : Knock(c) \/ SendRequest(c) \/ CloseEnd(c)

\* Every thread runs when it can, but may find no way out of a torn tree; a client
\* goes on reading what is written to it.  Nothing makes a client connect, send
\* a request or close its end.
Fairness ==
    /\ WF_vars(~torn /\ SelectorStep)
    /\ \A c \in Conns : SF_vars(~torn /\ WriteFrame /\ current = c)
    /\ \A w \in Threads : WF_vars(~torn /\ ThreadStep(w))

Spec == Init /\ [][Next]_vars /\ Fairness
-----------------------------------------------------------------------------
\* A frame in a queue is never forgotten: OP_WRITE is set for its channel, or
\* will be by a task that is queued or by a thread that is about to queue it.
\* (send and continueWrite run at the same time: the queue is asked before
\* OP_WRITE is taken away, not after.)
NoLostWrites ==
    \A c \in Conns : key[c] = "valid" /\ writeQueue[c] > 0 =>
        \/ write_op[c]
        \/ \E i \in 1 .. Len(selectorTasks) : selectorTasks[i] = c
        \/ \E w \in Threads : processing(w, "queued") /\ target[w] = c
        \/ ~serving

\* The selector thread never goes to sleep on a task: a wakeup is pending, or
\* whoever added the task is about to call it.
NoSleepOnTasks ==
    serve = "select" /\ selectorTasks # <<>> =>
        wakeup \/ \E w \in Threads : processing(w, "asked")

\* As long as the selector thread serves and the table is not torn, what is
\* queued for a client is written or the channel is closed.
FramesLeave ==
    \A c \in Conns : writeQueue[c] > 0 ~>
        \/ writeQueue[c] = 0
        \/ key[c] # "valid"
        \/ ~serving
        \/ torn

-----------------------------------------------------------------------------
(* What the repository says of the program and the program does not do.     *)

\* srv/Server.java:11 has serve() be "The main loop of the server, Starts
\* listening and handling new clients": it goes on doing so unless accepting
\* fails, whatever clients and handlers do.  (A torn table may end it as well.)
KeepsServing == serve = "dead" => torn

\* api/MessagingProtocol.java:20 has shouldTerminate answer "true if the
\* connection should be terminated": such a connection is closed in the end.
DismissedAreClosed ==
    \A c \in Conns : key[c] = "valid" /\ c \notin connections ~>
        key[c] # "valid" \/ ~serving \/ torn
=============================================================================
