------------------------------ MODULE TpcServer ------------------------------
(***************************************************************************)
(* The thread-per-client server: BaseServer accepts a connection and runs  *)
(* its BlockingConnectionHandler in a thread of its own.  The thread reads *)
(* a request, runs ImplementationStompMessagingProtocol.process and, after *)
(* generateResponse, drains the ONE command list of the ResponseManager:   *)
(* it carries out whatever command it finds, for whichever request it was  *)
(* added, with the next frame of its OWN queue.                            *)
(***************************************************************************)
EXTENDS ResponseManager, FiniteSets

CONSTANTS
    IntegerCacheMax,  \* largest int that boxes to one shared Integer (127)
    MaxRequests       \* bound: requests read in a run, all connections together

ASSUME BoundAssumption == IntegerCacheMax \in Nat /\ MaxRequests \in Nat

VARIABLES
    running_id,   \* StompConnections.running_id
    connections,  \* keys of StompConnections.connections
    pc,           \* where the thread of each connection is
    response,     \* process: the command taken from the list
    disconnect,   \* process: the flag
    fanout,       \* StompConnections.send(channel): the iteration under way
    inbox,        \* what has been written to each client's socket
    received,     \* requests read so far
    torn,         \* two threads have been writing the table at once
    dismissed,    \* history: the last request was a DISCONNECT or was refused
    disturbed     \* history: two drains have overlapped, or one was cut short

threadVars == <<pc, response, disconnect, fanout>>
serverVars == <<running_id, connections, inbox, received, torn, dismissed,
                disturbed>>
vars == <<managerVars, threadVars, serverVars>>

Draining == {"poll", "take", "dispatch", "fanout"}
Places == {"unborn", "joining", "unserved", "reading", "asleep", "removing",
           "leaving", "closed"} \cup Draining

\* A frame written to a client, and the command it was written for.
Writes == [frame: Frames, command: Responses]
\* todo: entries of the table to come; list: ids whose entry in the topic's tree
\* the list of the broadcast has; unlinked: the connections in those entries of
\* the list that are in the tree no more; audience (history): the ids that have
\* been in the tree from the start up to now.
FanOuts == [frame: Frames, todo: SUBSET Conns, list: SUBSET SubIds,
            unlinked: SUBSET Conns, audience: SUBSET SubIds, stale: BOOLEAN]
NoFanOut(c) == [frame |-> NullFrame(c), todo |-> {}, list |-> {},
                unlinked |-> {}, audience |-> {}, stale |-> FALSE]

TypeOK ==
    /\ UserTypeOK
    /\ TopicTypeOK
    /\ ResponseTypeOK
    /\ running_id \in 0 .. MaxConns
    /\ connections \in SUBSET Conns
    /\ pc \in [Conns -> Places]
    /\ response \in [Conns -> Responses]
    /\ disconnect \in [Conns -> BOOLEAN]
    /\ fanout \in [Conns -> FanOuts]
    /\ inbox \in [Conns -> SUBSET Writes]
    /\ received \in 0 .. MaxRequests
    /\ torn \in BOOLEAN
    /\ dismissed \in [Conns -> BOOLEAN]
    /\ disturbed \in BOOLEAN

Init ==
    /\ UserInit
    /\ TopicInit
    /\ ResponseInit
    /\ running_id = 0
    /\ connections = {}
    /\ pc = [c \in Conns |-> "unborn"]
    /\ response = [c \in Conns |-> ""]
    /\ disconnect = [c \in Conns |-> FALSE]
    /\ fanout = [c \in Conns |-> NoFanOut(c)]
    /\ inbox = [c \in Conns |-> {}]
    /\ received = 0
    /\ torn = FALSE
    /\ dismissed = [c \in Conns |-> FALSE]
    /\ disturbed = FALSE

-----------------------------------------------------------------------------
(* The connection table: a TreeMap that every thread reads, the acceptor     *)
(* adds to and the handlers remove from, with no lock.                       *)

Writing == {"joining", "removing"}
table_changing == \E d \in Conns : pc[d] \in Writing

\* What a write leaves in the table.  Where two threads have rebalanced the tree
\* at once, links of either are lost: any entry may be, and one removed may
\* stay.
left_by_write(table) ==
    IF torn
    THEN SUBSET {d \in Conns : pc'[d] \notin {"unborn", "joining"}}
    ELSE {table}

\* connections.get misses a key that is not there, and may miss one that is
\* while another is unlinked above it, or while the tree is rotated.  Up to
\* the second connection the tree is a list in ascending order.
may_find(c) == c \in connections
may_miss(c) ==
    \/ c \notin connections
    \/ torn
    \/ \E d \in Conns \ {c} : /\ pc[d] \in Writing
                              /\ d < c \/ running_id > 2

\* An iterator over the table that is under way when the table changes.
go_stale == [d \in Conns |->
                IF pc[d] = "fanout" THEN [fanout[d] EXCEPT !.stale = TRUE]
                                    ELSE fanout[d]]

goto(c, place) == pc' = [pc EXCEPT ![c] = place]

\* A write to a socket its handler has closed is an IOException that
\* BlockingConnectionHandler.send swallows.
send(d, frame, command) ==
    inbox' = IF pc[d] \in {"unborn", "closed"} THEN inbox
             ELSE [inbox EXCEPT ![d] =
                      @ \cup {[frame |-> frame, command |-> command]}]

-----------------------------------------------------------------------------
(* BaseServer.serve: the handler takes the id that connect will assign (the *)
(* acceptor is one thread, so the two agree), enters the table, is started.  *)

Accept ==
    /\ running_id < MaxConns
    /\ \A c \in Conns : pc[c] \notin {"joining", "unserved"}
    /\ running_id' = running_id + 1
    /\ goto(running_id', "joining")
    /\ fanout' = go_stale
    /\ torn' = (torn \/ table_changing)
    /\ UNCHANGED <<managerVars, response, disconnect, connections, inbox,
                   received, dismissed, disturbed>>

\* connections.put has returned.
Execute(c) ==
    /\ pc[c] = "joining"
    /\ goto(c, "reading")
    /\ connections' \in left_by_write(connections \cup {c})
    /\ UNCHANGED <<managerVars, response, disconnect, fanout, running_id,
                   inbox, received, torn, dismissed, disturbed>>

\* In a torn tree put and remove may throw: the acceptor leaves serve() without
\* having started the handler, or a handler leaves run().
FailWrite(c) ==
    /\ pc[c] \in Writing
    /\ torn
    /\ goto(c, IF pc[c] = "joining" THEN "unserved" ELSE "leaving")
    /\ connections' \in left_by_write(connections)
    /\ UNCHANGED <<managerVars, response, disconnect, fanout, running_id,
                   inbox, received, torn, dismissed, disturbed>>

-----------------------------------------------------------------------------
(* BlockingConnectionHandler.run reads a request and process() starts.      *)

read_request(c) ==
    /\ pc[c] = "reading"
    /\ may_find(c)
    /\ received < MaxRequests
    /\ received' = received + 1
    /\ UNCHANGED <<running_id, connections, response, inbox, torn>>

\* The list of a broadcast holds entries of the topic's tree, which live on.
\* Removing an id unlinks its entry, whose connection it keeps; or, if the entry
\* has two children, copies into it the next id of the tree and its connection,
\* and unlinks the entry of that one.
entries(t) == get_subscribed_vector(t)
is_next(t, s, i) ==
    /\ i \in entries(t) \cap entries(t)'
    /\ s < i /\ \A j \in entries(t)' : s < j => i <= j
may_be_rewritten(t, s) ==
    /\ s \in entries(t) \ entries(t)'
    /\ \E i, j \in entries(t)' : i < s /\ s < j

\* The ids some entry of ids is rewritten for, and those whose entry goes.
copied(t, rewritten, ids) ==
    {i \in SubIds : \E s \in ids \cap rewritten : is_next(t, s, i)}
taken_off(t, rewritten) ==
    (entries(t) \ (entries(t)' \cup rewritten)) \cup copied(t, rewritten, SubIds)

list_follows(broadcast, t, rewritten) ==
    [broadcast EXCEPT
        !.list = (@ \ (taken_off(t, rewritten) \cup rewritten))
                    \cup copied(t, rewritten, @),
        !.unlinked = @ \cup {user_client_id[t][s] :
                                s \in broadcast.list \cap taken_off(t, rewritten)},
        !.audience = @ \cap entries(t)']

lists_follow ==
    \E rewritten \in [Topics -> SUBSET SubIds] :
        /\ \A t \in Topics :
              /\ \A s \in rewritten[t] : may_be_rewritten(t, s)
              /\ \A r, s \in rewritten[t], i \in SubIds :
                    is_next(t, r, i) /\ is_next(t, s, i) => r = s
        /\ fanout' = [c \in Conns |->
              IF pc[c] # "fanout" THEN fanout[c]
              ELSE list_follows(fanout[c], response[c], rewritten[response[c]])]

\* generateResponse has returned: the thread goes on to drain the list.
start_draining(c) ==
    /\ goto(c, "poll")
    /\ disconnect' = [disconnect EXCEPT ![c] = FALSE]
    /\ disturbed' = (disturbed \/ \E d \in Conns \ {c} : pc[d] \in Draining)

\* A request the server carries out.
Serve(c) ==
    /\ read_request(c)
    /\ \/ \E u \in Users, p \in Passwords, r \in Receipts : Connect(c, u, p, r)
       \/ \E t \in Topics, r \in Receipts : Send(c, t, r)
       \/ \E t \in Topics, s \in SubIds, r \in Receipts : Subscribe(c, t, s, r)
       \/ \E s \in SubIds, r \in Receipts : Unsubscribe(c, s, r)
    /\ lists_follow
    /\ start_draining(c)
    /\ dismissed' = [dismissed EXCEPT ![c] = FALSE]

\* A request after which the client is to be dropped.
Dismiss(c) ==
    /\ read_request(c)
    /\ Disconnect(c) \/ Refuse(c)
    /\ lists_follow
    /\ start_draining(c)
    /\ dismissed' = [dismissed EXCEPT ![c] = TRUE]

\* generateResponse throws: the thread leaves run(), which closes the socket.
Throw(c) ==
    /\ read_request(c)
    /\ \/ (RefuseStranger(c) \/ ReceiptThrows(c)) /\ disturbed' = TRUE
       \/ /\ \/ Unparsable
             \/ \E t \in Topics : UnparsableId(t)
             \/ \E t \in Topics, s \in SubIds : SubscribeStranger(c, t, s)
             \/ DisconnectStranger(c)
          /\ UNCHANGED disturbed
    /\ lists_follow
    /\ goto(c, "leaving")
    /\ UNCHANGED <<disconnect, dismissed>>

\* The client closes its end: in.read() returns -1.
HangUp(c) ==
    /\ pc[c] = "reading"
    /\ may_find(c)
    /\ goto(c, "leaving")
    /\ UNCHANGED <<managerVars, response, disconnect, fanout, serverVars>>

\* shouldTerminate does not find the connection in the table.
ShouldTerminate(c) ==
    /\ pc[c] = "reading"
    /\ may_miss(c)
    /\ goto(c, "leaving")
    /\ UNCHANGED <<managerVars, response, disconnect, fanout, serverVars>>

-----------------------------------------------------------------------------
(* The loop of process(): send_to_channel and what is done with its answer. *)

\* commands.isEmpty() answers true: the loop ends.
Drained(c) ==
    /\ pc[c] = "poll"
    /\ no_command
    /\ goto(c, IF disconnect[c] THEN "asleep" ELSE "reading")
    /\ UNCHANGED <<managerVars, response, disconnect, fanout, serverVars>>

\* commands.isEmpty() answers false.
SeeCommand(c) ==
    /\ pc[c] = "poll"
    /\ ~no_command
    /\ goto(c, "take")
    /\ UNCHANGED <<managerVars, response, disconnect, fanout, serverVars>>

\* commands.remove(0).
TakeCommand(c) ==
    /\ pc[c] = "take"
    /\ ~no_command
    /\ take_command
    /\ response' = [response EXCEPT ![c] = Head(commands)]
    /\ goto(c, "dispatch")
    /\ UNCHANGED <<userVars, topicVars, ClientMesssageQueues, recipt_message,
                   disconnect, fanout, serverVars>>

\* Another thread has emptied the list in between: remove(0) throws.
TakeNothing(c) ==
    /\ pc[c] = "take"
    /\ no_command
    /\ goto(c, "leaving")
    /\ UNCHANGED <<managerVars, response, disconnect, fanout, serverVars>>

\* "self" and "Error": the caller's next frame goes to the caller's client.
ReplySelf(c) ==
    /\ pc[c] = "dispatch"
    /\ response[c] \in {"self", "Error"}
    /\ get_queued_message(c)
    /\ \/ may_find(c) /\ send(c, queued_message(c), response[c])
       \/ may_miss(c) /\ UNCHANGED inbox
    /\ disconnect' = [disconnect EXCEPT ![c] = @ \/ response[c] = "Error"]
    /\ goto(c, "poll")
    /\ UNCHANGED <<userVars, topicVars, commands, recipt_message, response,
                   fanout, running_id, connections, received, torn, dismissed,
                   disturbed>>

NoteDisconnect(c) ==
    /\ pc[c] = "dispatch"
    /\ response[c] = "disconnect"
    /\ disconnect' = [disconnect EXCEPT ![c] = TRUE]
    /\ goto(c, "poll")
    /\ UNCHANGED <<managerVars, response, fanout, serverVars>>

\* A topic: the caller's next frame goes to all its subscribers.  The list is
\* made at once, of entries that live on; the table is iterated in place.
StartFanOut(c) ==
    /\ pc[c] = "dispatch"
    /\ response[c] \in Topics
    /\ get_queued_message(c)
    /\ fanout' = [fanout EXCEPT ![c] =
          [frame |-> queued_message(c), todo |-> connections,
           list |-> entries(response[c]), unlinked |-> {},
           audience |-> entries(response[c]),
           stale |-> torn \/ table_changing]]
    /\ goto(c, "fanout")
    /\ UNCHANGED <<userVars, topicVars, commands, recipt_message, response,
                   disconnect, serverVars>>

\* Those the list has an entry of.
listed(c) == fanout[c].unlinked \cup
             {user_client_id[response[c]][s] : s \in fanout[c].list}

\* Ids are compared with == on Integer objects: equal ids above the cache are
\* different objects.
same_Integer(d) == d <= IntegerCacheMax

\* The table of the queues is a TreeMap as well: while another connection's
\* first request rotates it (the third entry, at the earliest), the caller's
\* queue may not be found.  The NullPointerException leaves run().
MissQueue(c) ==
    /\ pc[c] = "dispatch"
    /\ response[c] # "disconnect"
    /\ running_id > 2
    /\ \E d \in Conns \ {c} : pc[d] = "reading"
    /\ goto(c, "leaving")
    /\ disturbed' = TRUE
    /\ UNCHANGED <<managerVars, response, disconnect, fanout, running_id,
                   connections, inbox, received, torn, dismissed>>

\* Seeded fault: a break leaves both loops once a subscriber has been found.
SendToFirst(c) ==
    /\ pc[c] = "fanout"
    /\ \E d \in fanout[c].todo :
         /\ \A e \in fanout[c].todo : d <= e
         /\ \/ /\ d \in listed(c)
               /\ same_Integer(d)
               /\ fanout' = [fanout EXCEPT ![c].todo = {}]
               /\ send(d, fanout[c].frame, response[c])
            \/ /\ d \notin listed(c) \/ ~same_Integer(d)
               /\ fanout' = [fanout EXCEPT ![c].todo = @ \ {d}]
               /\ UNCHANGED inbox
    /\ UNCHANGED <<managerVars, pc, response, disconnect, running_id,
                   connections, received, torn, dismissed, disturbed>>

\* The next entry of the table, in ascending order of ids.  In a tree that
\* changes meanwhile the iterator may be led past an entry.
SendToNext(c) ==
    /\ pc[c] = "fanout"
    /\ \E d \in fanout[c].todo :
         /\ \A e \in fanout[c].todo : d <= e
         /\ fanout' = [fanout EXCEPT ![c].todo = @ \ {d}]
         /\ \/ /\ d \in listed(c)
               /\ same_Integer(d)
               /\ send(d, fanout[c].frame, response[c])
            \/ /\ \/ d \notin listed(c)
                  \/ ~same_Integer(d)
                  \/ fanout[c].stale
               /\ UNCHANGED inbox
    /\ UNCHANGED <<managerVars, pc, response, disconnect, running_id,
                   connections, received, torn, dismissed, disturbed>>

EndFanOut(c) ==
    /\ pc[c] = "fanout"
    /\ fanout[c].todo = {}
    /\ fanout' = [fanout EXCEPT ![c] = NoFanOut(c)]
    /\ goto(c, "poll")
    /\ UNCHANGED <<managerVars, response, disconnect, serverVars>>

\* The iterator may notice that the table has changed: the
\* ConcurrentModificationException leaves process() and run().
FailFanOut(c) ==
    /\ pc[c] = "fanout"
    /\ fanout[c].stale
    /\ fanout[c].todo # {}
    /\ fanout' = [fanout EXCEPT ![c] = NoFanOut(c)]
    /\ goto(c, "leaving")
    /\ disturbed' = TRUE
    /\ UNCHANGED <<managerVars, response, disconnect, running_id, connections,
                   inbox, received, torn, dismissed>>

-----------------------------------------------------------------------------
(* The end of process() with the flag set, and the end of run().            *)

\* The second of sleep is over; connections.disconnect begins.
WakeUp(c) ==
    /\ pc[c] = "asleep"
    /\ goto(c, "removing")
    /\ fanout' = go_stale
    /\ torn' = (torn \/ table_changing)
    /\ UNCHANGED <<managerVars, response, disconnect, running_id, connections,
                   inbox, received, dismissed, disturbed>>

Remove(c) ==
    /\ pc[c] = "removing"
    /\ goto(c, "reading")
    /\ connections' \in left_by_write(connections \ {c})
    /\ UNCHANGED <<managerVars, response, disconnect, fanout, running_id,
                   inbox, received, torn, dismissed, disturbed>>

\* try-with-resources closes the socket; table, session and subscriptions stay.
Close(c) ==
    /\ pc[c] = "leaving"
    /\ goto(c, "closed")
    /\ UNCHANGED <<managerVars, response, disconnect, fanout, serverVars>>

-----------------------------------------------------------------------------
\* What needs no client: starting a thread, and what it does once it has a
\* request, up to its next one.
Proceed(c) ==
    \/ Execute(c) \/ FailWrite(c) \/ ShouldTerminate(c)
    \/ Drained(c) \/ SeeCommand(c) \/ TakeCommand(c) \/ TakeNothing(c)
    \/ ReplySelf(c) \/ NoteDisconnect(c)
    \/ MissQueue(c) \/ StartFanOut(c) \/ SendToNext(c) \/ EndFanOut(c)
    \/ FailFanOut(c)
    \/ WakeUp(c) \/ Remove(c) \/ Close(c)

Next ==
    \/ Accept
    \/ \E c \in Conns : Serve(c) \/ Dismiss(c) \/ Throw(c) \/ HangUp(c)
    \/ \E c \in Conns : Proceed(c)

\* What a thread does at these places ends in writing to clients' sockets, which
\* takes as long as they like.
Delivering == {"dispatch", "fanout"}

\* The virtual machine goes on running a thread that can run; but a thread may
\* find no way out of a torn tree, nor out of a write to a client that does not
\* read.  Nothing makes a client connect, send a request, read or hang up.
Fairness ==
    \A c \in Conns : WF_vars(~torn /\ pc[c] \notin Delivering /\ Proceed(c))

Spec == Init /\ [][Next]_vars /\ Fairness
-----------------------------------------------------------------------------
(* What is promised, and what only holds while requests do not overlap.     *)

\* A session is a lock on its account: nobody has two sessions of one account,
\* whoever has a session is marked connected, and only known accounts are.
\* (check_connect_conditions and user_connect, user_disconnect.)
OneSessionPerUser ==
    /\ \A c, d \in Conns : is_client_user_connected(c) /\ c # d
          => user_client_connection[d] # user_client_connection[c]
    /\ \A c \in Conns : is_client_user_connected(c)
          => connected[user_client_connection[c]]
    /\ \A u \in Users : connected[u] => user_exists(u)

\* Every topic somebody can still name exists, so that send(channel) never
\* iterates the null list an unknown topic gives; and every topic that exists
\* is a number: a client can never join a channel with a name.
TopicsExist ==
    /\ \A u \in Users : subscribed_topic_names[u] \subseteq topic_list
    /\ \A s \in SubIds : user_topic[s] \in topic_list \cup {NoTopic}
    /\ \A t \in Topics, s \in SubIds :
          user_client_id[t][s] # NoConn => t \in topic_list
    /\ \A i \in 1 .. Len(commands) :
          commands[i] \in Topics => commands[i] \in topic_list
    /\ \A c \in Conns : response[c] \in Topics => response[c] \in topic_list
    /\ topic_list \subseteq NumericTopics

\* A command and the frame it was added for.
Matches(x, frame) ==
    \/ x = "self" /\ frame.kind \in {"CONNECTED", "RECIPT"}
    \/ x = "Error" /\ frame.kind = "ERROR"
    \/ x \in Topics /\ frame.kind = "MESSAGE" /\ frame.topic = x

\* As long as no two threads drain the list at once and none is cut short:
\* what reaches a client is what its command was added for, and a direct reply
\* reaches the client it answers; a thread on its way to drop its client was
\* told to by that client's own request; nobody's reply is left behind.
OrderlyReplies ==
    ~disturbed =>
      /\ \A c \in Conns : \A w \in inbox[c] :
            /\ Matches(w.command, w.frame)
            /\ w.frame.kind # "MESSAGE" => w.frame.owner = c
      /\ \A c \in Conns : pc[c] \in {"asleep", "removing"} => dismissed[c]
      /\ \A c \in Conns :
            pc[c] \notin Draining => ClientMesssageQueues[c] = <<>>

\* Whatever the threads do to each other, a command that wants a frame has one
\* waiting in some queue: a client is written a "null" only because a reply is
\* stranded in the queue of another.
wants_frame(x) == x # "disconnect"
CommandsBacked ==
    Cardinality({i \in 1 .. Len(commands) : wants_frame(commands[i])}) +
    Cardinality({c \in Conns : pc[c] = "dispatch" /\ wants_frame(response[c])})
      <= Cardinality({q \in Conns \X (1 .. 2 * MaxRequests) :
                        q[2] <= Len(ClientMesssageQueues[q[1]])})

\* Unless two threads have torn the table, a connection the server has dropped
\* in an orderly way has no session left, and no subscription, except that one
\* made under an account the connection then left by logging in to another can
\* remain: that account is still marked connected though nobody is logged in to
\* it.
NoGhostSubscribers ==
    ~disturbed /\ ~torn =>
      \A c \in (1 .. running_id) \ connections :
        /\ ~is_client_user_connected(c)
        /\ (\E t \in Topics, s \in SubIds : user_client_id[t][s] = c)
              => \E u \in Users : account_owner(u) = NoConn

\* Where the iteration over an unchanged table has passed, everybody has the
\* frame who was subscribed all the while under one id, whatever other requests
\* did to the topic's entries meanwhile, whose handler is still there and whose
\* id boxes to a shared Integer; a client with a larger id never gets one,
\* changed or not.
FanOutReach ==
    \A c \in Conns : pc[c] = "fanout" =>
      \A d \in connections :
        LET served == [frame |-> fanout[c].frame, command |-> response[c]]
                        \in inbox[d]
            passed == d \notin fanout[c].todo /\ ~fanout[c].stale
            subscribed == \E s \in fanout[c].audience :
                             user_client_id[response[c]][s] = d
        IN  /\ served => d <= IntegerCacheMax
            /\ subscribed /\ passed /\ pc[d] # "closed" /\ d <= IntegerCacheMax
                 => served

\* Clients read what they are written, so that no write lasts for ever; and at
\* some time no more requests come.
ClientsRead ==
    \A c \in Conns : WF_vars(~torn /\ pc[c] \in Delivering /\ Proceed(c))
RequestsStop == <>[][received' = received]_vars

\* Then process() returns: the thread goes back to its client or ends, unless the
\* table is torn.  Without the first, a thread waits for a client that does not
\* read; without the second it may go on with the commands of others' requests.
ProcessingEnds ==
    ClientsRead /\ RequestsStop =>
      \A c \in Conns :
        pc[c] \in Draining \cup {"joining", "asleep", "removing"}
          ~> torn \/ pc[c] \in {"reading", "closed"}

-----------------------------------------------------------------------------
(* What the repository says of the program and the program does not do.     *)

\* api/MessagingProtocol.java:20 has shouldTerminate answer "true if the
\* connection should be terminated": only a client that disconnected or was
\* refused is dropped.
OnlyDismissedAreDropped ==
    \A c \in Conns : pc[c] \in {"asleep", "removing"} => dismissed[c]

-----------------------------------------------------------------------------
(* The accounts are locks: the detailed server implements AccountLock.      *)

Lock == INSTANCE AccountLock WITH
    Accounts <- Users, Holders <- Conns, Free <- NoUser, Leaked <- NoConn,
    owner <- [u \in Users |-> account_owner(u)],
    gone <- {c \in Conns : pc[c] = "closed"}

\* A connected account belongs to the connection that has a session of it; a
\* connection that is gone never logs in or out again (AccountLock!Spec).
AccountsAreLocks == Lock!Spec
=============================================================================
