# Verification of the STOMP client and server

The repository holds a publish/subscribe system for reports of sports games: a
Java server that speaks a STOMP dialect, with a thread-per-client and a reactor
front end over the same protocol code, and a C++ client with one thread for the
keyboard and one for the socket.  This directory holds TLA+ modules translated
from that source, the TLC configurations that check them on small instances,
and proofs checked by TLAPS.

Paths below are relative to `server/src/main/java/bgu/spl/net` (server) and
`client/src` (client) in `src/SPL231-Assignment3-student-template`.

To repeat a run: `tlc -config <name>.cfg <MC module>`; the proofs:
`tlapm TpcServerProofs.tla`, and likewise for each of the eight modules of
proofs (the larger ones take a few minutes).

## 1. Inventory

| Part | State | Operations | Called by |
|---|---|---|---|
| `impl/stomp/UserManager`, `UserRegister` | accounts: password, connected flag, names of joined topics; the session (account) of each connection | create, connect, disconnect, subscribe_current_user, queries | ResponseManager |
| `impl/stomp/TopicManager`, `Topic` | topics; subscription id -> topic; per topic subscription id -> connection id | subscribe, unsubscribe, unsubscribe_user, list of subscribers | ResponseManager, StompConnections |
| `impl/stomp/ResponseManager` | a frame queue per connection, ONE list of commands, the text of the next receipt | generateResponse (synchronized), send_to_channel and get_queued_message (not synchronized) | protocol |
| `impl/stomp/ImplementationStompMessagingProtocol` | locals of process() | process, shouldTerminate | both front ends |
| `srv/StompConnections` | table id -> handler, running id | connect, disconnect, send to one, send to a topic, is_id_closed | protocol, acceptors |
| `srv/BaseServer`, `BlockingConnectionHandler` | a thread and a socket per connection | accept, run, send | clients |
| `srv/Reactor`, `NonBlockingConnectionHandler` | selector, keys and their interest, selectorTasks, a write queue per connection | serve, handleAccept, continueRead, continueWrite, updateInterestedOps, send | clients, pool threads |
| `srv/ActorThreadPool` | playingNow, a list of pending tasks per handler, an executor | submit, complete, shutdown | Reactor |
| `impl/stomp/StompMessage*`, `ExtractionUtility`, `StompEncoderDecoder` | bytes of an incomplete frame | parse, format, frame at NUL | handlers, protocol |
| `impl/stomp/*Singelton*`, `srv/ConnectionsSingelton` | one static reference each | create on first use, without a lock | everybody |
| client `ConnectionHandler`, `socketReader`, `keyboardInputSend`, `StateControler` | socket, mutex, flags `logout`, `waiting_for_logout`, counter `waiting_message` | a typed line, a received frame, the two loops | the two threads |
| client `ResponseManager`, `MessageFactory`, `User`, `event` | next receipt id, id of the DISCONNECT's receipt, subscriptions, stored game events | parseInput, parseServerMessage, report_game, summary | ConnectionHandler |

How they interact.  A request reaches `process()` in the thread of its
connection (or in a pool thread, one at a time per connection).  `process()`
calls `generateResponse`, which changes accounts and topics, puts reply frames
in the queue of the requester, and puts one command per frame ("self", "Error",
a topic name; also "disconnect", which has no frame) in the shared list.  Then
the thread drains that list: for each command, whoever added it, it takes the
next frame of its *own* queue and sends it to its own client or to a topic's
subscribers.  The client reads its socket only while a counter says that a
frame is expected, and shuts the keyboard from a `logout` until the receipt of
its DISCONNECT.

What is hard here, and what correctness means:

* *Shared command list* — two threads in the drain loop take each other's
  commands.  Right: a reply goes to the client it answers, the frame is the one
  its command was added for, only a dismissed client is dropped.
* *Unsynchronized tables* — TreeMaps are read and iterated while others change
  them.  Right: subscribers get broadcasts, threads get to the end of a request.
* *Requests that throw half way* — sessions, topics and commands stay behind.
  Right: an account has one session; what is named exists.
* *Selector and pool threads* — tasks, wakeups and interest in writing are
  exchanged without a lock.  Right: no frame is forgotten, no task is slept on.
* *Task order* — submit races with complete.  Right: the tasks of one handler
  run in order, one at a time, and none is lost.
* *Two client threads and a counter* — frames nobody counted.  Right: a logout
  ends, nothing is sent behind a DISCONNECT.
* *Managers made on first use without a lock* — the first requests race.  Right:
  one manager, one login to an account, every command carried out.
* *What a connection leaves behind* — the string frames are collected in, the
  User object, the address of the last login.  Right: a frame is a frame of this
  connection, a command has a session and the user that logged in.
* *Ids that repeat* — two joins in one second.  Right: who was told that it
  joined is subscribed, and each receipt is about one's own request.
* *Texts that look like labels* — a report passes two formats and a server.
  Right: what is stored is what was reported, and a summary tells the latest.

PROJECT.json lists each hazard at its line with the properties aimed at it.

## 2. Modules

| Module | Models | Extends |
|---|---|---|
| `StompTypes` | names, ids, frames, commands | |
| `UserManager` | `UserManager.java`, `UserRegister.java` | StompTypes |
| `TopicManager` | `TopicManager.java`, `Topic.java` | StompTypes |
| `ResponseManager` | `ResponseManager.java` | UserManager, TopicManager |
| `TpcServer` | protocol, connection table, `BaseServer`, `BlockingConnectionHandler` | ResponseManager |
| `AccountLock` | abstract: what a session promises | |
| `TpcServerProofs` | theorems about `TpcServer`: types, sessions, topics, the lock, the drain; then delivery: broadcasts, what dropped clients leave, frames and commands | TpcServer, TLAPS |
| `ActorThreadPool` | `ActorThreadPool.java` and the library executor | |
| `SerialActs` | abstract: what the pool promises | |
| `PoolProofs` | theorems about `ActorThreadPool` | ActorThreadPool, TLAPS |
| `Reactor` | `Reactor.java`, `NonBlockingConnectionHandler.java` | ActorThreadPool |
| `ReactorProofs` | theorems about `Reactor` | Reactor, TLAPS |
| `LazySingletons` | `SingeltonResponseManager`, `UserManagerSingleton`, and `process()` around them | |
| `LazyProofs` | theorems about `LazySingletons` | LazySingletons, TLAPS |
| `ClientSession` | the C++ client's two threads, with the server as they see it | |
| `SessionProofs` | theorems about `ClientSession` | ClientSession, TLAPS |
| `ClientCommands` | typed lines: `ConnectionHandler.cpp`, `parseInput`, the `User` object, addresses | |
| `ClientPartsProofs` | theorems about `ClientCommands` and about `Framing` | ClientCommands, Framing, TLAPS |
| `ClientChannels` | clients' maps of channels, composed with the server's managers | ResponseManager |
| `ChannelsProofs` | theorems about `ClientChannels` | ClientChannels, TLAPS |
| `GameReports` | `report_game`, `parseServerMessage` of a MESSAGE, `summary` | |
| `ReportsProofs` | theorems about `GameReports` | GameReports, ClientPartsProofs |
| `FrameChannel` | abstract: whole frames, in order, each once | |
| `Framing` | `StompEncoderDecoder`, `getFrameAscii` and `income` in `socketReader` | |
| `MCClientParts` | `ClientCommands`, `GameReports` and `Framing` side by side, with values | all three |
| `MCTpcServer`, `MCActorThreadPool`, `MCReactor`, `MCLazySingletons`, `MCClientSession`, `MCClientChannels` | values of constants | |

Definitions whose comment says "Seeded fault" are not used by any action.  Each
is a plausible error in the code; substituting it for the definition it stands
next to makes the property named in PROJECT.json ("mutants") fail.

### 2.1 Thread-per-client server (`TpcServer`)

State and code correspond one to one: `password`, `connected`,
`subscribed_topic_names`, `user_client_connection` are the maps of UserManager;
`topic_list`, `user_topic`, `user_client_id` those of TopicManager and Topic;
`ClientMesssageQueues`, `commands`, `recipt_message` the fields of
ResponseManager; `connections`, `running_id` those of StompConnections.
`pc`, `response`, `disconnect`, `fanout` are program counter and locals of each
connection's thread.  `torn` says that two threads have been writing the table at once.  `inbox`,
`dismissed`, `disturbed` are history.

* `generateResponse` is synchronized, so a request is one step: `Serve`
  (CONNECT, SEND, SUBSCRIBE, UNSUBSCRIBE accepted), `Dismiss` (DISCONNECT, and
  every request the checks refuse) or `Throw` (an exception leaves `run()`;
  what was changed before it stays changed: all of the request where only the
  receipt's number cannot be read, `ReceiptThrows`).  The drain loops that run at the
  same time see additions to `commands` one by one in the code; the additions of
  one request are made with the frames already queued or only appended behind,
  and an earlier poll commutes with a later addition, so one step loses nothing
  that a property sees.
* The drain is not synchronized, so each access to shared state is a step:
  `SeeCommand`/`Drained` (isEmpty), `TakeCommand`/`TakeNothing` (remove(0)),
  `ReplySelf`, `NoteDisconnect`, `StartFanOut`, `SendToNext`, `EndFanOut`.
* Reading the connection table while it is changed is undefined: `may_miss` lets
  a lookup fail, `SendToNext` may pass an entry over, `FailFanOut` is the
  ConcurrentModificationException, `MissQueue` the same for the table of queues.
  The model is nondeterministic over these outcomes; up to two entries a TreeMap
  is a list in which only removals below can be missed, from the third on it is
  rotated.
* Writing the table is no atomic step either: `put` and `remove` have a beginning
  (`Accept`, `WakeUp`) and an end (`Execute`, `Remove`).  When one begins while
  another is under way the tree is `torn` for good: a write may leave anything in
  the table of what has been in it (`left_by_write`), or throw (`FailWrite`; a
  handler whose `put` threw is never started, "unserved", and the acceptor with
  it), and a lookup may miss any connection.
* The list of a broadcast is made at once, but of entries that live on
  (Topic:56-61).  When a later request takes an id out of the topic, its entry is
  unlinked from the tree and keeps its connection; or, if it has entries on both
  sides, it may be rewritten to the next id and that one's entry is unlinked
  (`may_be_rewritten`, `lists_follow`).  So a list holds ids whose entry is in the
  tree (`list`) and connections in entries that are not (`unlinked`).  Which
  entries have two children depends on the history of the tree; every choice of
  those that lie between two others is allowed.
* `same_Integer`: the ids are compared with `==` on Integer objects, so ids above
  the cache are never equal.  `IntegerCacheMax` stands for 127; the instances
  use 1 or 2, so that both sides of the boundary are there.
* Text is abstracted: a frame keeps its kind, the connection it answers, its
  topic and which receipt text it carries; a destination is a topic that is or
  is not a number.  `Unparsable` covers everything that throws before a change.
* A client subscribed twice to a topic is written a frame twice.  `inbox` is a
  set and does not tell copies apart, so nothing said of this module counts them;
  `ClientSession`, whose counter depends on them, does.

### 2.2 Thread pool (`ActorThreadPool`) and reactor (`Reactor`)

`submit` and `complete` hold the monitor of the act, so each is one step; the
executor is external: threads created up to a fixed number, one queue, a thread
that dies is replaced, `shutdownNow` empties the queue.  `SerialActs` says what
callers may rely on, and `TasksAreSerial` is the refinement.

`Reactor` follows `serve()` statement by statement where another thread can come
in between: `Select`, `RunTask`, `EndTasks`, one action per kind of key, then
`WriteFrame`/`FullSocket`/`WriteFails`, `SeeEmpty` (loop condition), `AskAgain`
(the second isEmpty), `EndWrite` (close, or interest in reading only).  A pool
thread's `send` is `Enqueue`, `AddTask`, `WakeUp`: the three places where the
selector thread can get in.  `process()` itself is in `TpcServer`; here a task
sends to any connections in the table and may drop its own at any time, with or
without a frame: the command that tells it to may be another request's.  Dropping
is two steps, `Dismiss` and `Remove`, and `EndWrite` may miss a connection that is
in the table while another is being removed; an accept that comes between the two
tears the tree (`torn`, as in `TpcServer`), and `put` may then throw out of
`serve()` (`PutThrows`).  Bytes are counted in whole frames.  A key is valid, cancelled (its channel is closed) or
removed (a select() has seen that); `interestOps` throws on the last two, and
the model then has `serve = "dead"`.  A new connection enters the table before
its channel is registered; since nobody sends to a connection that has not sent
a request, both are in `HandleAccept`.

### 2.3 Client (`ClientSession`)

Commands are handled under one mutex, and so are frames: each is a step of the
keyboard thread (`Login`, `JoinOrExit`, `Report`, `Complain`, `Logout`) or of the
socket thread (`ProcessFrame`, `EndLogout`, `ProcessError`).  What the socket
thread does outside the mutex has steps of its own: `Poll` the counter, read
(`ReadFrame`, `ReadFails`), and after an exception `Throw` and `Drain`.  The
server is the one of `TpcServer` with one request at a time: it answers in
order, refuses and leaves, or hangs up.  `Troubles` chooses what may go wrong;
`orderly` records that nothing has.

That server knows a topic by a number only, and this client reports to a topic
named after the two teams, so each SEND is refused, in `Refuse`, joined or not;
the client counts two frames per event all the same.  The reports that do come
are those of other programs, to a channel with a number.  `joined` counts the
client's subscriptions: the server writes a copy of a report for each of them
(StompConnections:45-49 has no `break`), so `Broadcast` adds that many frames, and
`foreign` counts copies.  An exit leaves `joined` as it is, because
`Topic.unsubscribe` does not remove the entry; a login on a new connection starts
from 0.  A frame that makes the reader throw stays in its string: `glued`, and
the frames after it come out behind it (`ProcessGlued`).

### 2.4 Typed lines (`ClientCommands`)

One step per line, whole or not, and one per way a session ends.
`stompProcessClientInput` looks for login anywhere in the line and connects
before `parseInput` has read the address in it; so `Login` connects to the
address of the login before, and stores the new one.  `as_port` is the short
that the number is stored in.  What lies behind the end of a vector is a choice
between the process ending and going on.  `careful` records that every line was
whole, `premature` that a request went out without a session.  Of the frames only
what they do to the session is here: the receipt of the DISCONNECT, an ERROR, an
exception, and a report with a line of updates that is cut short, where the reader
takes the second word of a vector of one (`ReaderOverruns`, ResponseManager.cpp
164, 176 and 189): that may end the process.  `unbroken` records that none came.

### 2.5 Channels (`ClientChannels`)

Two clients draw subscription ids (`rand_of(second)`: srand(time) makes the id a
function of the second), keep their own map, and send their requests to the
operations of `ResponseManager`, the same ones as in `TpcServer`.  The commands of
one request are carried out before the next is taken, so what goes wrong here is
no matter of threads.  `apart` records that no id was drawn twice.  Ids that
rand() gives are taken to be neither numbers of channels nor ids of connections
(`ChannelAssumption`).  The code does not see to that; it is what makes
`Topic.unsubscribe`, which removes the connection id where the key is the
subscription id, remove nothing.  With small ids the properties would need that
as a condition, as they need `apart`.

### 2.6 Game reports (`GameReports`)

A text is a sequence of words of `Vocabulary`; labels, colons and line ends are
words, for the reader looks for them wherever they are.  `report_game` writes,
`relay` is what the server makes of it: the destination in front, with the names
of the teams (`topic_name`), in which the reader's search for a label begins, and
the body without the empty lines at its end.  `tame` is about all the texts that
are searched, the names of the teams included.
`parse_message` reads, `stats` and `event_stats` are the loops of `summary`.
A loop of the code is a recursive function of the number of turns, here and in
`Framing`.  `insert` leaves a key that is there as it is; `place` puts an event
into the sorted list where the map's insert would, and keeps the first
description of a key.  `key_before` compares the keys of the events as texts,
digit by digit, as the map does.

### 2.7 Frames and bytes (`Framing`)

Up: the decoder's array, which grows when it is full and keeps old bytes; each
connection has its own.  Down: the server's line end behind each NUL, and the
client's string, which is the same one for all connections and keeps a frame
that made it throw.  `content` is the frame without line ends, since lines without
text are left out before it is looked at: the server's line end goes in front of
the next frame and does no harm there.  `Up == INSTANCE FrameChannel` takes for
its queue the frames that were sent and not decoded yet, and for its output those
decoded.

### 2.8 Managers made on first use (`LazySingletons`)

The test, the assignment and the second read of the static field are three steps.
Each instance that was made has its own monitor, queues, commands and users.
Reads are taken to see the last write: the fields are not volatile, and a thread
that still sees null would add to the race and nothing else, except after it is
over.  The TopicManager's singleton is the UserManager's with another name.

## 3. Runs

| Run | Question | Bounds |
|---|---|---|
| `tpc_requests` | TypeOK, OneSessionPerUser, TopicsExist, CommandsBacked, ProcessingEnds (liveness) under every kind of request | 2 connections, 2 accounts, 2 passwords, a numeric and a named topic, 3 requests |
| `tpc_broadcast` | OrderlyReplies, NoGhostSubscribers, AccountsAreLocks (refinement) | 2 connections, 4 requests (login, join, send, leave), with receipts, ids above 1 not cached |
| `tpc_fanout` | FanOutReach while requests change the topic's tree and accepted ids rotate the table | 3 connections logged in and joined under ids 3, 2 and 1, then 2 requests; ids above 2 not cached |
| `tpc_dismissal` | violation of OnlyDismissedAreDropped | as tpc_requests |
| `pool_serial` | PoolTypeOK, OneJobPerAct, TasksAreSerial (refinement with fairness) | 3 handlers, 2 threads, 2 tasks each |
| `reactor_writes` | TypeOK, NoLostWrites, NoSleepOnTasks, FramesLeave (liveness) | 2 connections, 1 pool thread, 2 frames, clients may close |
| `reactor_serving` | violation of KeepsServing | 2 connections, 2 pool threads, nobody closes |
| `reactor_dismissal` | violation of DismissedAreClosed | 1 frame |
| `singletons` | OneUserManager, OneLogin, RequestsCarriedOut, RaceIsOver | 3 connections, a login and a logout each, symmetric |
| `client_session` | TypeOK, CounterIsShort, SocketFollowsFlags, NothingAfterDisconnect, QuietLogoutEnds, OnlyQuietLogoutsEnd | 5 commands, 2 events per report, 2 reports of others, all troubles |
| `channels` | OwnReceipts, ApartMembersSubscribed, ExitsAreKnown | 2 clients, 2 numeric channels and a named one, 3 commands, 3 seconds |
| `client_parts` | lines: TypeOK, WholeLinesSurvive, SessionBeforeRequests, LoginGoesWhereTheLastSaid | 2 users, 2 hosts, ports 7777, 40000 and 70000, 5 lines |
| | reports: StoredAsReported, TameReportsAreRead, SummaryTellsLatest, OrderedWithinWidth | 2 users, 5 files, 3 reports |
| | frames: WholeFramesDown, UpIsAChannel (refinement with fairness) | 3 texts of 1 to 3 letters, an array of 1 byte, 2 frames per direction, 1 lost connection |

`client_parts` puts three modules that share no variable into one run: in each
behaviour one of them moves and the others stay in their initial states, so its
states are those of each module alone (about 3000, 6000 and 200000).

Why the bounds are enough.

* *Server.*  Two threads are enough to steal a command, to race isEmpty with
  remove(0), and to iterate a table that changes; they are also enough to
  tear the table, one writing it while the other does.  Three subscriptions are
  the fewest with one between two others, the entry an exit may rewrite; the run
  `tpc_fanout` starts with them (`SubscribedInit`, the state after three logins and
  three joins, one after the other), so that a broadcast and an exit during it are
  all the requests it takes.  Two topic destinations and two ids are
  enough for the confusions in the code: 7 is both the number a destination is
  parsed to and a subscription id; 1 is both a subscription id and a connection
  id.  `MaxRequests` bounds a run.  With a bound requests always stop, which
  `ProcessingEnds` therefore has as an antecedent of its own: without it, clients
  that keep sending can keep one thread draining for them.
* *Pool.*  With three handlers on two threads one job is in the executor's queue
  while each handler has another pending; tasks beyond two take the same path.
* *Reactor.*  The second frame is what arrives while the first is being written;
  two connections are needed for a task of one in front of a task of the other.
  With two pool threads the invariants were also checked (about 1.5 million
  states); the liveness check is kept to one, since what a frame waits for is the
  selector thread.
* *Managers.*  Two threads race; the third comes when one of them is done.
* *Client.*  login, join, report, logout and login again are five commands.  One
  foreign report is enough to fall behind; two, to fall behind by more than one.
* *Channels.*  Three commands are a join of each client and an exit, or join,
  exit and join again; logging in is not counted.  In three seconds three joins
  have ids of their own.
* *Lines.*  Five lines are two logins with a command and a logout in between.
  40000 is a port whose short is negative, 70000 one that comes out as 4464;
  there is a server at each.
* *Reports.*  Three reports are two of one game with another's between them.  The
  files change a value, repeat a key, hold a second colon, a label in a name, a
  line end in a value, one at the end of a description, and times of three and
  four digits.
* *Frames.*  A frame of three letters makes an array of one byte grow twice; the
  second frame meets the first one's bytes in it; the second connection meets
  what the first left.

`CHECK_DEADLOCK FALSE` is in every configuration because clients may stop: no
request, command or connection is ever owed, and the bounds end a run.

Fairness.  Server: weak fairness of each thread's own steps (the virtual machine
runs a thread that can run), but not at the places where it writes to clients'
sockets, which may last for ever when a client does not read, and not while the
table is torn, since a lookup in such a tree may find no way out.  That clients
read is an antecedent of `ProcessingEnds` (`ClientsRead`), not an assumption of
`Spec`; the client of this repository stops reading when its counter is 0.  Pool:
weak fairness of each thread, none of callers.  Reactor: the same for the selector
and pool threads, as long as the table is not torn, and strong fairness of
`WriteFrame` per connection: this one is an assumption about clients, a client goes on reading, so a socket that is tried again and again
takes the frame in the end.  Client: weak fairness of the socket thread and of
the server; none of the keyboard or of other clients.  Frames: weak fairness of
the server's `decodeNextByte`, whose thread reads as long as the connection lasts;
none of the client's reader.

## 4. What the runs show

Holds in every interleaving: an account never has two sessions
(`OneSessionPerUser`), and the server implements the lock of `AccountLock`,
including its leaks: an account whose client hangs up or logs in to another
account is locked for ever (`AccountsAreLocks`).  What a subscription, command or
thread names exists (`TopicsExist`), so a broadcast never iterates a null list.
For every command in the list there is a frame somewhere (`CommandsBacked`).
If clients read what they are written, no more requests come at some time, and the
table is not torn, every thread gets to the end of its request or of itself
(`ProcessingEnds`); while requests keep coming, one thread may go on for ever with
the commands of the others'.
While no two drains overlap and none is cut short, replies go where they belong
(`OrderlyReplies`); that a reply arrives at all is not claimed, since the lookup
of its client may fail.  Unless, besides, two threads have torn the table, dropped
clients leave no session and no subscription, with one exception stated in
`NoGhostSubscribers`.  Iterating an unchanged table reaches everybody who is
subscribed all the while under one id, if the connection's id is in the Integer
cache, though the list's entries are rewritten meanwhile; and no id beyond the
cache (`FanOutReach`).  The pool runs each handler's tasks in order, one at a time,
all of them until shutdown.  The reactor forgets no frame and sleeps on no task.
The reactor's part of that ends, too, when its table is torn.  In an orderly
session, and with no report of its own on the way, the client's counter is short
by exactly the copies of others' reports; it is never lower than that until the
reader throws.  In such a session a logout comes to its end exactly where no
report of another came.

Two threads may both make a ResponseManager; where only one was made, its lock
stands in for those the UserManager and its singleton do not have.  Once a
manager is there and nobody is about to make one, it is the one for good.

Whole lines do not end the client's process, as long as no report comes with a
line cut short, and send nothing outside a session.  A login goes where the last
whole one before it said, or to the address of the start, beyond port 32767 too;
its own address counts for the next.  That is no way to try again after a failed
connect: the line has set the flag by then, and typed once more it is answered
"already logged in" (ConnectionHandler.cpp:129-131).  Where no
subscription id was drawn twice, receipts are about one's own requests, a member
is subscribed, and the id in its map is the channel's.  A report without labels
in its texts is stored as it was written, but for what follows a second colon.
The bytes towards the server implement a channel of frames; those towards the
client do until a frame is left in its string.

Findings, each the subject of a "violation" run:

1. `tpc_dismissal` — a thread that takes another request's "disconnect" or
   "Error" drops its own client (protocol:33).
2. `reactor_serving` — `interestOps` on a cancelled or removed key ends the
   selector thread (Reactor:93).
3. `reactor_dismissal` — a dismissed connection is never closed:
   `shouldTerminate` is asked after a write, the last write is before the
   dismissal (NonBlockingConnectionHandler:106).

Other things the modules show of the code, as the conditions under which the
properties hold, without a run of their own:

* `Topic.unsubscribe` removes the connection id where the key is the subscription
  id (Topic:85): after "Exited channel" the subscription is still there.  Hence
  nothing is claimed of those who left.
* One report of another client, and a later logout never ends
  (`OnlyQuietLogoutsEnd`), though "logout successful" was printed
  (ResponseManager.cpp:123).
* A frame that makes the client throw, or the beginning of one that the
  connection was lost in, is put in front of the next (`whole` in `Framing`,
  socketReader.cpp:20 and 24).
* A line with login in it counts as a login (`careful` in `ClientCommands`,
  ConnectionHandler.cpp:126), a login goes to the address of the one before
  (line 127), and without a server a logout shuts the keyboard for ever (129).
* Two joins of one second have one id, and the second takes the place of the
  first (`apart` in `ClientChannels`, ResponseManager.cpp:56).
* A join of a channel with a name ends the connection (`CutOff`,
  ResponseManager.java:77).  The client's own reports go to such channels, so
  with this server none of them gets through; `GameReports` is about the formats.
* A value is stored up to its second colon (`cut`, ResponseManager.cpp:176), and
  events are listed by the text of their time, 1980 before 600
  (`OrderedWithinWidth`, User.cpp:91).
* With two ResponseManagers, replies are queued in one and looked for in the
  other (`raced` in `LazySingletons`).

## 5. Proofs

`TpcServerProofs` proves, for every set of users, passwords, topics and ids,
every number of connections and requests, and every size of the Integer cache,
under the named assumptions of `StompTypes` and `TpcServer` (ids are integers,
the null values are none of the things they stand for, control words are not
topics):

| Theorem | Statement | Argument |
|---|---|---|
| `TypeCorrect` | `Spec => []TypeOK` | inductive with `TopicInHand` (a thread in a broadcast has a topic in hand), since the entries of the list are those of that topic; one lemma per operation, then one per action |
| `OneSession` | `Spec => []OneSessionPerUser` | inductive with TypeOK: only Connect takes a session and it needs an account that is not connected |
| `BroadcastsFindTheirTopic` | `Spec => []TopicsExist` | inductive with TypeOK: topics are never removed; a SEND needs the name in the user's list, a name gets there with its topic |
| `ImplementsAccountLock` | `Spec => AccountsAreLocks` | step simulation under OneSessionPerUser and `UnbornInv` (ids above running_id have no thread): each step is a step of the lock or a stutter |
| `RepliesAreOrderly` | `Spec => []OrderlyReplies` | OrderlyReplies is not inductive; `OrderlyInv` is |

`OrderlyInv` says, as long as nothing is disturbed: if no thread drains, the
command list is empty (`IdleInv`); every queue holds only its owner's frames
(`OwnQueue`); the draining thread's queue and the command list, with
"disconnect" left out, match element by element (`Aligned`, `DrainInv`); all
other queues are empty (`RestInv`); what was written was right (`InboxInv`).
The strengthening is needed because the property speaks of what was written,
and only the alignment of queue and list makes the next write right.

Its second part is about delivery, under the same assumptions:

| Theorem | Statement | Argument |
|---|---|---|
| `BroadcastsReach` | `Spec => []FanOutReach` | `BroadcastInv`: an entry of the table belongs to a thread past `connect` (`TableInv`); an iteration that is not stale runs while nobody writes the table (`RunInv`); an id that was in the tree from the start is in the tree now, with its entry in the list or its connection in an entry that was unlinked (`ListInv`, kept by every rewriting of entries); so whoever was passed has the frame (`PassedInv`), and no frame of a broadcast is with an id beyond the cache (`ReachedIds`) |
| `DroppedLeaveNothing` | `Spec => []NoGhostSubscribers` | `GhostInv`: unless an account leaks, the topics of a subscriber are in the list of names of its session (`AccountNames`); a thread that drops its client after a request of that client's has no session (`DismissedOut`); and unless drains have overlapped or the table is torn, nothing is left of what is outside the table (`Outsiders`) |
| `FramesForCommands` | `Spec => []CommandsBacked` | `BackedInv`: the set of commands that ask for a frame, in the list and in the hands of threads, is no larger than the set of places of queued frames, which is finite since no queue outgrows the requests read (`QueuesInv`); each kind of step adds to and takes from both sets what keeps it so |

`PoolProofs` proves, for every set of handlers and threads and every number of
tasks, under `PoolAssumption` (that number is a natural number, and the handler
of no job is not a handler):

| Theorem | Statement | Argument |
|---|---|---|
| `PoolTypeCorrect` | `PoolSpec => []PoolTypeOK` | inductive with `JobTaken`: a thread that was given a job, or runs one, has it; without it `complete` could be called for no handler |
| `OneJobAtATime` | `PoolSpec => []OneJobPerAct` | inductive with the types: each handler rests (no job, nothing pending) or plays (one job); `execute` gives a job only to a handler that has none, and every step is about one handler except `shutdown` and the shift of the queue by `Take` |
| `TasksOneByOne` | `PoolSpec => Serial!Init /\ [][Serial!Next]_serialVars` | the safety half of `TasksAreSerial`: `InOrder` numbers the tasks of a handler, those it has started, the job that is due and those pending, so every step is a step of `SerialActs` or a stutter |

`ReactorProofs`, for every set of connections, pool threads and handlers and any
number of frames and tasks:

| Theorem | Statement | Argument |
|---|---|---|
| `ReactorType` | `Spec => []TypeOK` | inductive with what each place of the selector and pool threads implies about keys and jobs |
| `WritesAreKept` | `Spec => []NoLostWrites` | for each open channel with a frame: writing is watched for, or a task asks for it, or a thread is about to add one, or the selector thread is still to look again |
| `SelectorIsWoken` | `Spec => []NoSleepOnTasks` | a task in the queue has a wakeup pending, or its thread is between adding it and waking |
| `ReactorServesInTurn` | `Spec => []OneJobPerAct` | the reactor's steps use the pool through `submit` and `complete` only, so the pool's lemmas apply |
| `RequestsOneByOne` | `Spec => Serial!Init /\ [][Serial!Next]_serialVars` | the same for the tasks the selector thread submits, which are the requests of a connection as they were read |

`LazyProofs`, for every set of connections:

| Theorem | Statement | Argument |
|---|---|---|
| `UsersAreOne` | `Spec => []OneUserManager` | `Single`: with one ResponseManager one thread at most is inside `generateResponse` (`Places`), so between its test and its assignment nobody else moves the users |
| `LoginsAreOne` | `Spec => []OneLogin` | the same: who is about to log in has seen no session, and there is none |
| `CommandsAreTaken` | `Spec => []RequestsCarriedOut` | who stops has found the list of the one manager empty |
| `CreationEnds` | `Spec => RaceIsOver` | the step to "create" is taken only from a test that saw null |

`ClientPartsProofs`, for every set of names, hosts and ports and any number of
lines, and for any frames of any length, any first array and any number of frames
and losses:

| Theorem | Statement | Argument |
|---|---|---|
| `CommandsType` | `Spec => []TypeOK` | inductive |
| `LinesSurvive` | `Spec => []WholeLinesSurvive` | `careful` and logged in implies a user; only a login sets the flag, and it makes one; of the frames only a report with a line cut short ends the process |
| `SessionsComeFirst` | `Spec => []SessionBeforeRequests` | inductive: logged in and connected implies the session of the user at hand |
| `LoginsGoWhereTheLastSaid` | `Spec => LoginGoesWhereTheLastSaid` | as long as the process lives, the address kept is that of the last whole login (`Stored`); an address at which a server listens is its own remainder |
| `BytesAreFrames` | `FramingSpec => Up!Init /\ [][Up!Next]_(Up!channelVars)` | `Framed`: all bytes of the connection, with the place where each frame ends, are cut in two by what the server has taken (`Stream`, `Taken`); the array begins with what was taken of the next frame (`InOrder`), so the NUL comes when it holds all of it, and growing keeps it |
| `FramesComeDownWhole` | `FramingSpec => []WholeFramesDown` | `Downward`: as long as `whole`, each byte on the downlink has its place, frame and position, and the places follow one another up to the end of the last frame (`Places`); behind the byte taken last, the frames before are processed, and `income` holds the beginning of this one, without line ends (`InHand`) |

`Framed` names the bytes that were sent by their positions instead of folding the
frames into one sequence: the ends of the frames are a function that grows by one
value with each frame, so no induction over the frames is needed.  `Downward` does
the same from the other end, for the bytes still to be read.  The property alone
is not inductive: it speaks of the frames that were processed, and the next one is
made of what is in `income` and on the link.

`ReportsProofs`, for every vocabulary, any users, files, keys and texts of any
length and any number of reports, under `ReportAssumption` (the words that are
looked for are words; users and numbers are no line ends; files hold what
`parseEventsFile` makes, each key once; numbers of different words differ):

| Theorem | Statement | Argument |
|---|---|---|
| `ReportsAreStoredWhole` | `ReportsSpec => []StoredAsReported` | `ReportsIInv`, and `ReportIsRead`: of a tame report the reader finds each label where it was written, behind the header with the destination, its sections are the lines of the maps, and a map made of these lines is the one reported, each value up to its colon |
| `TameReportsPass` | `ReportsSpec => []TameReportsAreRead` | the same lemma: where it reads what was written there is a number to parse, and a colon in each line |
| `SummaryIsTheLatest` | `ReportsSpec => []SummaryTellsLatest` | `ReportsIInv` gives what the updates are; the loop of `stats` has after each turn the latest value so far (`Latest`) |
| `EventsAreListedInOrder` | `ReportsSpec => []OrderedWithinWidth` | `place` keeps the times of the list sorted as texts, whatever the names (`Sorted`, `ListingLoop`); the order of texts is that of their first difference (`TextOrder`); of numbers with as many digits the smaller has the lesser text (`SameWidth`) |

`ReportsIInv` says: every update is what the reader makes of the message of its
report, in the order of the reports; as long as the socket's thread reads, the
messages of the others are on their way, in order; and if all reports are tame it
still reads.  The properties speak of updates and reports only; what is between
them, the frames, is what makes the next update the right one.

The loops are recursive functions, and no theorem of the library with an
operator for a parameter is used.  That a function is what its equation says
(`Loop`, from `LoopExists` and `LoopUnique`), and that what holds at 0 and from
each turn to the next holds for all (`UpTo`), are lemmas about sets of numbers, and
rest on the least element of such a set (`LeastNatural`, from the library's
well-foundedness of the order on Nat).

`SessionProofs`, for any number of commands, events and reports of others, and
whatever of `Troubles` may happen:

| Theorem | Statement | Argument |
|---|---|---|
| `SessionType` | `Spec => []TypeOK` | inductive with `Flags`, `Orderly`, `LastRequest`, `KnownIds`, `LastReceipt`: a frame is held only while one is expected |
| `CounterShort` | `Spec => []CounterIsShort` | inductive with these: the frames to come are counted over the two directions, each request adds one, and each report of another as many as there are subscriptions |
| `SocketFollows` | `Spec => []SocketFollowsFlags` | part of `Flags` |
| `DisconnectIsLast` | `Spec => []NothingAfterDisconnect` | a DISCONNECT in the uplink keeps the keyboard shut, until its receipt closes the socket |
| `QuietLogouts` | `Spec => OnlyQuietLogoutsEnd` | the receipt of the DISCONNECT is the last frame there is (`LastReceipt`), so the counter is what `CounterIsShort` makes it with nothing to come |

`ChannelsProofs`, for every number of clients, channels, seconds and commands,
under `ChannelAssumption` (each client has its own account, the ids are those of
the seconds and are neither channels' numbers nor connections):

| Theorem | Statement | Argument |
|---|---|---|
| `ReceiptsAreOwn` | `Spec => []OwnReceipts` | `Aligned`: the requests on their way are those that the receipts still expected ask for; `Told`: all handled before have had theirs |
| `MembersSubscribed` | `Spec => []ApartMembersSubscribed` | `Mapped`, `IdsApart`, `MapsFit`: a channel joined and not left is in the map, an id stands for one channel of one client and goes up once to join and once to exit, and a map agrees with the server or the join is on its way |
| `ExitsKnown` | `Spec => []ExitsAreKnown` | the same invariant, `ChannelsInv`; `ExitsFit` (an exit that comes up names the channel it is for) is what keeps the receipts of exits true |

The whole invariant is `Typed /\ Served /\ (apart => Apart)`: types, one request
at a time, requests and receipts in step and the map hold of every run; what the
ids stand for only as long as none was drawn twice.  `Told` and `ExitsFit` need
each other, since the text of an exit's receipt is the channel the server finds.

Only model-checked:

* liveness: the properties `ProcessingEnds`, `FramesLeave`, `QuietLogoutEnds`, and
  the fairness half of `TasksAreSerial` and `UpIsAChannel`: liveness under fairness
  is out of reach of these provers.

Every safety invariant and every action property that a passing run checks has a
theorem, and the safety halves of both refinements with fairness have one each.

## 6. Not modelled, and why

* Parsing of a frame's headers at the server: sequential text processing.  Its
  outcomes (a value, an exception) are inputs of the modules.
* The JSON library: vendored, 24640 of the 26041 lines of implementation.  What
  `parseEventsFile` makes of a file is the input of `GameReports`.
* The summary's file: written once from the loops that are modelled.
* UTF-8 in `StompEncoderDecoder`: a byte is a letter.
* The visibility of the static fields between threads (2.8).
* Start-up, build files, the echo client (the whole file is a comment), and the
  newsfeed and RCI examples of the course.

## 7. Plan

1. `StompParsing`: extraction of headers as operators, checked against a reference
   definition over small frames.
2. Composition of `ClientSession` with `ClientChannels`, once the reader's counter
   is per connection there.
