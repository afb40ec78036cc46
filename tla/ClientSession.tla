--------------------------- MODULE ClientSession ---------------------------
(***************************************************************************)
(* The C++ client: one thread reads commands from the keyboard and sends   *)
(* requests, the other reads frames from the socket.  They share the flags *)
(* and the counter of StateControler, and ConnectionHandler handles a      *)
(* command or a frame under one mutex.  The thread of the socket reads     *)
(* only while the counter says that a frame is expected; that read is not  *)
(* under the mutex.                                                        *)
(* The server at the other end is the one of TpcServer with one request at *)
(* a time: it answers in order, refuses, throws and hangs up.  It knows a  *)
(* topic by a number only, and this client reports to a topic named after  *)
(* two teams: its reports are all refused, and those that come are of      *)
(* other programs.                                                         *)
(***************************************************************************)
EXTENDS Integers, Sequences, FiniteSets

CONSTANTS
    MaxCommands,    \* bound: commands typed while logged in, and logins
    MaxEvents,      \* bound: events in a file of game reports
    MaxBroadcasts,  \* bound: reports of other clients to the topic
    Troubles,       \* what may go wrong: "refuse", "throw", "unparsable"
    NoId            \* stands for "---", no receipt id

ASSUME SessionAssumption ==
    /\ MaxCommands \in Nat /\ MaxEvents \in Nat /\ MaxBroadcasts \in Nat
    /\ Troubles \subseteq {"refuse", "throw", "unparsable"}
    /\ NoId \notin Nat

VARIABLES
    logout,              \* StateControler
    waiting_message,     \* StateControler: frames expected
    waiting_for_logout,  \* StateControler: the keyboard is not read
    disconnect_id,       \* User.DisconnectReceiptId of the current user
    recipt_id,           \* MessageFactory: the next receipt id
    reader,              \* where the thread of the socket is
    held,                \* the frame it has read
    glued,               \* its income still holds a frame that made it throw
    socket,              \* "open" or "closed", at the client
    server,              \* what the connection is at the server
    uplink,              \* requests on their way to the server
    downlink,            \* frames on their way to the client
    joined,              \* how many times the client is in the topic
    typed,               \* commands so far
    foreign,             \* history: frames with reports sent on this connection
    broadcasts,          \* reports of others so far
    orderly,             \* history: nothing has gone wrong
    thrown               \* history: a frame has made the reader throw

stateVars == <<logout, waiting_message, waiting_for_logout>>
readerVars == <<reader, held, glued>>
historyVars == <<foreign, broadcasts, orderly, thrown>>
vars == <<stateVars, disconnect_id, recipt_id, readerVars, socket, server,
          uplink, downlink, joined, typed, historyVars>>

MaxId == MaxCommands * (MaxEvents + 1)
Ids == 0 .. MaxId
Requests == [kind : {"CONNECT", "SUBSCRIBE", "UNSUBSCRIBE", "SEND",
                     "DISCONNECT", "junk"}, id : Ids \cup {NoId}]
Frames == [kind : {"CONNECTED", "MESSAGE", "unparsable", "ERROR", "RECIPT"},
           id : Ids \cup {NoId}]
Request(kind, id) == [kind |-> kind, id |-> id]
Frame(kind, id) == [kind |-> kind, id |-> id]

\* fresh: no session yet; leaving: a reply is out, the socket will be closed.
ServerStates == {"none", "fresh", "up", "leaving", "gone"}

TypeOK ==
    /\ logout \in BOOLEAN
    /\ waiting_message \in Nat
    /\ waiting_for_logout \in BOOLEAN
    /\ disconnect_id \in Ids \cup {NoId}
    /\ recipt_id \in Ids
    /\ reader \in {"poll", "reading", "holding", "draining"}
    /\ held \in Frames
    /\ glued \in BOOLEAN
    /\ socket \in {"open", "closed"}
    /\ server \in ServerStates
    /\ uplink \in Seq(Requests)
    /\ downlink \in Seq(Frames)
    /\ joined \in Nat
    /\ typed \in 0 .. MaxCommands
    /\ foreign \in Nat
    /\ broadcasts \in 0 .. MaxBroadcasts
    /\ orderly \in BOOLEAN
    /\ thrown \in BOOLEAN

NoFrame == Frame("CONNECTED", NoId)

Init ==
    /\ logout = TRUE
    /\ waiting_message = 0
    /\ waiting_for_logout = FALSE
    /\ disconnect_id = NoId
    /\ recipt_id = 0
    /\ reader = "poll"
    /\ held = NoFrame
    /\ glued = FALSE
    /\ socket = "closed"
    /\ server = "none"
    /\ uplink = <<>>
    /\ downlink = <<>>
    /\ joined = 0
    /\ typed = 0
    /\ foreign = 0
    /\ broadcasts = 0
    /\ orderly = TRUE
    /\ thrown = FALSE

-----------------------------------------------------------------------------
(* The keyboard: stompProcessClientInput of one line, under the mutex.      *)

\* The keyboard is read unless the client waits for the end of a logout.
type_line ==
    /\ ~waiting_for_logout
    /\ typed < MaxCommands
    /\ typed' = typed + 1

\* A frame that cannot be sent is given up.
send(requests) ==
    uplink' = IF socket' = "open" /\ server' # "gone" THEN uplink \o requests
                                                      ELSE uplink

more_waiting(n) == waiting_message' = waiting_message + n

\* socket_.connect: a socket that is open already stays what it is.
connect ==
    \/ /\ socket = "closed"
       /\ socket' = "open"
       /\ \/ server' = "fresh"
          \/ "throw" \in Troubles /\ server' = "gone"
       /\ joined' = 0
       /\ foreign' = 0
    \/ /\ socket = "open"
       /\ UNCHANGED <<socket, server, joined, foreign>>

\* login: connected or not, the counter and the flag change.  With an address
\* of a wrong form the complaint about it is sent to the server.
Login ==
    /\ type_line
    /\ logout
    /\ connect
    /\ more_waiting(1)
    /\ logout' = FALSE
    /\ disconnect_id' = NoId
    /\ \E kind \in {"CONNECT"} \cup
                   (IF "throw" \in Troubles THEN {"junk"} ELSE {}) :
          /\ send(<<Request(kind, NoId)>>)
          /\ orderly' = (orderly /\ server' = "fresh" /\ kind = "CONNECT")
    /\ UNCHANGED <<waiting_for_logout, recipt_id, readerVars, downlink,
                   broadcasts, thrown>>

\* What every other command leaves alone.
logged_in_line ==
    /\ type_line
    /\ ~logout
    /\ UNCHANGED <<readerVars, socket, server, downlink, joined, historyVars>>

join_or_exit(n) ==
    /\ logged_in_line
    /\ more_waiting(n)
    /\ \E kind \in {"SUBSCRIBE", "UNSUBSCRIBE"} :
          send(<<Request(kind, recipt_id)>>)
    /\ recipt_id' = recipt_id + 1
    /\ UNCHANGED <<logout, waiting_for_logout, disconnect_id>>

\* Seeded faults: the receipt is not expected; it is expected twice.
JoinUncounted == join_or_exit(0)
JoinTwice == join_or_exit(2)

\* join and exit: one request, one receipt expected.
JoinOrExit == join_or_exit(1)

\* report: for each event a request, the report itself back and a receipt.
Report ==
    \E n \in 1 .. MaxEvents :
        /\ logged_in_line
        /\ more_waiting(2 * n)
        /\ send([i \in 1 .. n |-> Request("SEND", recipt_id + i - 1)])
        /\ recipt_id' = recipt_id + n
        /\ UNCHANGED <<logout, waiting_for_logout, disconnect_id>>

\* A command with a wrong number of words: the complaint is sent as a frame.
Complain ==
    /\ "throw" \in Troubles
    /\ logged_in_line
    /\ send(<<Request("junk", NoId)>>)
    /\ UNCHANGED <<stateVars, disconnect_id, recipt_id>>

\* Seeded fault: the keyboard is read on.
LogoutReadingOn ==
    /\ logged_in_line
    /\ logout' = TRUE
    /\ more_waiting(1)
    /\ send(<<Request("DISCONNECT", recipt_id)>>)
    /\ disconnect_id' = recipt_id
    /\ recipt_id' = recipt_id + 1
    /\ UNCHANGED waiting_for_logout

Logout ==
    /\ logged_in_line
    /\ logout' = TRUE
    /\ more_waiting(1)
    /\ waiting_for_logout' = TRUE
    /\ send(<<Request("DISCONNECT", recipt_id)>>)
    /\ disconnect_id' = recipt_id
    /\ recipt_id' = recipt_id + 1

-----------------------------------------------------------------------------
(* The thread of the socket: socketReader.run.                              *)

\* Seeded fault: the socket is read whatever the counter says.
PollAlways ==
    /\ reader = "poll"
    /\ reader' = "reading"
    /\ UNCHANGED <<stateVars, disconnect_id, recipt_id, held, glued, socket,
                   server, uplink, downlink, joined, typed, historyVars>>

Poll ==
    /\ reader = "poll"
    /\ waiting_message > 0
    /\ reader' = "reading"
    /\ UNCHANGED <<stateVars, disconnect_id, recipt_id, held, glued, socket,
                   server, uplink, downlink, joined, typed, historyVars>>

\* getFrameAscii: a whole frame.
ReadFrame ==
    /\ reader = "reading"
    /\ socket = "open"
    /\ downlink # <<>>
    /\ held' = Head(downlink)
    /\ downlink' = Tail(downlink)
    /\ reader' = "holding"
    /\ UNCHANGED <<stateVars, disconnect_id, recipt_id, glued, socket, server,
                   uplink, joined, typed, historyVars>>

\* getFrameAscii: the socket is closed, at this end or, with nothing more to
\* read, at the other.
ReadFails ==
    /\ reader = "reading"
    /\ \/ socket = "closed"
       \/ server = "gone" /\ downlink = <<>>
    /\ reader' = "poll"
    /\ UNCHANGED <<stateVars, disconnect_id, recipt_id, held, glued, socket,
                   server, uplink, downlink, joined, typed, historyVars>>

\* socket_.close(): what was on its way is lost.
close_socket ==
    /\ socket' = "closed"
    /\ server' = "none"
    /\ uplink' = <<>>
    /\ downlink' = <<>>

\* stompReceivedProcess, under the mutex.
process_frame ==
    /\ reader = "holding"
    /\ reader' = "poll"
    /\ waiting_message' = waiting_message - 1
    /\ held' = NoFrame
    /\ glued' = FALSE
    /\ UNCHANGED <<disconnect_id, recipt_id, joined, typed, historyVars>>

ends_logout == logout /\ held.kind = "RECIPT" /\ held.id = disconnect_id

ProcessFrame ==
    /\ process_frame
    /\ ~glued
    /\ held.kind \in {"CONNECTED", "MESSAGE", "RECIPT"}
    /\ ~ends_logout
    /\ UNCHANGED <<logout, waiting_for_logout, socket, server, uplink, downlink>>

\* What income kept of a report may be readable with the next report behind
\* it, and is processed as one.
ProcessGlued ==
    /\ process_frame
    /\ glued
    /\ held.kind = "MESSAGE"
    /\ UNCHANGED <<logout, waiting_for_logout, socket, server, uplink, downlink>>

\* The receipt of the DISCONNECT.
EndLogout ==
    /\ process_frame
    /\ ~glued
    /\ ends_logout
    /\ close_socket
    /\ waiting_for_logout' = FALSE
    /\ UNCHANGED logout

\* Seeded fault: the socket is left open.
ProcessErrorOnly ==
    /\ process_frame
    /\ ~glued
    /\ held.kind = "ERROR"
    /\ logout' = TRUE
    /\ UNCHANGED <<waiting_for_logout, socket, server, uplink, downlink>>

ProcessError ==
    /\ process_frame
    /\ ~glued
    /\ held.kind = "ERROR"
    /\ close_socket
    /\ logout' = TRUE
    /\ UNCHANGED waiting_for_logout

\* parseServerMessage throws; income keeps the frame, so that what is read
\* later is appended to it and as a rule makes it throw again.
Throw ==
    /\ reader = "holding"
    /\ glued \/ held.kind = "unparsable"
    /\ glued' = TRUE
    /\ held' = NoFrame
    /\ logout' = TRUE
    /\ reader' = "draining"
    /\ orderly' = FALSE
    /\ thrown' = TRUE
    /\ UNCHANGED <<waiting_message, waiting_for_logout, disconnect_id,
                   recipt_id, socket, server, uplink, downlink, joined, typed,
                   foreign, broadcasts>>

\* The counter is brought down to zero, one call at a time.
Drain ==
    /\ reader = "draining"
    /\ \/ /\ waiting_message > 0
          /\ waiting_message' = waiting_message - 1
          /\ UNCHANGED reader
       \/ /\ waiting_message = 0
          /\ reader' = "poll"
          /\ UNCHANGED waiting_message
    /\ UNCHANGED <<logout, waiting_for_logout, disconnect_id, recipt_id, held,
                   glued, socket, server, uplink, downlink, joined, typed,
                   historyVars>>

-----------------------------------------------------------------------------
(* The server at the other end.                                             *)

request == Head(uplink)

take_request ==
    /\ server \in {"fresh", "up"}
    /\ uplink # <<>>
    /\ uplink' = Tail(uplink)
    /\ UNCHANGED <<stateVars, disconnect_id, recipt_id, readerVars, socket,
                   typed, foreign, broadcasts, thrown>>

reply(frames) == downlink' = downlink \o frames

\* To be unsubscribed an id has to be in the topic, and stays there: the entry
\* removed is the one under the number of the connection.
Answer ==
    /\ take_request
    /\ \/ /\ request.kind = "CONNECT"
          /\ server = "fresh"
          /\ reply(<<Frame("CONNECTED", NoId)>>)
          /\ server' = "up"
          /\ UNCHANGED joined
       \/ /\ server = "up"
          /\ request.kind = "SUBSCRIBE"
          /\ reply(<<Frame("RECIPT", request.id)>>)
          /\ joined' = joined + 1
          /\ UNCHANGED server
       \/ /\ server = "up"
          /\ request.kind = "UNSUBSCRIBE"
          /\ joined > 0
          /\ reply(<<Frame("RECIPT", request.id)>>)
          /\ UNCHANGED <<server, joined>>
       \/ /\ server = "up"
          /\ request.kind = "DISCONNECT"
          /\ reply(<<Frame("RECIPT", request.id)>>)
          /\ server' = "leaving"
          /\ joined' = 0
    /\ UNCHANGED orderly

\* An ERROR frame, after which the client is dropped.
Refuse ==
    /\ take_request
    /\ \/ request.kind = "CONNECT" /\ (server = "up" \/ "refuse" \in Troubles)
       \/ request.kind = "SEND" /\ server = "up"
       \/ request.kind = "UNSUBSCRIBE" /\ server = "up" /\ joined = 0
       \/ /\ request.kind \in {"SUBSCRIBE", "UNSUBSCRIBE"}
          /\ server = "up"
          /\ "refuse" \in Troubles
    /\ reply(<<Frame("ERROR", NoId)>>)
    /\ server' = "leaving"
    /\ joined' = 0
    /\ orderly' = FALSE

\* The request makes the handler throw, which closes the connection.
HangUp ==
    /\ "throw" \in Troubles
    /\ take_request
    /\ server' = "gone"
    /\ joined' = 0
    /\ orderly' = FALSE
    /\ UNCHANGED downlink

\* The second after the reply is over and the socket is closed.
Leave ==
    /\ server = "leaving"
    /\ server' = "gone"
    /\ UNCHANGED <<stateVars, disconnect_id, recipt_id, readerVars, socket,
                   uplink, downlink, joined, typed, historyVars>>

\* Another client reports to the topic: a frame for each time this one is in it.
Broadcast ==
    /\ server = "up"
    /\ broadcasts < MaxBroadcasts
    /\ \E n \in 1 .. joined, kind \in {"MESSAGE"} \cup (Troubles \cap {"unparsable"}) :
          /\ reply([i \in 1 .. n |-> Frame(kind, NoId)])
          /\ foreign' = foreign + n
    /\ broadcasts' = broadcasts + 1
    /\ UNCHANGED <<stateVars, disconnect_id, recipt_id, readerVars, socket,
                   server, uplink, joined, typed, orderly, thrown>>

-----------------------------------------------------------------------------
Keyboard == Login \/ JoinOrExit \/ Report \/ Complain \/ Logout
Reader == Poll \/ ReadFrame \/ ReadFails \/ ProcessFrame \/ ProcessGlued
          \/ EndLogout \/ ProcessError \/ Throw \/ Drain
Server == Answer \/ Refuse \/ HangUp \/ Leave

Next == Keyboard \/ Reader \/ Server \/ Broadcast

\* The thread of the socket runs, and the server handles what it is sent
\* (ProcessingEnds in TpcServer).  Nothing makes the user type.
Fairness == WF_vars(Reader) /\ WF_vars(Server)

Spec == Init /\ [][Next]_vars /\ Fairness
-----------------------------------------------------------------------------
requests_of(kinds) == {i \in 1 .. Len(uplink) : uplink[i].kind \in kinds}

\* Frames the server may still write for what it was sent, and frames that are
\* written and not processed.
owed == Cardinality(requests_of({"CONNECT", "SUBSCRIBE", "UNSUBSCRIBE", "SEND",
                                 "DISCONNECT"}))
unread == Len(downlink) + (IF reader = "holding" THEN 1 ELSE 0)

\* The counter of expected frames is short of the frames that come by just the
\* copies of others' reports, as many frames as stay unread, for ever behind.
\* Where something was refused, as a report always is, thrown or not connected it
\* may be too high, but not lower than that, until an exception of the reader
\* itself brings it down to zero.
\* (more_waiting_message in parseInput, less_waiting_message per frame.)
CounterIsShort ==
    /\ orderly /\ requests_of({"SEND"}) = {} =>
          IF socket = "open" THEN waiting_message + foreign = owed + unread
                             ELSE waiting_message = 0
    /\ ~thrown => waiting_message + foreign >= owed + unread

\* Logged out and with a live keyboard means that no connection is open, unless
\* an exception has logged the user out (stompReceivedProcess, socketReader).
SocketFollowsFlags ==
    logout /\ ~waiting_for_logout /\ ~thrown => socket = "closed"

\* A DISCONNECT is the last request on its connection: the keyboard is not read
\* until it is answered (keyboardInputSend.run).
NothingAfterDisconnect ==
    \A i \in requests_of({"DISCONNECT"}) : i = Len(uplink)

\* In an orderly session without reports of others a logout comes to its end.
QuietLogoutEnds ==
    waiting_for_logout ~> ~waiting_for_logout \/ ~orderly \/ foreign > 0

\* And in an orderly session it does so only if no report of another came.
OnlyQuietLogoutsEnd ==
    [][waiting_for_logout /\ ~waiting_for_logout' /\ orderly
          => foreign = 0]_vars
=============================================================================
