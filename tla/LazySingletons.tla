--------------------------- MODULE LazySingletons ---------------------------
(***************************************************************************)
(* The managers of the server are created by the first call that asks for  *)
(* them: if the static field is null then create, without a lock.  Here    *)
(* connections log in to one account and out again while that happens.     *)
(* generateResponse is synchronized, but on the ResponseManager it was     *)
(* called on, and UserManager relies on that.  Reads of the static fields  *)
(* are taken to see the last write.                                        *)
(***************************************************************************)
EXTENDS Integers, Sequences

CONSTANTS
    Threads,    \* the threads, one for each connection
    NoThread    \* nobody holds a monitor

ASSUME SingletonAssumption == NoThread \notin Threads

VARIABLES
    responsemanager,  \* the static field: the number of the instance, 0 if null
    monitor,          \* who is in generateResponse, for each instance made
    queues,           \* <<instance, thread>>: its ClientMesssageQueues has one
    commands,         \* <<instance, thread, command>> in its command list
    usermanager,      \* the static field
    registers,        \* how often the account is in user_data_base, by instance
    connected,        \* <<instance, n>>: its nth register is connected
    sessions,         \* <<instance, n, thread>> in user_client_connection
    request,          \* what the connection has sent last
    mine,             \* the ResponseManager generateResponse is called on
    pc

managerVars == <<responsemanager, monitor, queues, commands>>
userVars == <<usermanager, registers, connected, sessions>>
vars == <<managerVars, userVars, request, mine, pc>>

TypeOK ==
    /\ monitor \in Seq(Threads \cup {NoThread})
    /\ responsemanager \in 0 .. Len(monitor)
    /\ queues \subseteq (1 .. Len(monitor)) \X Threads
    /\ commands \subseteq (1 .. Len(monitor)) \X Threads
                          \X {"CONNECTED", "Error", "disconnect", "RECIPT"}
    /\ registers \in Seq(Nat)
    /\ usermanager \in 0 .. Len(registers)
    /\ connected \subseteq (1 .. Len(registers)) \X Nat
    /\ sessions \subseteq (1 .. Len(registers)) \X Nat \X Threads
    /\ request \in [Threads -> {"CONNECT", "DISCONNECT"}]
    /\ mine \in [Threads -> 0 .. Len(monitor)]
    /\ pc \in [Threads -> {"idle", "check", "create", "fetch", "enter",
                           "check users", "create users", "look", "add",
                           "login", "logout", "drain", "send", "done", "dead"}]

Init ==
    /\ responsemanager = 0 /\ monitor = <<>>
    /\ queues = {} /\ commands = {}
    /\ usermanager = 0 /\ registers = <<>>
    /\ connected = {} /\ sessions = {}
    /\ request = [t \in Threads |-> "CONNECT"]
    /\ mine = [t \in Threads |-> 0]
    /\ pc = [t \in Threads |-> "idle"]

-----------------------------------------------------------------------------
goto(t, place) == pc' = [pc EXCEPT ![t] = place]

\* process: a frame has come.
Receive(t) ==
    /\ pc[t] = "idle"
    /\ goto(t, "check")
    /\ UNCHANGED <<managerVars, userVars, request, mine>>

\* get_response_manager: the test, the assignment and the read of the field.
\* Seeded fault: it is created anew for each request.
CheckAndCreate(t) ==
    /\ pc[t] = "check"
    /\ goto(t, "create")
    /\ UNCHANGED <<managerVars, userVars, request, mine>>

Check(t) ==
    /\ pc[t] = "check"
    /\ goto(t, IF responsemanager = 0 THEN "create" ELSE "fetch")
    /\ UNCHANGED <<managerVars, userVars, request, mine>>

Create(t) ==
    /\ pc[t] = "create"
    /\ monitor' = Append(monitor, NoThread)
    /\ responsemanager' = Len(monitor')
    /\ goto(t, "fetch")
    /\ UNCHANGED <<queues, commands, userVars, request, mine>>

Fetch(t) ==
    /\ pc[t] = "fetch"
    /\ mine' = [mine EXCEPT ![t] = responsemanager]
    /\ goto(t, "enter")
    /\ UNCHANGED <<managerVars, userVars, request>>

\* Seeded fault: generateResponse is not synchronized.
EnterAnyway(t) ==
    /\ pc[t] = "enter"
    /\ monitor' = [monitor EXCEPT ![mine[t]] = t]
    /\ queues' = queues \cup {<<mine[t], t>>}
    /\ goto(t, IF request[t] = "CONNECT" THEN "check users" ELSE "logout")
    /\ UNCHANGED <<responsemanager, commands, userVars, request, mine>>

\* generateResponse; the connection gets a queue.
Enter(t) ==
    /\ pc[t] = "enter"
    /\ monitor[mine[t]] = NoThread
    /\ monitor' = [monitor EXCEPT ![mine[t]] = t]
    /\ queues' = queues \cup {<<mine[t], t>>}
    /\ goto(t, IF request[t] = "CONNECT" THEN "check users" ELSE "logout")
    /\ UNCHANGED <<responsemanager, commands, userVars, request, mine>>

\* The end of generateResponse, with these commands added.
leave(t, new, place) ==
    /\ monitor' = [monitor EXCEPT ![mine[t]] = NoThread]
    /\ commands' = commands \cup {<<mine[t], t, command>> : command \in new}
    /\ goto(t, place)
    /\ UNCHANGED <<responsemanager, queues, request, mine>>

\* get_user_manager, called first by check_connect_conditions.
CheckUsers(t) ==
    /\ pc[t] = "check users"
    /\ goto(t, IF usermanager = 0 THEN "create users" ELSE "look")
    /\ UNCHANGED <<managerVars, userVars, request, mine>>

CreateUsers(t) ==
    /\ pc[t] = "create users"
    /\ registers' = Append(registers, 0)
    /\ usermanager' = Len(registers')
    /\ goto(t, "look")
    /\ UNCHANGED <<managerVars, connected, sessions, request, mine>>

\* check_connect_conditions: an account that is not there is added, one that is
\* connected is refused, and the refused connection, which has no session to
\* end, throws.  The first register with the name is the one looked at.
Look(t) ==
    /\ pc[t] = "look"
    /\ IF registers[usermanager] = 0
       THEN goto(t, "add") /\ UNCHANGED <<managerVars, request, mine>>
       ELSE IF <<usermanager, 1>> \in connected
       THEN leave(t, {"Error"}, "dead")
       ELSE goto(t, "login") /\ UNCHANGED <<managerVars, request, mine>>
    /\ UNCHANGED userVars

\* CreateUser.
Add(t) ==
    /\ pc[t] = "add"
    /\ registers' = [registers EXCEPT ![usermanager] = @ + 1]
    /\ goto(t, "login")
    /\ UNCHANGED <<managerVars, usermanager, connected, sessions, request, mine>>

\* Seeded fault: the register stays as it was.
LoginUnmarked(t) ==
    /\ pc[t] = "login"
    /\ registers[usermanager] > 0
    /\ sessions' = sessions
                   \cup {<<usermanager, registers[usermanager], t>>}
    /\ leave(t, {"CONNECTED"}, "drain")
    /\ UNCHANGED <<usermanager, registers, connected>>

\* user_connect of the last register with the name, and the reply; in a manager
\* that does not have the account it throws.
Login(t) ==
    /\ pc[t] = "login"
    /\ LET register == <<usermanager, registers[usermanager]>>
       IN  IF registers[usermanager] = 0
           THEN leave(t, {}, "dead") /\ UNCHANGED <<connected, sessions>>
           ELSE /\ connected' = connected \cup {register}
                /\ sessions' = sessions \cup {<<register[1], register[2], t>>}
                /\ leave(t, {"CONNECTED"}, "drain")
    /\ UNCHANGED <<usermanager, registers>>

\* user_disconnect, which throws without a session, and the receipt.
Logout(t) ==
    /\ pc[t] = "logout"
    /\ \/ \E n \in 1 .. registers[usermanager] :
             /\ <<usermanager, n, t>> \in sessions
             /\ sessions' = sessions \ {<<usermanager, n, t>>}
             /\ connected' = connected \ {<<usermanager, n>>}
             /\ leave(t, {"disconnect", "RECIPT"}, "drain")
       \/ /\ \A n \in 1 .. registers[usermanager] :
                <<usermanager, n, t>> \notin sessions
          /\ leave(t, {}, "dead")
          /\ UNCHANGED <<sessions, connected>>
    /\ UNCHANGED <<usermanager, registers>>

\* send_to_channel, of the manager there is now: a command, whoever added it.
Take(t) ==
    /\ pc[t] = "drain"
    /\ \E entry \in commands :
          /\ entry[1] = responsemanager
          /\ commands' = commands \ {entry}
          /\ goto(t, IF entry[3] = "disconnect" THEN "drain" ELSE "send")
    /\ UNCHANGED <<responsemanager, monitor, queues, userVars, request, mine>>

\* get_queued_message throws if the manager there is now has no queue for the
\* connection.
SendReply(t) ==
    /\ pc[t] = "send"
    /\ goto(t, IF <<responsemanager, t>> \in queues THEN "drain" ELSE "dead")
    /\ UNCHANGED <<managerVars, userVars, request, mine>>

next_request(t) ==
    /\ request' = [request EXCEPT ![t] = "DISCONNECT"]
    /\ goto(t, IF request[t] = "CONNECT" THEN "idle" ELSE "done")
    /\ UNCHANGED <<managerVars, userVars, mine>>

\* Seeded fault: one reply is enough.
StopEarly(t) == pc[t] = "drain" /\ next_request(t)

\* "empty": the request is processed; the logout is the connection's last.
Stop(t) ==
    /\ pc[t] = "drain"
    /\ \A entry \in commands : entry[1] # responsemanager
    /\ next_request(t)

Step(t) ==
    \/ Receive(t) \/ Check(t) \/ Create(t) \/ Fetch(t) \/ Enter(t)
    \/ CheckUsers(t) \/ CreateUsers(t) \/ Look(t) \/ Add(t)
    \/ Login(t) \/ Logout(t) \/ Take(t) \/ SendReply(t) \/ Stop(t)

Next == \E t \in Threads : Step(t)

Spec == Init /\ [][Next]_vars
-----------------------------------------------------------------------------
\* More than one ResponseManager has been made.
raced == Len(monitor) > 1

\* The users are not protected by a lock of their own, but as long as there is
\* one ResponseManager there is one UserManager, with the account once in it
\* (UserManagerSingleton, called under the lock of generateResponse).
OneUserManager ==
    ~raced => /\ Len(registers) <= 1
              /\ \A m \in DOMAIN registers : registers[m] <= 1

\* Nor do two connections get into the account (check_connect_conditions and
\* user_connect are two calls).
OneLogin ==
    ~raced => \A s1, s2 \in sessions : s1 = s2

\* What a request has added to the command list has been taken from it when its
\* thread waits for the next (the loop of process); with two managers it may
\* be in one that nobody asks any more.
RequestsCarriedOut ==
    ~raced => \A entry \in commands : pc[entry[2]] \notin {"idle", "done"}

no_thread_at(place) == \A t \in Threads : pc[t] # place

\* The race is that of the first requests: once a manager is there and no thread
\* is between the test and the assignment, none ever is there again, and the
\* manager is the one for the rest of the run.
RaceIsOver ==
    [][/\ responsemanager # 0 /\ no_thread_at("create")
             => responsemanager' = responsemanager /\ no_thread_at("create")'
       /\ usermanager # 0 /\ no_thread_at("create users")
             => usermanager' = usermanager /\ no_thread_at("create users")']_vars
=============================================================================
