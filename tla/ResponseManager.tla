--------------------------- MODULE ResponseManager ---------------------------
(***************************************************************************)
(* impl/stomp/ResponseManager.java: generateResponse turns one request     *)
(* into changes of the accounts and topics, frames in the requester's own  *)
(* queue and command strings in ONE list shared by all handler threads.    *)
(* generateResponse holds the manager's monitor, so a request is a single  *)
(* action.  A request the checks accept is one of Connect, Send,           *)
(* Subscribe, Unsubscribe, Disconnect; one they refuse is Refuse.  Six     *)
(* more actions end in an exception that leaves the handler thread through *)
(* process(); what they had already changed stays changed.                 *)
(***************************************************************************)
EXTENDS UserManager, TopicManager

VARIABLES
    ClientMesssageQueues,  \* connection id -> frames not yet fetched
    commands,              \* the shared list of command strings
    recipt_message         \* text for the next receipt, whoever it is for

responseVars == <<ClientMesssageQueues, commands, recipt_message>>
managerVars == <<userVars, topicVars, responseVars>>

ResponseTypeOK ==
    /\ ClientMesssageQueues \in [Conns -> Seq(Frames)]
    /\ commands \in Seq(Commands)
    /\ recipt_message \in ReciptTexts

ResponseInit ==
    /\ ClientMesssageQueues = [c \in Conns |-> <<>>]
    /\ commands = <<>>
    /\ recipt_message = EmptyText

-----------------------------------------------------------------------------
\* Seeded fault: the receipt's command goes ahead of the request's own.
RespondReceiptFirst(c, frames, cmds, text, receipt) ==
    /\ ClientMesssageQueues' = [ClientMesssageQueues EXCEPT
           ![c] = @ \o frames \o
                  (IF receipt THEN <<ReciptFrame(c, text)>> ELSE <<>>)]
    /\ commands' = commands \o (IF receipt THEN <<"self">> ELSE <<>>) \o cmds
    /\ recipt_message' = IF receipt THEN EmptyText ELSE text

\* Seeded fault: the text of a receipt stays for the next one.
RespondKeepingText(c, frames, cmds, text, receipt) ==
    /\ ClientMesssageQueues' = [ClientMesssageQueues EXCEPT
           ![c] = @ \o frames \o
                  (IF receipt THEN <<ReciptFrame(c, text)>> ELSE <<>>)]
    /\ commands' = commands \o cmds \o (IF receipt THEN <<"self">> ELSE <<>>)
    /\ recipt_message' = text

\* The end of generateResponse: the frames and commands of the request, and,
\* if the request carries a receipt header, the receipt with the text that is
\* in recipt_message by now (a request without one leaves the text behind).
Respond(c, frames, cmds, text, receipt) ==
    IF receipt
    THEN /\ ClientMesssageQueues' = [ClientMesssageQueues EXCEPT
                ![c] = @ \o frames \o <<ReciptFrame(c, text)>>]
         /\ commands' = commands \o cmds \o <<"self">>
         /\ recipt_message' = EmptyText
    ELSE /\ ClientMesssageQueues' = [ClientMesssageQueues EXCEPT
                ![c] = @ \o frames]
         /\ commands' = commands \o cmds
         /\ recipt_message' = text

Text(verb, t) == [verb |-> verb, topic |-> t]

-----------------------------------------------------------------------------
Connect(c, u, p, receipt) ==
    /\ check_connect_conditions(u, p)
    /\ connect_user(c, u, p)
    /\ Respond(c, <<Frame("CONNECTED", c)>>, <<"self">>, recipt_message, receipt)
    /\ UNCHANGED topicVars

\* Seeded fault: any client that is logged in may send to any topic.
check_send_login_only(c, t) == is_client_user_connected(c)

check_send_conditions(c, t) ==
    is_client_user_connected(c) /\ is_user_subscribed_to_topic(t, c)

Send(c, t, receipt) ==
    /\ check_send_conditions(c, t)
    /\ Respond(c, <<MessageFrame(c, t)>>, <<t>>,
               Text("report works!", NoTopic), receipt)
    /\ UNCHANGED <<userVars, topicVars>>

\* The check parses the DESTINATION as the subscription id it looks up.
check_subscribe_conditions(t) ==
    t \in NumericTopics /\ ~is_subscribed(TopicNumber[t])

Subscribe(c, t, s, receipt) ==
    /\ check_subscribe_conditions(t)
    /\ is_client_user_connected(c)
    /\ subscribe(t, s, c)
    /\ subscribe_current_user(t, c)
    /\ Respond(c, <<>>, <<>>, Text("Joined channel", t), receipt)

\* Nothing compares the id's holder with the requester.
check_unsubscribe_conditions(s) == is_subscribed(s)

\* Seeded fault: the commented-out commands.add("self") is back.
UnsubscribeWithCommand(c, s, receipt) ==
    /\ check_unsubscribe_conditions(s)
    /\ unsubscribe(s)
    /\ Respond(c, <<>>, <<"self">>, Text("Exited channel", user_topic[s]), receipt)
    /\ UNCHANGED userVars

Unsubscribe(c, s, receipt) ==
    /\ check_unsubscribe_conditions(s)
    /\ unsubscribe(s)
    /\ Respond(c, <<>>, <<>>, Text("Exited channel", user_topic[s]), receipt)
    /\ UNCHANGED userVars

\* Seeded fault: the subscriptions stay.
DisconnectSubscribed(c) ==
    /\ is_client_user_connected(c)
    /\ user_disconnect(c)
    /\ Respond(c, <<>>, <<"disconnect">>, recipt_message, TRUE)
    /\ UNCHANGED topicVars

disconnect_client(c, receipt) ==
    /\ is_client_user_connected(c)
    /\ unsubscribe_user(c)
    /\ user_disconnect(c)
    /\ Respond(c, <<>>, <<"disconnect">>, recipt_message, receipt)

\* check_disconnect_conditions insists on a receipt header.
Disconnect(c) == disconnect_client(c, TRUE)

\* Seeded fault: the command is spelled like the frame.
RefuseInCapitals(c) ==
    /\ is_client_user_connected(c)
    /\ Respond(c, <<Frame("ERROR", c)>>, <<"ERROR">>, recipt_message, FALSE)
    /\ IF getSubScribedTopicNames(c) = {} THEN UNCHANGED topicVars
                                          ELSE unsubscribe_user(c)
    /\ user_disconnect(c)

\* Any request a check turns down; one with an unknown command always is.
\* The account is logged out and, if its list of topics is not empty, the
\* connection's subscriptions are dropped.
Refuse(c) ==
    /\ is_client_user_connected(c)
    /\ Respond(c, <<Frame("ERROR", c)>>, <<"Error">>, recipt_message, FALSE)
    /\ IF getSubScribedTopicNames(c) = {} THEN UNCHANGED topicVars
                                          ELSE unsubscribe_user(c)
    /\ user_disconnect(c)

-----------------------------------------------------------------------------
\* The same without a session: the frame and the command are queued, then
\* getSubScribedTopicNames dereferences null.
RefuseStranger(c) ==
    /\ ~is_client_user_connected(c)
    /\ Respond(c, <<Frame("ERROR", c)>>, <<"Error">>, recipt_message, FALSE)
    /\ UNCHANGED <<userVars, topicVars>>

\* A request that makes the parsing or the check throw before anything changes:
\* no command word, a missing header, a SUBSCRIBE whose destination or an
\* UNSUBSCRIBE whose id is no number.
Unparsable == UNCHANGED managerVars

\* SUBSCRIBE to a number with such an id: the text is set, then valueOf throws.
UnparsableId(t) ==
    /\ check_subscribe_conditions(t)
    /\ recipt_message' = Text("Joined channel", t)
    /\ UNCHANGED <<userVars, topicVars, ClientMesssageQueues, commands>>

\* Without a session the subscription is entered before user.subscribe
\* dereferences null.
SubscribeStranger(c, t, s) ==
    /\ check_subscribe_conditions(t)
    /\ ~is_client_user_connected(c)
    /\ subscribe(t, s, c)
    /\ recipt_message' = Text("Joined channel", t)
    /\ UNCHANGED <<userVars, ClientMesssageQueues, commands>>

\* The request has been carried out, but for its receipt: "recipt" is the end of
\* its last line, and extractDetail finds no line end behind it.
ReceiptThrows(c) ==
    \/ \E u \in Users, p \in Passwords : Connect(c, u, p, FALSE)
    \/ \E t \in Topics : Send(c, t, FALSE)
    \/ \E t \in Topics, s \in SubIds : Subscribe(c, t, s, FALSE)
    \/ \E s \in SubIds : Unsubscribe(c, s, FALSE)
    \/ disconnect_client(c, FALSE)

\* Without a session user_disconnect dereferences null after the connection's
\* subscriptions are gone.
DisconnectStranger(c) ==
    /\ ~is_client_user_connected(c)
    /\ unsubscribe_user(c)
    /\ UNCHANGED <<userVars, responseVars>>

-----------------------------------------------------------------------------
\* send_to_channel in two steps, isEmpty and remove(0), with no lock around.
no_command == commands = <<>>
peek_command == UNCHANGED commands   \* seeded fault: get(0)
take_command == commands' = Tail(commands)

\* get_queued_message: the frame the caller finds in its OWN queue, or null.
queued_message(c) == IF ClientMesssageQueues[c] = <<>> THEN NullFrame(c)
                     ELSE Head(ClientMesssageQueues[c])
get_queued_message(c) ==
    ClientMesssageQueues' = [ClientMesssageQueues EXCEPT
        ![c] = IF @ = <<>> THEN @ ELSE Tail(@)]
=============================================================================
