--------------------------- MODULE ClientChannels ---------------------------
(***************************************************************************)
(* The channels of the C++ client against the server's topics.  Each       *)
(* client (one connection, one account, one User object) keeps a map from  *)
(* channel to subscription id, draws the id of a join from a generator     *)
(* seeded with the second, and sends its requests in order.  The server    *)
(* handles them with the operations of ResponseManager; the commands of a  *)
(* request are carried out before the next request is taken (what goes     *)
(* wrong otherwise is the subject of TpcServer).                           *)
(***************************************************************************)
EXTENDS ResponseManager, SequencesExt, FiniteSets

CONSTANTS
    Account,      \* the account a connection logs in to
    MaxSecond,    \* bound: seconds in a run
    MaxCommands   \* bound: commands the clients type after login

Seconds == 1 .. MaxSecond

\* rand() after srand(time): a function of the second.  Such a number is
\* neither a connection id nor the number of a channel.
rand_of(second) == 1000 + second

ASSUME ChannelAssumption ==
    /\ Account \in [Conns -> Users]
    /\ \A c, d \in Conns : Account[c] = Account[d] => c = d
    /\ MaxSecond \in Nat \ {0} /\ MaxCommands \in Nat
    /\ SubIds = {rand_of(n) : n \in Seconds}
    /\ SubIds \cap Conns = {}
    /\ \A t \in NumericTopics : TopicNumber[t] \notin SubIds

VARIABLES
    topic_idByClient_map,  \* User: channel -> subscription id, NoId if absent
    uplink,                \* requests of a client not yet handled
    link,                  \* the connection: "new", "up", "thrown" or "down"
    serving,               \* whose commands are carried out
    second,                \* the clock
    typed,                 \* commands typed so far
    asked,                 \* history: the text each receipt should bring
    receipts,              \* history: the texts of the receipts that came
    drawn,                 \* history: ids drawn so far
    apart                  \* history: no id was drawn twice

clientVars == <<topic_idByClient_map, uplink, second, typed, asked, drawn, apart>>
vars == <<managerVars, clientVars, link, serving, receipts>>

NoId == -1   \* what unsubscribeTopic returns for a channel it does not find

Request(kind, t, s) == [kind |-> kind, topic |-> t, id |-> s]

Init ==
    /\ UserInit /\ TopicInit /\ ResponseInit
    /\ topic_idByClient_map = [c \in Conns |-> [t \in Topics |-> NoId]]
    /\ uplink = [c \in Conns |-> <<>>]
    /\ link = [c \in Conns |-> "new"]
    /\ serving = 1
    /\ second = 1
    /\ typed = 0
    /\ asked = [c \in Conns |-> <<>>]
    /\ receipts = [c \in Conns |-> <<>>]
    /\ drawn = {}
    /\ apart = TRUE

-----------------------------------------------------------------------------
(* The client.                                                              *)

send(c, r) == uplink' = [uplink EXCEPT ![c] = Append(@, r)]

\* create_connect: the only request without a receipt header.
Login(c) ==
    /\ link[c] = "new"
    /\ link' = [link EXCEPT ![c] = "up"]
    /\ send(c, Request("CONNECT", NoTopic, NoId))
    /\ UNCHANGED <<managerVars, topic_idByClient_map, serving, second, typed,
                   asked, receipts, drawn, apart>>

\* The keyboard is shut from a logout on.
waiting_for_logout(c) == asked[c] # <<>> /\ Last(asked[c]) = EmptyText

type_command(c) ==
    /\ link[c] = "up"
    /\ ~waiting_for_logout(c)
    /\ typed < MaxCommands
    /\ typed' = typed + 1
    /\ UNCHANGED <<managerVars, link, serving, second, receipts>>

ask(c, r, text) ==
    /\ send(c, r)
    /\ asked' = [asked EXCEPT ![c] = Append(@, text)]

\* insert: an entry that is there stays.
subscribeTopic(c, t, s) ==
    topic_idByClient_map' =
        [topic_idByClient_map EXCEPT ![c][t] = IF @ = NoId THEN s ELSE @]

\* Seeded fault: the entry stays.
unsubscribeTopic_keeping(c, t) == UNCHANGED topic_idByClient_map

unsubscribeTopic(c, t) ==
    topic_idByClient_map' = [topic_idByClient_map EXCEPT ![c][t] = NoId]

Join(c, t) ==
    LET s == rand_of(second)
    IN  /\ type_command(c)
        /\ subscribeTopic(c, t, s)
        /\ ask(c, Request("SUBSCRIBE", t, s), Text("Joined channel", t))
        /\ drawn' = drawn \cup {s}
        /\ apart' = (apart /\ s \notin drawn)

Exit(c, t) ==
    /\ type_command(c)
    /\ unsubscribeTopic(c, t)
    /\ ask(c, Request("UNSUBSCRIBE", NoTopic, topic_idByClient_map[c][t]),
           Text("Exited channel", t))
    /\ UNCHANGED <<drawn, apart>>

Report(c, t) ==
    /\ type_command(c)
    /\ ask(c, Request("SEND", t, NoId), Text("report works!", NoTopic))
    /\ UNCHANGED <<topic_idByClient_map, drawn, apart>>

Logout(c) ==
    /\ type_command(c)
    /\ ask(c, Request("DISCONNECT", NoTopic, NoId), EmptyText)
    /\ UNCHANGED <<topic_idByClient_map, drawn, apart>>

Tick ==
    /\ second < MaxSecond
    /\ second' = second + 1
    /\ UNCHANGED <<managerVars, topic_idByClient_map, uplink, typed, asked,
                   drawn, apart, link, serving, receipts>>

-----------------------------------------------------------------------------
(* The server.                                                              *)

request(c) == Head(uplink[c])

take_request(c, kind) ==
    /\ link[c] = "up"
    /\ no_command
    /\ uplink[c] # <<>>
    /\ request(c).kind = kind
    /\ uplink' = [uplink EXCEPT ![c] = Tail(@)]
    /\ serving' = c
    /\ UNCHANGED <<topic_idByClient_map, second, typed, asked, receipts, drawn,
                   apart>>

Accept(c) ==
    /\ UNCHANGED link
    /\ \/ /\ take_request(c, "CONNECT")
          /\ \E p \in Passwords : Connect(c, Account[c], p, FALSE)
       \/ /\ take_request(c, "SEND")
          /\ Send(c, request(c).topic, TRUE)
       \/ /\ take_request(c, "SUBSCRIBE")
          /\ Subscribe(c, request(c).topic, request(c).id, TRUE)
       \/ /\ take_request(c, "UNSUBSCRIBE")
          /\ Unsubscribe(c, request(c).id, TRUE)
       \/ /\ take_request(c, "DISCONNECT")
          /\ Disconnect(c)

TurnDown(c) ==
    /\ \/ /\ take_request(c, "SEND")
          /\ ~check_send_conditions(c, request(c).topic)
       \/ /\ take_request(c, "UNSUBSCRIBE")
          /\ ~check_unsubscribe_conditions(request(c).id)
    /\ Refuse(c)
    /\ UNCHANGED link

\* A channel with a name: Integer.valueOf throws, which ends the handler.
CutOff(c) ==
    /\ take_request(c, "SUBSCRIBE")
    /\ request(c).topic \notin NumericTopics
    /\ Unparsable
    /\ link' = [link EXCEPT ![c] = "thrown"]

-----------------------------------------------------------------------------
(* process(): the commands of the request.                                  *)

carry_out(kinds) ==
    /\ ~no_command
    /\ Head(commands) \in kinds
    /\ take_command
    /\ UNCHANGED <<userVars, topicVars, recipt_message, clientVars, serving>>

\* "self", or a channel: the sender gets what it sent like the others.
\* The report to the others is left out.
CarryOutFrame ==
    LET frame == queued_message(serving)
    IN  /\ carry_out({"self"} \cup Topics)
        /\ get_queued_message(serving)
        /\ receipts' = IF frame.kind = "RECIPT"
                       THEN [receipts EXCEPT ![serving] = Append(@, frame.text)]
                       ELSE receipts
        /\ UNCHANGED link

CarryOutError ==
    /\ carry_out({"Error"})
    /\ get_queued_message(serving)
    /\ link' = [link EXCEPT ![serving] = "down"]
    /\ UNCHANGED receipts

\* The flag only: the receipt of the DISCONNECT has a command of its own.
CarryOutDisconnect ==
    /\ carry_out({"disconnect"})
    /\ link' = [link EXCEPT ![serving] = "down"]
    /\ UNCHANGED <<ClientMesssageQueues, receipts>>

-----------------------------------------------------------------------------
Client(c) ==
    \/ Login(c)
    \/ \E t \in Topics : Join(c, t) \/ Exit(c, t) \/ Report(c, t)
    \/ Logout(c)

Server(c) == Accept(c) \/ TurnDown(c) \/ CutOff(c)

Next ==
    \/ \E c \in Conns : Client(c) \/ Server(c)
    \/ CarryOutFrame \/ CarryOutError \/ CarryOutDisconnect
    \/ Tick

Spec == Init /\ [][Next]_vars
-----------------------------------------------------------------------------
\* Channels of c by the last receipt about each.
member_of(c) ==
    {t \in Topics : \E i \in DOMAIN receipts[c] :
        /\ receipts[c][i] = Text("Joined channel", t)
        /\ \A j \in i + 1 .. Len(receipts[c]) :
              receipts[c][j] # Text("Exited channel", t)}

\* Nothing is under way between the client and the server.
settled(c) == link[c] = "up" /\ receipts[c] = asked[c]

subscribers(t) == get_list_of_users_subscribed_to_topic(t)

\* Where no id was drawn twice, every receipt tells the client about its own
\* request: the text is kept in one field of the shared manager until some
\* request with a receipt header takes it (ResponseManager.java:18, 165, 199).
OwnReceipts == apart => \A c \in Conns : IsPrefix(receipts[c], asked[c])

\* And a client that has been told it joined a channel, and not that it left,
\* is one of the topic's subscribers (User.subscribeTopic, Topic.subscribe).
ApartMembersSubscribed ==
    apart => \A c \in Conns : settled(c) =>
                 \A t \in member_of(c) : c \in subscribers(t)

\* And its own map has an id that stands for that channel at the server, so
\* that exit is neither refused nor the exit from another channel
\* (User.unsubscribeTopic, TopicManager.unsubscribe).
ExitsAreKnown ==
    apart => \A c \in Conns : settled(c) =>
                 \A t \in member_of(c) :
                     user_topic[topic_idByClient_map[c][t]] = t
=============================================================================
