---------------------------- MODULE TopicManager ----------------------------
(***************************************************************************)
(* impl/stomp/TopicManager.java and Topic.java: which topics exist, which  *)
(* topic a subscription id stands for, and per topic the map from          *)
(* subscription id to connection id.  Topic.topic, the log of messages, is *)
(* written and never read; it is left out.                                 *)
(***************************************************************************)
EXTENDS StompTypes

VARIABLES
    topic_list,      \* names of the Topic objects created so far
    user_topic,      \* subscription id -> topic name, NoTopic if absent
    user_client_id   \* per topic: subscription id -> connection, NoConn if absent

topicVars == <<topic_list, user_topic, user_client_id>>

TopicTypeOK ==
    /\ topic_list \in SUBSET Topics
    /\ user_topic \in [SubIds -> Topics \cup {NoTopic}]
    /\ user_client_id \in [Topics -> [SubIds -> Conns \cup {NoConn}]]

TopicInit ==
    /\ topic_list = {}
    /\ user_topic = [s \in SubIds |-> NoTopic]
    /\ user_client_id = [t \in Topics |-> [s \in SubIds |-> NoConn]]

-----------------------------------------------------------------------------
\* An integer no client ever chose as an id is in no map.
is_subscribed(n) ==
    /\ n \in SubIds
    /\ user_topic[n] \in topic_list
    /\ user_client_id[user_topic[n]][n] # NoConn

\* The entries of a topic's tree, by their ids.
get_subscribed_vector(t) == {s \in SubIds : user_client_id[t][s] # NoConn}

get_list_of_users_subscribed_to_topic(t) ==
    {user_client_id[t][s] : s \in SubIds} \ {NoConn}

\* The global map forgets what the id stood for; the topic keeps the holder
\* it already has for this id.
subscribe(t, s, c) ==
    /\ topic_list' = topic_list \cup {t}
    /\ user_topic' = [user_topic EXCEPT ![s] = t]
    /\ user_client_id' =
         [user_client_id EXCEPT ![t][s] = IF @ = NoConn THEN c ELSE @]

\* Topic.unsubscribe removes the entry whose KEY is the connection id it has
\* just looked up, not the entry of the subscription id.
unsubscribe(s) ==
    LET t == user_topic[s]
        key == user_client_id[t][s]
    IN  /\ user_topic' = [user_topic EXCEPT ![s] = NoTopic]
        /\ user_client_id' =
             [user_client_id EXCEPT ![t] = [i \in SubIds |->
                 IF i = key THEN NoConn ELSE user_client_id[t][i]]]
        /\ UNCHANGED topic_list

\* Seeded fault: nobody's entry is compared with the connection.
unsubscribe_everybody(c) ==
    /\ user_client_id' = [t \in Topics |-> [s \in SubIds |-> NoConn]]
    /\ UNCHANGED <<topic_list, user_topic>>

\* Drops the connection's entries in every topic; user_topic keeps its ids.
unsubscribe_user(c) ==
    /\ user_client_id' = [t \in Topics |-> [s \in SubIds |->
           IF user_client_id[t][s] = c THEN NoConn ELSE user_client_id[t][s]]]
    /\ UNCHANGED <<topic_list, user_topic>>
=============================================================================
