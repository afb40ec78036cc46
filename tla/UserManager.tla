---------------------------- MODULE UserManager ----------------------------
(***************************************************************************)
(* impl/stomp/UserManager.java and UserRegister.java: the account data     *)
(* base and the map from a connection to the account it logged in as.      *)
(* The operations are called only from ResponseManager.generateResponse,   *)
(* which is synchronized, so each one is a step of that handler.           *)
(***************************************************************************)
EXTENDS StompTypes

VARIABLES
    password,                \* UserRegister.password, NoPassword if no account
    connected,               \* UserRegister.connected
    subscribed_topic_names,  \* UserRegister.subscribed_topic_names
    user_client_connection   \* connection id -> account, NoUser if no session

userVars == <<password, connected, subscribed_topic_names,
              user_client_connection>>

UserTypeOK ==
    /\ password \in [Users -> Passwords \cup {NoPassword}]
    /\ connected \in [Users -> BOOLEAN]
    /\ subscribed_topic_names \in [Users -> SUBSET Topics]
    /\ user_client_connection \in [Conns -> Users \cup {NoUser}]

UserInit ==
    /\ password = [u \in Users |-> NoPassword]
    /\ connected = [u \in Users |-> FALSE]
    /\ subscribed_topic_names = [u \in Users |-> {}]
    /\ user_client_connection = [c \in Conns |-> NoUser]

-----------------------------------------------------------------------------
user_exists(u) == password[u] # NoPassword
is_user_connected(u) == connected[u]
isPasswordFittingToUser(u, p) == password[u] = p
is_client_user_connected(c) == user_client_connection[c] # NoUser
getSubScribedTopicNames(c) == subscribed_topic_names[user_client_connection[c]]
is_user_subscribed_to_topic(t, c) == t \in getSubScribedTopicNames(c)

\* Who holds an account: nobody, the connection with a session of it, or, once
\* that connection has logged in to another account, no connection at all.
account_owner(u) ==
    IF ~connected[u] THEN NoUser
    ELSE IF \E c \in Conns : user_client_connection[c] = u
         THEN CHOOSE c \in Conns : user_client_connection[c] = u
         ELSE NoConn

\* Seeded fault: a second login of a connected account passes.
check_connect_password_only(u, p) ==
    ~user_exists(u) \/ isPasswordFittingToUser(u, p)

\* check_connect_conditions creates an unknown account, with the password the
\* client brought; a known one must be logged out and the password must fit.
check_connect_conditions(u, p) ==
    \/ ~user_exists(u)
    \/ ~is_user_connected(u) /\ isPasswordFittingToUser(u, p)

\* CreateUser if the account is new, then user_connect.
connect_user(c, u, p) ==
    /\ password' = IF user_exists(u) THEN password
                                     ELSE [password EXCEPT ![u] = p]
    /\ connected' = [connected EXCEPT ![u] = TRUE]
    /\ user_client_connection' = [user_client_connection EXCEPT ![c] = u]
    /\ UNCHANGED subscribed_topic_names

\* Names are only ever added to a user's list.
subscribe_current_user(t, c) ==
    /\ subscribed_topic_names' =
         [subscribed_topic_names EXCEPT ![user_client_connection[c]] = @ \cup {t}]
    /\ UNCHANGED <<password, connected, user_client_connection>>

\* Seeded fault: the session stays in the map.
user_disconnect_keeping_session(c) ==
    /\ connected' = [connected EXCEPT ![user_client_connection[c]] = FALSE]
    /\ UNCHANGED <<password, subscribed_topic_names, user_client_connection>>

user_disconnect(c) ==
    /\ connected' = [connected EXCEPT ![user_client_connection[c]] = FALSE]
    /\ user_client_connection' = [user_client_connection EXCEPT ![c] = NoUser]
    /\ UNCHANGED <<password, subscribed_topic_names>>
=============================================================================
