----------------------------- MODULE MCTpcServer -----------------------------
(***************************************************************************)
(* Values for model checking TpcServer.  The number a destination is       *)
(* parsed to, 7, is also a subscription id, so that the lookup which       *)
(* confuses the two can succeed; so is 1, a connection id, so that the     *)
(* removal which confuses those two can hit an entry.                      *)
(***************************************************************************)
EXTENDS TpcServer, TLC

MCTopicNumber == [t \in NumericTopics |-> 7]

-----------------------------------------------------------------------------
(* A run that starts with three clients who have logged in, one after the    *)
(* other, and joined the topic, the first under the largest id: no receipts  *)
(* were asked for, so the text of the last join is left behind.              *)

Member == CHOOSE f \in [Conns -> Users] : \A c, d \in Conns : c # d => f[c] # f[d]
Joined == 1 .. 3

SubscribedInit ==
    /\ password = [u \in Users |-> CHOOSE p \in Passwords : TRUE]
    /\ connected = [u \in Users |-> TRUE]
    /\ subscribed_topic_names = [u \in Users |-> NumericTopics]
    /\ user_client_connection = [c \in Conns |-> Member[c]]
    /\ topic_list = NumericTopics
    /\ user_topic = [s \in SubIds |-> CHOOSE t \in NumericTopics : TRUE]
    /\ user_client_id = [t \in Topics |-> [s \in SubIds |-> 4 - s]]
    /\ ClientMesssageQueues = [c \in Conns |-> <<>>]
    /\ commands = <<>>
    /\ recipt_message =
          Text("Joined channel", CHOOSE t \in NumericTopics : TRUE)
    /\ running_id = 3
    /\ connections = Joined
    /\ pc = [c \in Conns |-> "reading"]
    /\ response = [c \in Conns |-> "self"]
    /\ disconnect = [c \in Conns |-> FALSE]
    /\ fanout = [c \in Conns |-> NoFanOut(c)]
    /\ inbox = [c \in Conns |->
                  {[frame |-> Frame("CONNECTED", c), command |-> "self"]}]
    /\ received = 6
    /\ torn = FALSE
    /\ dismissed = [c \in Conns |-> FALSE]
    /\ disturbed = FALSE

SubscribedSpec == SubscribedInit /\ [][Next]_vars
=============================================================================
