--------------------------- MODULE TpcServerProofs ---------------------------
(***************************************************************************)
(* Proofs about TpcServer, for every set of accounts, topics and ids and   *)
(* every number of connections and requests.  The second part is about     *)
(* delivery: whom a broadcast reaches, what a dropped connection leaves    *)
(* behind, and that no command is without a frame.                         *)
(***************************************************************************)
EXTENDS TpcServer, FiniteSetTheorems, FunctionTheorems, SequenceTheorems, TLAPS

(* The values that go into a reply have their types. *)

\* A frame that StompMessageFactory makes is a frame.
LEMMA FrameType ==
    ASSUME NEW c \in Conns, NEW kind \in FrameKinds
    PROVE  Frame(kind, c) \in Frames
BY DEF Frame, MakeFrame, Frames, EmptyText, ReciptTexts

LEMMA MessageFrameType ==
    ASSUME NEW c \in Conns, NEW t \in Topics
    PROVE  MessageFrame(c, t) \in Frames
BY DEF MessageFrame, MakeFrame, Frames, FrameKinds, EmptyText, ReciptTexts

LEMMA ReciptFrameType ==
    ASSUME NEW c \in Conns, NEW text \in ReciptTexts
    PROVE  ReciptFrame(c, text) \in Frames
BY DEF ReciptFrame, MakeFrame, Frames, FrameKinds, EmptyText, ReciptTexts

LEMMA TextType ==
    ASSUME NEW verb \in {"", "report works!", "Joined channel", "Exited channel"},
           NEW t \in Topics \cup {NoTopic}
    PROVE  Text(verb, t) \in ReciptTexts
BY DEF Text, ReciptTexts

\* Respond keeps the queues, the command list and the text well typed.
LEMMA RespondType ==
    ASSUME NEW c \in Conns, NEW frames \in Seq(Frames),
           NEW cmds \in Seq(Commands), NEW text \in ReciptTexts,
           NEW receipt \in BOOLEAN,
           ResponseTypeOK, Respond(c, frames, cmds, text, receipt)
    PROVE  ResponseTypeOK'
<1>1. CASE receipt
  <2>1. <<ReciptFrame(c, text)>> \in Seq(Frames)
    BY ReciptFrameType
  <2>2. <<"self">> \in Seq(Commands)
    BY DEF Commands, ControlWords
  <2>3. /\ ClientMesssageQueues[c] \o frames \o <<ReciptFrame(c, text)>>
               \in Seq(Frames)
        /\ commands \o cmds \o <<"self">> \in Seq(Commands)
    BY <2>1, <2>2 DEF ResponseTypeOK
  <2>4. EmptyText \in ReciptTexts
    BY DEF EmptyText, ReciptTexts
  <2> QED
    BY <1>1, <2>3, <2>4 DEF Respond, ResponseTypeOK
<1>2. CASE ~receipt
  <2>1. /\ ClientMesssageQueues[c] \o frames \in Seq(Frames)
        /\ commands \o cmds \in Seq(Commands)
    BY DEF ResponseTypeOK
  <2> QED
    BY <1>2, <2>1 DEF Respond, ResponseTypeOK
<1> QED
  BY <1>1, <1>2

-----------------------------------------------------------------------------
(* The operations of the two managers keep their state well typed. *)

\* CreateUser and user_connect.
LEMMA ConnectUserType ==
    ASSUME NEW c \in Conns, NEW u \in Users, NEW p \in Passwords,
           UserTypeOK, connect_user(c, u, p)
    PROVE  UserTypeOK'
BY DEF UserTypeOK, connect_user

\* subscribe_current_user.
LEMMA SubscribeCurrentUserType ==
    ASSUME NEW c \in Conns, NEW t \in Topics, is_client_user_connected(c),
           UserTypeOK, subscribe_current_user(t, c)
    PROVE  UserTypeOK'
BY DEF UserTypeOK, subscribe_current_user, is_client_user_connected

\* user_disconnect.
LEMMA UserDisconnectType ==
    ASSUME NEW c \in Conns, is_client_user_connected(c),
           UserTypeOK, user_disconnect(c)
    PROVE  UserTypeOK'
BY DEF UserTypeOK, user_disconnect, is_client_user_connected

\* TopicManager.subscribe.
LEMMA SubscribeType ==
    ASSUME NEW c \in Conns, NEW t \in Topics, NEW s \in SubIds,
           TopicTypeOK, subscribe(t, s, c)
    PROVE  TopicTypeOK'
BY DEF TopicTypeOK, subscribe

\* TopicManager.unsubscribe.
LEMMA UnsubscribeType ==
    ASSUME NEW s \in SubIds, TopicTypeOK, unsubscribe(s)
    PROVE  TopicTypeOK'
BY DEF TopicTypeOK, unsubscribe

\* TopicManager.unsubscribe_user.
LEMMA UnsubscribeUserType ==
    ASSUME NEW c \in Conns, TopicTypeOK, unsubscribe_user(c)
    PROVE  TopicTypeOK'
BY DEF TopicTypeOK, unsubscribe_user

-----------------------------------------------------------------------------
(* Every request keeps the managers' state well typed. *)

ManagerTypeOK == UserTypeOK /\ TopicTypeOK /\ ResponseTypeOK

\* A step that leaves a component's variables alone leaves its type alone.
LEMMA UnchangedTypes ==
    /\ UserTypeOK /\ UNCHANGED userVars => UserTypeOK'
    /\ TopicTypeOK /\ UNCHANGED topicVars => TopicTypeOK'
    /\ ResponseTypeOK /\ UNCHANGED responseVars => ResponseTypeOK'
BY DEF UserTypeOK, userVars, TopicTypeOK, topicVars, ResponseTypeOK, responseVars

LEMMA ConnectType ==
    ASSUME NEW c \in Conns, NEW u \in Users, NEW p \in Passwords,
           NEW r \in BOOLEAN, ManagerTypeOK, Connect(c, u, p, r)
    PROVE  ManagerTypeOK'
<1>1. UserTypeOK'
  BY ConnectUserType DEF ManagerTypeOK, Connect
<1>2. TopicTypeOK'
  BY UnchangedTypes DEF ManagerTypeOK, Connect
<1>3. ResponseTypeOK'
  <2>1. <<Frame("CONNECTED", c)>> \in Seq(Frames)
    BY FrameType DEF FrameKinds
  <2>2. <<"self">> \in Seq(Commands)
    BY DEF Commands, ControlWords
  <2>3. recipt_message \in ReciptTexts
    BY DEF ManagerTypeOK, ResponseTypeOK
  <2>4. ResponseTypeOK /\ Respond(c, <<Frame("CONNECTED", c)>>, <<"self">>,
                                  recipt_message, r)
    BY DEF ManagerTypeOK, Connect
  <2> QED
    BY <2>1, <2>2, <2>3, <2>4, RespondType
<1> QED
  BY <1>1, <1>2, <1>3 DEF ManagerTypeOK

LEMMA SendType ==
    ASSUME NEW c \in Conns, NEW t \in Topics, NEW r \in BOOLEAN,
           ManagerTypeOK, Send(c, t, r)
    PROVE  ManagerTypeOK'
<1>1. UserTypeOK' /\ TopicTypeOK'
  BY UnchangedTypes DEF ManagerTypeOK, Send
<1>2. ResponseTypeOK'
  <2>1. <<MessageFrame(c, t)>> \in Seq(Frames)
    BY MessageFrameType
  <2>2. <<t>> \in Seq(Commands)
    BY DEF Commands
  <2>3. Text("report works!", NoTopic) \in ReciptTexts
    BY TextType
  <2>4. ResponseTypeOK /\ Respond(c, <<MessageFrame(c, t)>>, <<t>>,
                                  Text("report works!", NoTopic), r)
    BY DEF ManagerTypeOK, Send
  <2> QED
    BY <2>1, <2>2, <2>3, <2>4, RespondType
<1> QED
  BY <1>1, <1>2 DEF ManagerTypeOK

LEMMA SubscribeRequestType ==
    ASSUME NEW c \in Conns, NEW t \in Topics, NEW s \in SubIds,
           NEW r \in BOOLEAN, ManagerTypeOK, Subscribe(c, t, s, r)
    PROVE  ManagerTypeOK'
<1>1. UserTypeOK'
  BY SubscribeCurrentUserType DEF ManagerTypeOK, Subscribe
<1>2. TopicTypeOK'
  BY SubscribeType DEF ManagerTypeOK, Subscribe
<1>3. ResponseTypeOK'
  <2>1. Text("Joined channel", t) \in ReciptTexts
    BY TextType
  <2>2. ResponseTypeOK /\ Respond(c, <<>>, <<>>, Text("Joined channel", t), r)
    BY DEF ManagerTypeOK, Subscribe
  <2>3. <<>> \in Seq(Frames) /\ <<>> \in Seq(Commands)
    OBVIOUS
  <2> QED
    BY <2>1, <2>2, <2>3, RespondType
<1> QED
  BY <1>1, <1>2, <1>3 DEF ManagerTypeOK

LEMMA UnsubscribeRequestType ==
    ASSUME NEW c \in Conns, NEW s \in SubIds, NEW r \in BOOLEAN,
           ManagerTypeOK, Unsubscribe(c, s, r)
    PROVE  ManagerTypeOK'
<1>1. UserTypeOK'
  BY UnchangedTypes DEF ManagerTypeOK, Unsubscribe
<1>2. TopicTypeOK'
  BY UnsubscribeType DEF ManagerTypeOK, Unsubscribe
<1>3. ResponseTypeOK'
  <2>1. Text("Exited channel", user_topic[s]) \in ReciptTexts
    BY TextType DEF ManagerTypeOK, TopicTypeOK
  <2>2. ResponseTypeOK
        /\ Respond(c, <<>>, <<>>, Text("Exited channel", user_topic[s]), r)
    BY DEF ManagerTypeOK, Unsubscribe
  <2>3. <<>> \in Seq(Frames) /\ <<>> \in Seq(Commands)
    OBVIOUS
  <2> QED
    BY <2>1, <2>2, <2>3, RespondType
<1> QED
  BY <1>1, <1>2, <1>3 DEF ManagerTypeOK

LEMMA DisconnectType ==
    ASSUME NEW c \in Conns, NEW r \in BOOLEAN,
           ManagerTypeOK, disconnect_client(c, r)
    PROVE  ManagerTypeOK'
<1>1. UserTypeOK'
  BY UserDisconnectType DEF ManagerTypeOK, disconnect_client
<1>2. TopicTypeOK'
  BY UnsubscribeUserType DEF ManagerTypeOK, disconnect_client
<1>3. ResponseTypeOK'
  <2>1. <<>> \in Seq(Frames) /\ <<"disconnect">> \in Seq(Commands)
    BY DEF Commands, ControlWords
  <2>2. recipt_message \in ReciptTexts
    BY DEF ManagerTypeOK, ResponseTypeOK
  <2>3. ResponseTypeOK
        /\ Respond(c, <<>>, <<"disconnect">>, recipt_message, r)
    BY DEF ManagerTypeOK, disconnect_client
  <2> QED
    BY <2>1, <2>2, <2>3, RespondType
<1> QED
  BY <1>1, <1>2, <1>3 DEF ManagerTypeOK

\* The ERROR frame, of a client with or without a session.
LEMMA ErrorType ==
    ASSUME NEW c \in Conns, ResponseTypeOK,
           Respond(c, <<Frame("ERROR", c)>>, <<"Error">>, recipt_message, FALSE)
    PROVE  ResponseTypeOK'
<1>1. <<Frame("ERROR", c)>> \in Seq(Frames)
  BY FrameType DEF FrameKinds
<1>2. <<"Error">> \in Seq(Commands)
  BY DEF Commands, ControlWords
<1>3. recipt_message \in ReciptTexts
  BY DEF ResponseTypeOK
<1> QED
  BY <1>1, <1>2, <1>3, RespondType

LEMMA RefuseType ==
    ASSUME NEW c \in Conns, ManagerTypeOK, Refuse(c)
    PROVE  ManagerTypeOK'
<1>1. UserTypeOK'
  BY UserDisconnectType DEF ManagerTypeOK, Refuse
<1>2. TopicTypeOK'
  BY UnsubscribeUserType, UnchangedTypes DEF ManagerTypeOK, Refuse
<1>3. ResponseTypeOK'
  BY ErrorType DEF ManagerTypeOK, Refuse
<1> QED
  BY <1>1, <1>2, <1>3 DEF ManagerTypeOK

LEMMA RefuseStrangerType ==
    ASSUME NEW c \in Conns, ManagerTypeOK, RefuseStranger(c)
    PROVE  ManagerTypeOK'
BY ErrorType, UnchangedTypes DEF ManagerTypeOK, RefuseStranger

LEMMA SubscribeStrangerType ==
    ASSUME NEW c \in Conns, NEW t \in Topics, NEW s \in SubIds,
           ManagerTypeOK, SubscribeStranger(c, t, s)
    PROVE  ManagerTypeOK'
<1>1. UserTypeOK'
  BY UnchangedTypes DEF ManagerTypeOK, SubscribeStranger
<1>2. TopicTypeOK'
  BY SubscribeType DEF ManagerTypeOK, SubscribeStranger
<1>3. ResponseTypeOK'
  BY TextType DEF ManagerTypeOK, ResponseTypeOK, SubscribeStranger
<1> QED
  BY <1>1, <1>2, <1>3 DEF ManagerTypeOK

LEMMA UnparsableIdType ==
    ASSUME NEW t \in Topics, ManagerTypeOK, UnparsableId(t)
    PROVE  ManagerTypeOK'
<1>1. UserTypeOK' /\ TopicTypeOK'
  BY UnchangedTypes DEF ManagerTypeOK, UnparsableId
<1>2. ResponseTypeOK'
  BY TextType DEF ManagerTypeOK, ResponseTypeOK, UnparsableId
<1> QED
  BY <1>1, <1>2 DEF ManagerTypeOK

LEMMA ReceiptThrowsType ==
    ASSUME NEW c \in Conns, ManagerTypeOK, ReceiptThrows(c)
    PROVE  ManagerTypeOK'
BY ConnectType, SendType, SubscribeRequestType, UnsubscribeRequestType,
   DisconnectType DEF ReceiptThrows

LEMMA DisconnectStrangerType ==
    ASSUME NEW c \in Conns, ManagerTypeOK, DisconnectStranger(c)
    PROVE  ManagerTypeOK'
BY UnsubscribeUserType, UnchangedTypes DEF ManagerTypeOK, DisconnectStranger

LEMMA UnchangedManagerType ==
    ManagerTypeOK /\ UNCHANGED managerVars => ManagerTypeOK'
BY UnchangedTypes DEF ManagerTypeOK, managerVars

-----------------------------------------------------------------------------
(* Type correctness of the server. *)

\* TypeOK, split at the seam between the managers and the threads.
ServerTypeOK ==
    /\ running_id \in 0 .. MaxConns
    /\ connections \in SUBSET Conns
    /\ pc \in [Conns -> Places]
    /\ response \in [Conns -> Responses]
    /\ disconnect \in [Conns -> BOOLEAN]
    /\ fanout \in [Conns -> FanOuts]
    /\ inbox \in [Conns -> SUBSET Writes]
    /\ received \in 0 .. MaxRequests
    /\ torn \in BOOLEAN
    /\ dismissed \in [Conns -> BOOLEAN]
    /\ disturbed \in BOOLEAN

LEMMA TypeParts == TypeOK <=> ManagerTypeOK /\ ServerTypeOK
BY DEF TypeOK, ManagerTypeOK, ServerTypeOK

LEMMA TypePartsPrime == TypeOK' <=> ManagerTypeOK' /\ ServerTypeOK'
BY DEF TypeOK, ManagerTypeOK, ServerTypeOK

LEMMA NoFanOutType == ASSUME NEW c \in Conns PROVE NoFanOut(c) \in FanOuts
BY FrameType DEF NoFanOut, FanOuts, NullFrame, FrameKinds

LEMMA TypeInit == Init => TypeOK
<1> SUFFICES ASSUME Init PROVE TypeOK
  OBVIOUS
<1>1. UserTypeOK
  BY DEF Init, UserInit, UserTypeOK
<1>2. TopicTypeOK
  BY DEF Init, TopicInit, TopicTypeOK
<1>3. ResponseTypeOK
  <2>1. ResponseInit
    BY DEF Init
  <2>2. EmptyText \in ReciptTexts
    BY DEF EmptyText, ReciptTexts
  <2> QED
    BY <2>1, <2>2 DEF ResponseInit, ResponseTypeOK
<1>4. ServerTypeOK
  <2>1. /\ running_id \in 0 .. MaxConns
        /\ received \in 0 .. MaxRequests
    <3>1. running_id = 0 /\ received = 0
      BY DEF Init
    <3> QED
      BY <3>1, ConnsAssumption, BoundAssumption
  <2>2. fanout \in [Conns -> FanOuts]
    <3>1. fanout = [c \in Conns |-> NoFanOut(c)]
      BY DEF Init
    <3>2. \A c \in Conns : NoFanOut(c) \in FanOuts
      BY NoFanOutType
    <3> QED
      BY <3>1, <3>2, Zenon
  <2>3. /\ pc \in [Conns -> Places]
        /\ response \in [Conns -> Responses]
    BY DEF Init, Places, Responses
  <2>4. /\ connections \in SUBSET Conns
        /\ disconnect \in [Conns -> BOOLEAN]
        /\ inbox \in [Conns -> SUBSET Writes]
        /\ torn \in BOOLEAN
        /\ dismissed \in [Conns -> BOOLEAN]
        /\ disturbed \in BOOLEAN
    BY DEF Init
  <2> QED
    BY <2>1, <2>2, <2>3, <2>4 DEF ServerTypeOK
<1> QED
  BY <1>1, <1>2, <1>3, <1>4, TypeParts DEF ManagerTypeOK

\* A broadcast under way has a topic.
TopicInHand == \A c \in Conns : pc[c] = "fanout" => response[c] \in Topics

\* What a read, a write, a jump and an ageing iterator do to the types.
LEMMA GotoType ==
    ASSUME NEW c \in Conns, NEW place \in Places, ServerTypeOK, goto(c, place)
    PROVE  pc' \in [Conns -> Places]
BY DEF goto, ServerTypeOK

LEMMA GoStaleType ==
    ASSUME ServerTypeOK PROVE go_stale \in [Conns -> FanOuts]
<1>1. \A d \in Conns : fanout[d] \in FanOuts
  BY DEF ServerTypeOK
<1>2. ASSUME NEW f \in FanOuts PROVE [f EXCEPT !.stale = TRUE] \in FanOuts
  BY DEF FanOuts
<1>3. \A d \in Conns : [fanout[d] EXCEPT !.stale = TRUE] \in FanOuts
  BY <1>1, <1>2
<1> QED
  BY <1>1, <1>3 DEF go_stale

LEMMA SendWriteType ==
    ASSUME NEW d \in Conns, NEW frame \in Frames, NEW x \in Responses,
           ServerTypeOK, send(d, frame, x)
    PROVE  inbox' \in [Conns -> SUBSET Writes]
<1>1. [frame |-> frame, command |-> x] \in Writes
  BY DEF Writes
<1> QED
  BY <1>1 DEF send, ServerTypeOK

LEMMA QueuedMessageType ==
    ASSUME NEW c \in Conns, ResponseTypeOK
    PROVE  queued_message(c) \in Frames
<1>1. CASE ClientMesssageQueues[c] = <<>>
  BY <1>1, FrameType DEF queued_message, NullFrame, FrameKinds
<1>2. CASE ClientMesssageQueues[c] # <<>>
  BY <1>2 DEF queued_message, ResponseTypeOK
<1> QED
  BY <1>1, <1>2

LEMMA GetQueuedMessageType ==
    ASSUME NEW c \in Conns, ResponseTypeOK, get_queued_message(c),
           UNCHANGED <<commands, recipt_message>>
    PROVE  ResponseTypeOK'
<1>1. (IF ClientMesssageQueues[c] = <<>> THEN ClientMesssageQueues[c]
       ELSE Tail(ClientMesssageQueues[c])) \in Seq(Frames)
  BY DEF ResponseTypeOK
<1> QED
  BY <1>1 DEF ResponseTypeOK, get_queued_message

\* The thread steps that change nothing but the thread's place.
LEMMA JumpType ==
    ASSUME NEW c \in Conns, NEW place \in Places, TypeOK, goto(c, place),
           UNCHANGED <<managerVars, response, disconnect, fanout, serverVars>>
    PROVE  TypeOK'
<1>1. ManagerTypeOK'
  BY UnchangedManagerType, TypeParts
<1>2. ServerTypeOK'
  BY GotoType, TypeParts DEF ServerTypeOK, serverVars
<1> QED
  BY <1>1, <1>2, TypePartsPrime

LEMMA AcceptTypeStep == TypeOK /\ Accept => TypeOK'
<1> SUFFICES ASSUME TypeOK, Accept PROVE TypeOK'
  OBVIOUS
<1>1. ManagerTypeOK'
  BY UnchangedManagerType, TypeParts DEF Accept
<1>2. running_id' \in Conns
  BY TypeParts, ConnsAssumption DEF Accept, ServerTypeOK, Conns
<1>3. running_id' \in 0 .. MaxConns
  BY <1>2, ConnsAssumption DEF Conns
<1>4. pc' \in [Conns -> Places]
  BY <1>2, TypeParts DEF Accept, goto, ServerTypeOK, Places
<1>5. fanout' \in [Conns -> FanOuts]
  BY GoStaleType, TypeParts DEF Accept
<1>6. torn' \in BOOLEAN
  BY TypeParts DEF Accept, ServerTypeOK, table_changing
<1>7. ServerTypeOK'
  BY <1>2, <1>3, <1>4, <1>5, <1>6, TypeParts DEF Accept, ServerTypeOK
<1> QED
  BY <1>1, <1>7, TypePartsPrime

\* A request leaves the iterations under way where they are; and an id that stays
\* in the tree has an entry of the list that still tells whose it is.
LEMMA ListsFollow ==
    ASSUME lists_follow, UNCHANGED response,
           fanout \in [Conns -> FanOuts], TopicTypeOK, TopicInHand
    PROVE  /\ fanout' \in [Conns -> FanOuts]
           /\ \A c \in Conns : pc[c] # "fanout" => fanout'[c] = fanout[c]
           /\ \A c \in Conns :
                /\ fanout'[c].frame = fanout[c].frame
                /\ fanout'[c].todo = fanout[c].todo
                /\ fanout'[c].stale = fanout[c].stale
           /\ \A c \in Conns : pc[c] = "fanout" =>
                /\ fanout'[c].audience
                      = fanout[c].audience \cap entries(response[c])'
                /\ fanout[c].unlinked \subseteq fanout'[c].unlinked
                /\ \A s \in fanout[c].list \cap entries(response[c])' :
                      \/ s \in fanout'[c].list
                      \/ user_client_id[response[c]][s] \in fanout'[c].unlinked
<1>1. PICK rewritten \in [Topics -> SUBSET SubIds] :
        /\ \A t \in Topics : \A s \in rewritten[t] : may_be_rewritten(t, s)
        /\ fanout' = [c \in Conns |->
              IF pc[c] # "fanout" THEN fanout[c]
              ELSE list_follows(fanout[c], response[c], rewritten[response[c]])]
  BY Zenon DEF lists_follow
<1>2. ASSUME NEW c \in Conns, pc[c] = "fanout"
      PROVE  /\ fanout'[c] \in FanOuts
             /\ fanout'[c].frame = fanout[c].frame
             /\ fanout'[c].todo = fanout[c].todo
             /\ fanout'[c].stale = fanout[c].stale
             /\ fanout'[c].audience
                   = fanout[c].audience \cap entries(response[c])'
             /\ fanout[c].unlinked \subseteq fanout'[c].unlinked
             /\ \A s \in fanout[c].list \cap entries(response[c])' :
                   \/ s \in fanout'[c].list
                   \/ user_client_id[response[c]][s] \in fanout'[c].unlinked
  <2> DEFINE t == response[c]
             R == rewritten[t]
             off == taken_off(t, R)
             more == {user_client_id[t][s] : s \in fanout[c].list \cap off}
  <2>1. t \in Topics /\ fanout[c] \in FanOuts /\ t' = t
    BY <1>2 DEF TopicInHand
  <2>2. R \subseteq entries(t) \ entries(t)'
    BY <1>1, <2>1 DEF may_be_rewritten, entries, get_subscribed_vector
  <2>3. off \cap R = {} /\ off \subseteq SubIds \cap (entries(t) \cup entries(t)')
        /\ entries(t) \subseteq SubIds
        /\ copied(t, R, fanout[c].list) \subseteq SubIds
    BY <2>1, <2>2 DEF taken_off, copied, is_next, entries, get_subscribed_vector
  <2>4. fanout'[c] =
          [fanout[c] EXCEPT
             !.list = (fanout[c].list \ (off \cup R))
                         \cup copied(t, R, fanout[c].list),
             !.unlinked = fanout[c].unlinked \cup more,
             !.audience = fanout[c].audience \cap entries(t)']
    BY <1>1, <1>2 DEF list_follows
  <2>5. more \subseteq Conns
    <3> SUFFICES ASSUME NEW s \in fanout[c].list \cap off
                 PROVE  user_client_id[t][s] \in Conns
      OBVIOUS
    <3> QED
      BY <2>1, <2>3 DEF TopicTypeOK, taken_off, copied, is_next, entries,
                        get_subscribed_vector
  <2> HIDE DEF more, off, R, t
  <2>6. fanout[c].list \subseteq SubIds /\ fanout[c].unlinked \subseteq Conns
        /\ fanout[c].audience \subseteq SubIds
    BY <2>1 DEF FanOuts
  <2>7. /\ fanout'[c].frame = fanout[c].frame
        /\ fanout'[c].todo = fanout[c].todo
        /\ fanout'[c].stale = fanout[c].stale
        /\ fanout'[c].audience = fanout[c].audience \cap entries(t)'
        /\ fanout'[c].unlinked = fanout[c].unlinked \cup more
        /\ fanout'[c].list = (fanout[c].list \ (off \cup R))
                                \cup copied(t, R, fanout[c].list)
        /\ fanout'[c] \in FanOuts
    <3> DEFINE list == (fanout[c].list \ (off \cup R)) \cup copied(t, R, fanout[c].list)
               unlinked == fanout[c].unlinked \cup more
               audience == fanout[c].audience \cap entries(t)'
    <3>1. list \in SUBSET SubIds /\ unlinked \in SUBSET Conns /\ audience \in SUBSET SubIds
      BY <2>3, <2>5, <2>6
    <3>2. fanout'[c] = [fanout[c] EXCEPT !.list = list, !.unlinked = unlinked,
                                         !.audience = audience]
      BY <2>4
    <3> HIDE DEF list, unlinked, audience
    <3>3. fanout'[c] \in FanOuts
      BY <2>1, <3>1, <3>2 DEF FanOuts
    <3>4. /\ fanout'[c].frame = fanout[c].frame
          /\ fanout'[c].todo = fanout[c].todo
          /\ fanout'[c].stale = fanout[c].stale
          /\ fanout'[c].audience = audience
          /\ fanout'[c].unlinked = unlinked
          /\ fanout'[c].list = list
      BY <2>1, <3>2 DEF FanOuts
    <3> QED
      BY <3>3, <3>4 DEF list, unlinked, audience
  <2>8. ASSUME NEW s \in fanout[c].list \cap entries(t)'
        PROVE  s \in fanout'[c].list \/ user_client_id[t][s] \in fanout'[c].unlinked
    <3>1. CASE s \in off
      BY <2>7, <2>8, <3>1 DEF more
    <3>2. CASE s \notin off
      BY <2>2, <2>7, <2>8, <3>2
    <3> QED
      BY <3>1, <3>2
  <2> QED
    BY <2>7, <2>8 DEF t
<1>3. ASSUME NEW c \in Conns, pc[c] # "fanout" PROVE fanout'[c] = fanout[c]
  BY <1>1, <1>3
<1>4. fanout' \in [Conns -> FanOuts]
  BY <1>1, <1>2, <1>3
<1> QED
  BY <1>2, <1>3, <1>4

\* Reading a request moves neither the table nor the writes.
LEMMA ReadType ==
    ASSUME NEW c \in Conns, NEW place \in Places,
           ServerTypeOK, TopicTypeOK, TopicInHand,
           read_request(c), lists_follow, goto(c, place),
           disconnect' \in [Conns -> BOOLEAN],
           dismissed' \in [Conns -> BOOLEAN], disturbed' \in BOOLEAN
    PROVE  ServerTypeOK'
<1>1. received' \in 0 .. MaxRequests
  BY BoundAssumption DEF read_request, ServerTypeOK
<1>2. pc' \in [Conns -> Places]
  BY GotoType
<1>3. fanout' \in [Conns -> FanOuts]
  BY ListsFollow DEF ServerTypeOK, read_request
<1> QED
  BY <1>1, <1>2, <1>3 DEF read_request, ServerTypeOK

LEMMA ServeTypeStep ==
    ASSUME NEW c \in Conns, TypeOK, TopicInHand, Serve(c) PROVE TypeOK'
<1>1. ManagerTypeOK'
  BY TypeParts, ConnectType, SendType, SubscribeRequestType,
     UnsubscribeRequestType, ReceiptAssumption DEF Serve
<1>2. ServerTypeOK'
  <2>1. "poll" \in Places
    BY DEF Places, Draining
  <2>2. /\ disconnect' \in [Conns -> BOOLEAN]
        /\ dismissed' \in [Conns -> BOOLEAN]
        /\ disturbed' \in BOOLEAN
    BY TypeParts DEF Serve, start_draining, ServerTypeOK
  <2> QED
    BY <2>1, <2>2, ReadType, TypeParts DEF ManagerTypeOK, Serve, start_draining
<1> QED
  BY <1>1, <1>2, TypePartsPrime

LEMMA DismissTypeStep ==
    ASSUME NEW c \in Conns, TypeOK, TopicInHand, Dismiss(c) PROVE TypeOK'
<1>1. ManagerTypeOK'
  BY TypeParts, DisconnectType, RefuseType DEF Dismiss, Disconnect
<1>2. ServerTypeOK'
  <2>1. "poll" \in Places
    BY DEF Places, Draining
  <2>2. /\ disconnect' \in [Conns -> BOOLEAN]
        /\ dismissed' \in [Conns -> BOOLEAN]
        /\ disturbed' \in BOOLEAN
    BY TypeParts DEF Dismiss, start_draining, ServerTypeOK
  <2> QED
    BY <2>1, <2>2, ReadType, TypeParts DEF ManagerTypeOK, Dismiss, start_draining
<1> QED
  BY <1>1, <1>2, TypePartsPrime

LEMMA ThrowTypeStep ==
    ASSUME NEW c \in Conns, TypeOK, TopicInHand, Throw(c) PROVE TypeOK'
<1>1. ManagerTypeOK'
  BY TypeParts, RefuseStrangerType, SubscribeStrangerType, UnparsableIdType,
     DisconnectStrangerType, ReceiptThrowsType, UnchangedManagerType
  DEF Throw, Unparsable
<1>2. ServerTypeOK'
  <2>1. "leaving" \in Places
    BY DEF Places
  <2>2. /\ disconnect' \in [Conns -> BOOLEAN]
        /\ dismissed' \in [Conns -> BOOLEAN]
        /\ disturbed' \in BOOLEAN
    BY TypeParts DEF Throw, ServerTypeOK
  <2> QED
    BY <2>1, <2>2, ReadType, TypeParts DEF ManagerTypeOK, Throw
<1> QED
  BY <1>1, <1>2, TypePartsPrime

LEMMA TakeCommandTypeStep ==
    ASSUME NEW c \in Conns, TypeOK, TakeCommand(c) PROVE TypeOK'
<1>1. /\ Head(commands) \in Commands
      /\ Tail(commands) \in Seq(Commands)
  BY DEF TakeCommand, no_command, TypeOK, ResponseTypeOK
<1>2. ManagerTypeOK'
  BY <1>1, UnchangedTypes, TypeParts
  DEF TakeCommand, take_command, ManagerTypeOK, ResponseTypeOK
<1>3. ServerTypeOK'
  <2>1. pc' \in [Conns -> Places]
    BY GotoType, TypeParts DEF TakeCommand, Places, Draining
  <2>2. response' \in [Conns -> Responses]
    BY <1>1, TypeParts DEF TakeCommand, ServerTypeOK, Responses
  <2> QED
    BY <2>1, <2>2, TypeParts DEF TakeCommand, ServerTypeOK, serverVars
<1> QED
  BY <1>2, <1>3, TypePartsPrime

LEMMA ReplySelfTypeStep ==
    ASSUME NEW c \in Conns, TypeOK, ReplySelf(c) PROVE TypeOK'
<1>1. ResponseTypeOK
  BY DEF TypeOK
<1>2. ManagerTypeOK'
  BY <1>1, GetQueuedMessageType, UnchangedTypes, TypeParts
  DEF ReplySelf, ManagerTypeOK
<1>3. ServerTypeOK'
  <2>1. pc' \in [Conns -> Places]
    BY GotoType, TypeParts DEF ReplySelf, Places, Draining
  <2>2. inbox' \in [Conns -> SUBSET Writes]
    <3>1. response[c] \in Responses
      BY TypeParts DEF ServerTypeOK
    <3>2. CASE send(c, queued_message(c), response[c])
      BY <1>1, <3>1, <3>2, QueuedMessageType, SendWriteType, TypeParts
    <3>3. CASE UNCHANGED inbox
      BY <3>3, TypeParts DEF ServerTypeOK
    <3> QED
      BY <3>2, <3>3 DEF ReplySelf
  <2>3. disconnect' \in [Conns -> BOOLEAN]
    BY TypeParts DEF ReplySelf, ServerTypeOK
  <2> QED
    BY <2>1, <2>2, <2>3, TypeParts DEF ReplySelf, ServerTypeOK
<1> QED
  BY <1>2, <1>3, TypePartsPrime

LEMMA NoteDisconnectTypeStep ==
    ASSUME NEW c \in Conns, TypeOK, NoteDisconnect(c) PROVE TypeOK'
<1>1. ManagerTypeOK'
  BY UnchangedManagerType, TypeParts DEF NoteDisconnect
<1>2. pc' \in [Conns -> Places]
  BY GotoType, TypeParts DEF NoteDisconnect, Places, Draining
<1>3. ServerTypeOK'
  BY <1>2, TypeParts DEF NoteDisconnect, ServerTypeOK, serverVars
<1> QED
  BY <1>1, <1>3, TypePartsPrime

LEMMA StartFanOutTypeStep ==
    ASSUME NEW c \in Conns, TypeOK, StartFanOut(c) PROVE TypeOK'
<1>1. ManagerTypeOK'
  BY GetQueuedMessageType, UnchangedTypes, TypeParts
  DEF StartFanOut, ManagerTypeOK
<1>2. ServerTypeOK'
  <2>1. pc' \in [Conns -> Places]
    BY GotoType, TypeParts DEF StartFanOut, Places, Draining
  <2>2. queued_message(c) \in Frames
    BY QueuedMessageType DEF TypeOK
  <2>3. entries(response[c]) \in SUBSET SubIds
    BY DEF entries, get_subscribed_vector
  <2>4. fanout' \in [Conns -> FanOuts]
    <3>1. (torn \/ table_changing) \in BOOLEAN /\ connections \in SUBSET Conns
      BY TypeParts DEF table_changing, ServerTypeOK
    <3> QED
      BY <2>2, <2>3, <3>1, TypeParts DEF StartFanOut, ServerTypeOK, FanOuts
  <2> QED
    BY <2>1, <2>4, TypeParts DEF StartFanOut, ServerTypeOK, serverVars
<1> QED
  BY <1>1, <1>2, TypePartsPrime

LEMMA SendToNextTypeStep ==
    ASSUME NEW c \in Conns, TypeOK, SendToNext(c) PROVE TypeOK'
<1>1. ManagerTypeOK'
  BY UnchangedManagerType, TypeParts DEF SendToNext
<1>2. ServerTypeOK'
  <2>1. PICK d \in fanout[c].todo :
          /\ fanout' = [fanout EXCEPT ![c].todo = @ \ {d}]
          /\ \/ send(d, fanout[c].frame, response[c])
             \/ UNCHANGED inbox
    BY DEF SendToNext
  <2>2. fanout[c] \in FanOuts
    BY TypeParts DEF ServerTypeOK
  <2>3. fanout' \in [Conns -> FanOuts]
    BY <2>1, <2>2, TypeParts DEF ServerTypeOK, FanOuts
  <2>4. inbox' \in [Conns -> SUBSET Writes]
    <3>1. response[c] \in Responses
      BY TypeParts DEF ServerTypeOK
    <3>2. d \in Conns /\ fanout[c].frame \in Frames
      BY <2>2 DEF FanOuts
    <3>3. CASE send(d, fanout[c].frame, response[c])
      BY <3>1, <3>2, <3>3, SendWriteType, TypeParts DEF ServerTypeOK
    <3> QED
      BY <2>1, <3>3, TypeParts DEF ServerTypeOK
  <2> QED
    BY <2>3, <2>4, TypeParts DEF SendToNext, ServerTypeOK
<1> QED
  BY <1>1, <1>2, TypePartsPrime

LEMMA EndFanOutTypeStep ==
    ASSUME NEW c \in Conns, TypeOK, EndFanOut(c) PROVE TypeOK'
<1>1. ManagerTypeOK'
  BY UnchangedManagerType, TypeParts DEF EndFanOut
<1>2. pc' \in [Conns -> Places]
  BY GotoType, TypeParts DEF EndFanOut, Places, Draining
<1>3. fanout' \in [Conns -> FanOuts]
  BY NoFanOutType, TypeParts DEF EndFanOut, ServerTypeOK
<1>4. ServerTypeOK'
  BY <1>2, <1>3, TypeParts DEF EndFanOut, ServerTypeOK, serverVars
<1> QED
  BY <1>1, <1>4, TypePartsPrime

LEMMA FailFanOutTypeStep ==
    ASSUME NEW c \in Conns, TypeOK, FailFanOut(c) PROVE TypeOK'
<1>1. ManagerTypeOK'
  BY UnchangedManagerType, TypeParts DEF FailFanOut
<1>2. pc' \in [Conns -> Places]
  BY GotoType, TypeParts DEF FailFanOut, Places
<1>3. fanout' \in [Conns -> FanOuts]
  BY NoFanOutType, TypeParts DEF FailFanOut, ServerTypeOK
<1>4. ServerTypeOK'
  BY <1>2, <1>3, TypeParts DEF FailFanOut, ServerTypeOK
<1> QED
  BY <1>1, <1>4, TypePartsPrime

\* A write of the table leaves connections in it.
LEMMA LeftType ==
    ASSUME NEW table \in SUBSET Conns, connections' \in left_by_write(table)
    PROVE  connections' \in SUBSET Conns
BY DEF left_by_write

\* The end of a write of the table, as it should be or not.
EndsWrite(c) == Execute(c) \/ Remove(c) \/ FailWrite(c)

LEMMA RemoveTypeStep ==
    ASSUME NEW c \in Conns, TypeOK, EndsWrite(c) PROVE TypeOK'
<1>1. ManagerTypeOK'
  BY UnchangedManagerType, TypeParts DEF EndsWrite, Remove, Execute, FailWrite
<1>2. pc' \in [Conns -> Places]
  BY GotoType, TypeParts DEF EndsWrite, Remove, Execute, FailWrite, Places
<1>3. connections' \in SUBSET Conns
  BY LeftType, TypeParts DEF EndsWrite, Remove, Execute, FailWrite, ServerTypeOK
<1>4. ServerTypeOK'
  BY <1>2, <1>3, TypeParts
  DEF EndsWrite, Remove, Execute, FailWrite, ServerTypeOK
<1> QED
  BY <1>1, <1>4, TypePartsPrime

LEMMA WakeUpTypeStep ==
    ASSUME NEW c \in Conns, TypeOK, WakeUp(c) PROVE TypeOK'
<1>1. ManagerTypeOK'
  BY UnchangedManagerType, TypeParts DEF WakeUp
<1>2. pc' \in [Conns -> Places]
  BY GotoType, TypeParts DEF WakeUp, Places
<1>3. fanout' \in [Conns -> FanOuts] /\ torn' \in BOOLEAN
  BY GoStaleType, TypeParts DEF WakeUp, ServerTypeOK, table_changing
<1>4. ServerTypeOK'
  BY <1>2, <1>3, TypeParts DEF WakeUp, ServerTypeOK, serverVars
<1> QED
  BY <1>1, <1>4, TypePartsPrime

LEMMA MissQueueTypeStep ==
    ASSUME NEW c \in Conns, TypeOK, MissQueue(c) PROVE TypeOK'
<1>1. ManagerTypeOK'
  BY UnchangedManagerType, TypeParts DEF MissQueue
<1>2. pc' \in [Conns -> Places]
  BY GotoType, TypeParts DEF MissQueue, Places
<1>3. ServerTypeOK'
  BY <1>2, TypeParts DEF MissQueue, ServerTypeOK
<1> QED
  BY <1>1, <1>3, TypePartsPrime

\* Every step keeps every variable in its type.
LEMMA TypeStep == TypeOK /\ TopicInHand /\ [Next]_vars => TypeOK'
<1> SUFFICES ASSUME TypeOK, TopicInHand, [Next]_vars PROVE TypeOK'
  OBVIOUS
<1>1. CASE Accept
  BY <1>1, AcceptTypeStep
<1>2. ASSUME NEW c \in Conns, Serve(c) PROVE TypeOK'
  BY <1>2, ServeTypeStep
<1>3. ASSUME NEW c \in Conns, Dismiss(c) PROVE TypeOK'
  BY <1>3, DismissTypeStep
<1>4. ASSUME NEW c \in Conns, Throw(c) PROVE TypeOK'
  BY <1>4, ThrowTypeStep
<1>5. ASSUME NEW c \in Conns, HangUp(c) PROVE TypeOK'
  BY <1>5, JumpType DEF HangUp, Places
<1>6. ASSUME NEW c \in Conns, Proceed(c) PROVE TypeOK'
  <2>1. CASE ShouldTerminate(c)
    BY <2>1, JumpType DEF ShouldTerminate, Places
  <2>2. CASE Drained(c)
    BY <2>2, JumpType DEF Drained, Places
  <2>3. CASE SeeCommand(c)
    BY <2>3, JumpType DEF SeeCommand, Places, Draining
  <2>4. CASE TakeCommand(c)
    BY <2>4, TakeCommandTypeStep
  <2>5. CASE TakeNothing(c)
    BY <2>5, JumpType DEF TakeNothing, Places
  <2>6. CASE ReplySelf(c)
    BY <2>6, ReplySelfTypeStep
  <2>7. CASE NoteDisconnect(c)
    BY <2>7, NoteDisconnectTypeStep
  <2>8. CASE StartFanOut(c)
    BY <2>8, StartFanOutTypeStep
  <2>9. CASE SendToNext(c)
    BY <2>9, SendToNextTypeStep
  <2>10. CASE EndFanOut(c)
    BY <2>10, EndFanOutTypeStep
  <2>11. CASE FailFanOut(c)
    BY <2>11, FailFanOutTypeStep
  <2>12. CASE WakeUp(c)
    BY <2>12, WakeUpTypeStep
  <2>13. CASE EndsWrite(c)
    BY <2>13, RemoveTypeStep
  <2>14. CASE Close(c)
    BY <2>14, JumpType DEF Close, Places
  <2>15. CASE MissQueue(c)
    BY <2>15, MissQueueTypeStep
  <2> QED
    BY <1>6, <2>1, <2>2, <2>3, <2>4, <2>5, <2>6, <2>7, <2>8, <2>9, <2>10,
       <2>11, <2>12, <2>13, <2>14, <2>15 DEF Proceed, EndsWrite
<1>7. CASE UNCHANGED vars
  <2>1. ManagerTypeOK'
    BY <1>7, UnchangedManagerType, TypeParts DEF vars
  <2>2. ServerTypeOK'
    BY <1>7, TypeParts DEF vars, threadVars, serverVars, ServerTypeOK
  <2> QED
    BY <2>1, <2>2, TypePartsPrime
<1> QED
  BY <1>1, <1>2, <1>3, <1>4, <1>5, <1>6, <1>7 DEF Next

\* Only the start of a broadcast makes its place, and only the command taken from
\* the list changes what a thread has in hand.
LEMMA TopicInHandStep == TypeOK /\ TopicInHand /\ [Next]_vars => TopicInHand'
<1> SUFFICES ASSUME TypeOK, TopicInHand, [Next]_vars PROVE TopicInHand'
  OBVIOUS
<1>0. pc \in [Conns -> Places] /\ response \in [Conns -> Responses]
  BY DEF TypeOK
<1>1. ASSUME NEW c, NEW place, goto(c, place), place # "fanout",
             \A d \in Conns \ {c} : response'[d] = response[d]
      PROVE  TopicInHand'
  BY <1>0, <1>1 DEF TopicInHand, goto
<1>2. CASE Accept
  <2>1. goto(running_id', "joining") /\ UNCHANGED response
    BY <1>2 DEF Accept
  <2> QED
    BY <1>1, <2>1
<1>3. ASSUME NEW c \in Conns, Serve(c) \/ Dismiss(c) \/ Throw(c) \/ HangUp(c)
      PROVE  TopicInHand'
  <2>1. UNCHANGED response /\ \E place : goto(c, place) /\ place # "fanout"
    BY <1>3 DEF Serve, Dismiss, Throw, HangUp, read_request, start_draining
  <2> QED
    BY <1>1, <2>1
<1>4. ASSUME NEW c \in Conns, Proceed(c) PROVE TopicInHand'
  <2>1. CASE StartFanOut(c) \/ SendToNext(c)
    BY <1>0, <2>1 DEF StartFanOut, SendToNext, goto, TopicInHand
  <2>2. CASE TakeCommand(c)
    BY <1>0, <1>1, <2>2 DEF TakeCommand
  <2>3. CASE ~(StartFanOut(c) \/ SendToNext(c) \/ TakeCommand(c))
    <3>1. UNCHANGED response /\ \E place : goto(c, place) /\ place # "fanout"
      BY <1>4, <2>3
      DEF Proceed, ShouldTerminate, Drained, SeeCommand, TakeNothing, ReplySelf,
          NoteDisconnect, EndFanOut, FailFanOut, MissQueue, Execute, FailWrite,
          WakeUp, Remove, Close
    <3> QED
      BY <1>1, <3>1
  <2> QED
    BY <2>1, <2>2, <2>3
<1>5. CASE UNCHANGED vars
  BY <1>5 DEF vars, threadVars, TopicInHand
<1> QED
  BY <1>2, <1>3, <1>4, <1>5 DEF Next

\* Every variable keeps its type: TypeOK is an invariant of the server.
THEOREM TypeCorrect == Spec => []TypeOK
<1>1. Init => TypeOK /\ TopicInHand
  BY TypeInit DEF Init, TopicInHand
<1>2. TypeOK /\ TopicInHand /\ [Next]_vars => TypeOK'
  BY TypeStep
<1>3. TypeOK /\ TopicInHand /\ [Next]_vars => TopicInHand'
  BY TopicInHandStep
<1> QED
  BY <1>1, <1>2, <1>3, PTL DEF Spec

\* So has every broadcast its topic.
THEOREM TopicsInHand == Spec => []TopicInHand
<1>1. Init => TopicInHand
  BY DEF Init, TopicInHand
<1>2. TypeOK /\ TopicInHand /\ [Next]_vars => TopicInHand'
  BY TopicInHandStep
<1> QED
  BY <1>1, <1>2, TypeCorrect, PTL DEF Spec

-----------------------------------------------------------------------------
(* What the requests that are carried out have in common, whether or not the *)
(* handler then gets as far as the receipt.                                  *)

Grants(c) ==
    \E r \in BOOLEAN :
        \/ \E u \in Users, p \in Passwords : Connect(c, u, p, r)
        \/ \E t \in Topics : Send(c, t, r)
        \/ \E t \in Topics, s \in SubIds : Subscribe(c, t, s, r)
        \/ \E s \in SubIds : Unsubscribe(c, s, r)
LogsOut(c) == \E r \in BOOLEAN : disconnect_client(c, r)

LEMMA RequestCases ==
    ASSUME NEW c \in Conns
    PROVE  /\ Serve(c) => Grants(c)
           /\ Disconnect(c) => LogsOut(c)
           /\ ReceiptThrows(c) => Grants(c) \/ LogsOut(c)
<1>1. Serve(c) => Grants(c)
  BY ReceiptAssumption, Zenon DEF Serve, Grants
<1>2. Disconnect(c) => LogsOut(c)
  BY DEF Disconnect, LogsOut
<1>3. ReceiptThrows(c) => Grants(c) \/ LogsOut(c)
  <2>1. FALSE \in BOOLEAN
    OBVIOUS
  <2> QED
    BY <2>1, Zenon DEF ReceiptThrows, Grants, LogsOut
<1> QED
  BY <1>1, <1>2, <1>3

-----------------------------------------------------------------------------
(* One session per account.  OneSessionPerUser is inductive as it stands:   *)
(* that connected accounts exist makes a new account safe to log in to, and *)
(* that sessions are of connected accounts makes an old one.                *)

sessionVars == <<password, connected, user_client_connection>>

LEMMA OneSessionUnchanged ==
    OneSessionPerUser /\ UNCHANGED sessionVars => OneSessionPerUser'
BY DEF OneSessionPerUser, sessionVars, is_client_user_connected, user_exists

LEMMA OneSessionInit == Init => OneSessionPerUser
<1> SUFFICES ASSUME Init PROVE OneSessionPerUser
  OBVIOUS
<1>1. UserInit
  BY DEF Init
<1> QED
  BY <1>1 DEF UserInit, OneSessionPerUser, is_client_user_connected

\* Logging in: the account had no session, whether it was unknown or known.
LEMMA OneSessionConnect ==
    ASSUME UserTypeOK, OneSessionPerUser,
           NEW c \in Conns, NEW u \in Users, NEW p \in Passwords,
           check_connect_conditions(u, p), connect_user(c, u, p)
    PROVE  OneSessionPerUser'
<1>1. ~connected[u]
  BY DEF check_connect_conditions, is_user_connected, OneSessionPerUser
<1>2. \A d \in Conns : user_client_connection[d] # u
  BY <1>1, NullAssumption DEF OneSessionPerUser, is_client_user_connected
<1>3. /\ connected' = [connected EXCEPT ![u] = TRUE]
      /\ user_client_connection' = [user_client_connection EXCEPT ![c] = u]
      /\ password' \in [Users -> Passwords \cup {NoPassword}]
  BY ConnectUserType DEF connect_user, UserTypeOK
<1>4. \A d, e \in Conns :
         user_client_connection'[d] # NoUser /\ d # e
           => user_client_connection'[e] # user_client_connection'[d]
  BY <1>2, <1>3 DEF UserTypeOK, OneSessionPerUser, is_client_user_connected
<1>5. \A d \in Conns : user_client_connection'[d] # NoUser
           => connected'[user_client_connection'[d]]
  BY <1>3 DEF UserTypeOK, OneSessionPerUser, is_client_user_connected
<1>6. \A v \in Users : connected'[v] => password'[v] # NoPassword
  <2>1. CASE user_exists(u)
    BY <2>1, <1>3 DEF connect_user, UserTypeOK, OneSessionPerUser, user_exists
  <2>2. CASE ~user_exists(u)
    BY <2>2, <1>3, NullAssumption
    DEF connect_user, UserTypeOK, OneSessionPerUser, user_exists
  <2> QED
    BY <2>1, <2>2
<1> QED
  BY <1>4, <1>5, <1>6
  DEF OneSessionPerUser, is_client_user_connected, user_exists

\* Logging out: nobody else had a session of the account.
LEMMA OneSessionDisconnect ==
    ASSUME UserTypeOK, OneSessionPerUser, NEW c \in Conns,
           is_client_user_connected(c), user_disconnect(c)
    PROVE  OneSessionPerUser'
BY DEF user_disconnect, UserTypeOK, OneSessionPerUser,
       is_client_user_connected, user_exists

LEMMA OneSessionStep ==
    TypeOK /\ OneSessionPerUser /\ [Next]_vars => OneSessionPerUser'
<1> SUFFICES ASSUME TypeOK, OneSessionPerUser, [Next]_vars
             PROVE  OneSessionPerUser'
  OBVIOUS
<1>0. UserTypeOK
  BY DEF TypeOK
<1>1. CASE Accept
  BY <1>1, OneSessionUnchanged DEF Accept, managerVars, userVars, sessionVars
<1>2. ASSUME NEW c \in Conns, Grants(c) PROVE OneSessionPerUser'
  <2>1. ASSUME NEW u \in Users, NEW p \in Passwords, NEW r \in BOOLEAN,
               Connect(c, u, p, r)
        PROVE  OneSessionPerUser'
    BY <1>0, <2>1, OneSessionConnect DEF Connect
  <2>2. ASSUME NEW t \in Topics, NEW r \in BOOLEAN, Send(c, t, r)
        PROVE  OneSessionPerUser'
    BY <2>2, OneSessionUnchanged DEF Send, userVars, sessionVars
  <2>3. ASSUME NEW t \in Topics, NEW s \in SubIds, NEW r \in BOOLEAN,
               Subscribe(c, t, s, r)
        PROVE  OneSessionPerUser'
    BY <2>3, OneSessionUnchanged
    DEF Subscribe, subscribe_current_user, sessionVars
  <2>4. ASSUME NEW s \in SubIds, NEW r \in BOOLEAN, Unsubscribe(c, s, r)
        PROVE  OneSessionPerUser'
    BY <2>4, OneSessionUnchanged DEF Unsubscribe, userVars, sessionVars
  <2> QED
    BY <1>2, <2>1, <2>2, <2>3, <2>4 DEF Grants
<1>3. ASSUME NEW c \in Conns, LogsOut(c) \/ Dismiss(c) PROVE OneSessionPerUser'
  BY <1>0, <1>3, OneSessionDisconnect
  DEF LogsOut, Dismiss, Disconnect, disconnect_client, Refuse
<1>4. ASSUME NEW c \in Conns, Serve(c) \/ Throw(c) PROVE OneSessionPerUser'
  BY <1>2, <1>3, <1>4, RequestCases, OneSessionUnchanged
  DEF Throw, RefuseStranger, Unparsable, UnparsableId, SubscribeStranger,
      DisconnectStranger, managerVars, userVars, sessionVars
<1>5. ASSUME NEW c \in Conns, HangUp(c) PROVE OneSessionPerUser'
  BY <1>5, OneSessionUnchanged DEF HangUp, managerVars, userVars, sessionVars
<1>6. ASSUME NEW c \in Conns, Proceed(c) PROVE OneSessionPerUser'
  BY <1>6, OneSessionUnchanged
  DEF Proceed, ShouldTerminate, Drained, SeeCommand, TakeCommand, TakeNothing,
      ReplySelf, NoteDisconnect, StartFanOut, SendToNext, EndFanOut,
      FailFanOut, MissQueue, Execute, FailWrite, WakeUp, Remove, Close, managerVars,
      userVars, sessionVars
<1>7. CASE UNCHANGED vars
  BY <1>7, OneSessionUnchanged DEF vars, managerVars, userVars, sessionVars
<1> QED
  BY <1>1, <1>2, <1>3, <1>4, <1>5, <1>6, <1>7 DEF Next

\* However requests interleave, nobody is ever logged in twice.
THEOREM OneSession == Spec => []OneSessionPerUser
<1>1. Init => OneSessionPerUser
  BY OneSessionInit
<1>2. TypeOK /\ OneSessionPerUser /\ [Next]_vars => OneSessionPerUser'
  BY OneSessionStep
<1> QED
  BY <1>1, <1>2, TypeCorrect, PTL DEF Spec

-----------------------------------------------------------------------------
(* Topics that can be named exist.  Topics are never deleted, so only the   *)
(* steps that name one matter: SUBSCRIBE creates what it names, SEND names  *)
(* what the account has subscribed to.                                      *)

KnownTopics(cmds, list) ==
    \A i \in 1 .. Len(cmds) : cmds[i] \in Topics => cmds[i] \in list

LEMMA KnownTopicsConcat ==
    ASSUME NEW list, NEW a \in Seq(Commands), NEW b \in Seq(Commands),
           KnownTopics(a, list), KnownTopics(b, list)
    PROVE  KnownTopics(a \o b, list)
BY DEF KnownTopics

LEMMA KnownTopicsGrow ==
    ASSUME NEW list, NEW more, NEW a \in Seq(Commands), KnownTopics(a, list)
    PROVE  KnownTopics(a, list \cup more)
BY DEF KnownTopics

LEMMA NoKnownTopics ==
    ASSUME NEW list PROVE <<>> \in Seq(Commands) /\ KnownTopics(<<>>, list)
BY DEF KnownTopics

\* The control words are no topics.
LEMMA ControlCommand ==
    ASSUME NEW x \in {"self", "Error", "disconnect"}, NEW list
    PROVE  <<x>> \in Seq(Commands) /\ KnownTopics(<<x>>, list)
<1>1. x \in Commands /\ x \notin Topics
  BY TopicAssumption DEF Commands, ControlWords
<1>2. <<x>> \in Seq(Commands) /\ Len(<<x>>) = 1 /\ <<x>>[1] = x
  BY <1>1
<1>3. \A i \in 1 .. Len(<<x>>) : <<x>>[i] \notin Topics
  BY <1>1, <1>2
<1> QED
  BY <1>2, <1>3 DEF KnownTopics

\* What Respond adds to the list: the request's commands and maybe a "self".
LEMMA RespondKnown ==
    ASSUME NEW c, NEW frames, NEW cmds \in Seq(Commands), NEW text, NEW receipt,
           NEW list, commands \in Seq(Commands),
           Respond(c, frames, cmds, text, receipt),
           KnownTopics(commands, list), KnownTopics(cmds, list)
    PROVE  KnownTopics(commands', list)
<1>1. <<"self">> \in Seq(Commands) /\ KnownTopics(<<"self">>, list)
  BY ControlCommand
<1>2. cmds \o <<"self">> \in Seq(Commands) /\ commands \o cmds \in Seq(Commands)
  BY <1>1
<1>3. KnownTopics(commands \o cmds, list)
  BY KnownTopicsConcat
<1>4. KnownTopics(commands \o cmds \o <<"self">>, list)
  BY <1>1, <1>2, <1>3, KnownTopicsConcat
<1> QED
  BY <1>3, <1>4 DEF Respond

\* The conjuncts of TopicsExist, one per part of the state.
AccountTopicsExist ==
    \A u \in Users : subscribed_topic_names[u] \subseteq topic_list
RegisteredTopicsExist ==
    /\ \A s \in SubIds : user_topic[s] \in topic_list \cup {NoTopic}
    /\ \A t \in Topics, s \in SubIds :
          user_client_id[t][s] # NoConn => t \in topic_list
    /\ topic_list \subseteq NumericTopics
ResponseTopicsExist ==
    \A c \in Conns : response[c] \in Topics => response[c] \in topic_list

LEMMA TopicsExistParts ==
    /\ TopicsExist <=> /\ AccountTopicsExist
                       /\ RegisteredTopicsExist
                       /\ KnownTopics(commands, topic_list)
                       /\ ResponseTopicsExist
    /\ TopicsExist' <=> /\ AccountTopicsExist'
                        /\ RegisteredTopicsExist'
                        /\ KnownTopics(commands', topic_list')
                        /\ ResponseTopicsExist'
BY DEF TopicsExist, AccountTopicsExist, RegisteredTopicsExist,
       ResponseTopicsExist, KnownTopics

LEMMA TopicsExistInit == Init => TopicsExist
<1> SUFFICES ASSUME Init PROVE TopicsExist
  OBVIOUS
<1>1. AccountTopicsExist
  BY DEF Init, UserInit, AccountTopicsExist
<1>2. RegisteredTopicsExist
  BY DEF Init, TopicInit, RegisteredTopicsExist
<1>3. KnownTopics(commands, topic_list)
  BY NoKnownTopics DEF Init, ResponseInit
<1>4. ResponseTopicsExist
  BY TopicAssumption DEF Init, ResponseTopicsExist
<1> QED
  BY <1>1, <1>2, <1>3, <1>4, TopicsExistParts

\* The operations of TopicManager.
LEMMA SubscribeExists ==
    ASSUME NEW c \in Conns, NEW t \in NumericTopics, NEW s \in SubIds,
           TopicTypeOK, RegisteredTopicsExist, subscribe(t, s, c)
    PROVE  RegisteredTopicsExist' /\ topic_list' = topic_list \cup {t}
BY TopicAssumption DEF TopicTypeOK, RegisteredTopicsExist, subscribe

LEMMA UnsubscribeExists ==
    ASSUME NEW s \in SubIds, user_topic[s] \in Topics,
           TopicTypeOK, RegisteredTopicsExist, unsubscribe(s)
    PROVE  RegisteredTopicsExist' /\ topic_list' = topic_list
BY DEF TopicTypeOK, RegisteredTopicsExist, unsubscribe

LEMMA UnsubscribeUserExists ==
    ASSUME NEW c \in Conns, TopicTypeOK, RegisteredTopicsExist,
           unsubscribe_user(c)
    PROVE  RegisteredTopicsExist' /\ topic_list' = topic_list
BY DEF TopicTypeOK, RegisteredTopicsExist, unsubscribe_user

\* A step that adds no topic and names no new one.
LEMMA TopicsExistUnchanged ==
    ASSUME TopicsExist, KnownTopics(commands', topic_list),
           UNCHANGED <<subscribed_topic_names, topic_list, response>>,
           RegisteredTopicsExist'
    PROVE  TopicsExist'
BY TopicsExistParts DEF AccountTopicsExist, ResponseTopicsExist

LEMMA TopicsExistGrants ==
    ASSUME TypeOK, TopicsExist, NEW c \in Conns, Grants(c), UNCHANGED response
    PROVE  TopicsExist'
<1> USE DEF TypeOK
<1>0. /\ UserTypeOK /\ TopicTypeOK /\ commands \in Seq(Commands)
      /\ AccountTopicsExist /\ RegisteredTopicsExist /\ ResponseTopicsExist
      /\ KnownTopics(commands, topic_list) /\ UNCHANGED response
  BY TopicsExistParts DEF ResponseTypeOK
<1>1. ASSUME NEW u \in Users, NEW p \in Passwords, NEW r \in BOOLEAN,
             Connect(c, u, p, r)
      PROVE  TopicsExist'
  <2>1. <<"self">> \in Seq(Commands) /\ KnownTopics(<<"self">>, topic_list)
    BY ControlCommand
  <2>2. KnownTopics(commands', topic_list)
    BY <1>0, <1>1, <2>1, RespondKnown DEF Connect
  <2> QED
    BY <1>0, <1>1, <2>2, TopicsExistUnchanged
    DEF Connect, connect_user, topicVars, RegisteredTopicsExist
<1>2. ASSUME NEW t \in Topics, NEW r \in BOOLEAN, Send(c, t, r)
      PROVE  TopicsExist'
  <2>1. t \in topic_list
    BY <1>0, <1>2
    DEF Send, check_send_conditions, is_client_user_connected,
        is_user_subscribed_to_topic, getSubScribedTopicNames, UserTypeOK,
        AccountTopicsExist
  <2>2. <<t>> \in Seq(Commands) /\ KnownTopics(<<t>>, topic_list)
    BY <2>1 DEF Commands, KnownTopics
  <2>3. KnownTopics(commands', topic_list)
    BY <1>0, <1>2, <2>2, RespondKnown DEF Send
  <2> QED
    BY <1>0, <1>2, <2>3, TopicsExistUnchanged
    DEF Send, userVars, topicVars, RegisteredTopicsExist
<1>3. ASSUME NEW t \in Topics, NEW s \in SubIds, NEW r \in BOOLEAN,
             Subscribe(c, t, s, r)
      PROVE  TopicsExist'
  <2>1. RegisteredTopicsExist' /\ topic_list' = topic_list \cup {t}
    BY <1>0, <1>3, SubscribeExists DEF Subscribe, check_subscribe_conditions
  <2>2. AccountTopicsExist'
    BY <1>0, <1>3, <2>1
    DEF Subscribe, subscribe_current_user, is_client_user_connected,
        UserTypeOK, AccountTopicsExist
  <2>3. <<>> \in Seq(Commands) /\ KnownTopics(<<>>, topic_list)
    BY NoKnownTopics
  <2>4. KnownTopics(commands', topic_list)
    BY <1>0, <1>3, <2>3, RespondKnown DEF Subscribe
  <2>5. KnownTopics(commands', topic_list')
    BY <2>1, <2>4 DEF KnownTopics
  <2>6. ResponseTopicsExist'
    BY <1>0, <2>1 DEF ResponseTopicsExist
  <2> QED
    BY <2>1, <2>2, <2>5, <2>6, TopicsExistParts
<1>4. ASSUME NEW s \in SubIds, NEW r \in BOOLEAN, Unsubscribe(c, s, r)
      PROVE  TopicsExist'
  <2>1. user_topic[s] \in Topics
    BY <1>0, <1>4
    DEF Unsubscribe, check_unsubscribe_conditions, is_subscribed, TopicTypeOK
  <2>2. RegisteredTopicsExist' /\ topic_list' = topic_list
    BY <1>0, <1>4, <2>1, UnsubscribeExists DEF Unsubscribe
  <2>3. <<>> \in Seq(Commands) /\ KnownTopics(<<>>, topic_list)
    BY NoKnownTopics
  <2>4. KnownTopics(commands', topic_list)
    BY <1>0, <1>4, <2>3, RespondKnown DEF Unsubscribe
  <2> QED
    BY <1>0, <1>4, <2>2, <2>4, TopicsExistUnchanged DEF Unsubscribe, userVars
<1> QED
  BY <1>1, <1>2, <1>3, <1>4 DEF Grants

LEMMA TopicsExistDismiss ==
    ASSUME TypeOK, TopicsExist, NEW c \in Conns, LogsOut(c) \/ Refuse(c),
           UNCHANGED response
    PROVE  TopicsExist'
<1>0. /\ TopicTypeOK /\ commands \in Seq(Commands)
      /\ RegisteredTopicsExist /\ KnownTopics(commands, topic_list)
      /\ UNCHANGED response
  BY TopicsExistParts DEF TypeOK, ResponseTypeOK
<1>1. /\ <<"disconnect">> \in Seq(Commands)
      /\ KnownTopics(<<"disconnect">>, topic_list)
      /\ <<"Error">> \in Seq(Commands)
      /\ KnownTopics(<<"Error">>, topic_list)
  BY ControlCommand
<1>2. CASE LogsOut(c)
  <2>1. KnownTopics(commands', topic_list)
    BY <1>0, <1>1, <1>2, RespondKnown DEF LogsOut, disconnect_client
  <2>2. RegisteredTopicsExist' /\ topic_list' = topic_list
    BY <1>0, <1>2, UnsubscribeUserExists DEF LogsOut, disconnect_client
  <2> QED
    BY <1>0, <1>2, <2>1, <2>2, TopicsExistUnchanged
    DEF LogsOut, disconnect_client, user_disconnect
<1>3. CASE Refuse(c)
  <2>1. KnownTopics(commands', topic_list)
    BY <1>0, <1>1, <1>3, RespondKnown DEF Refuse
  <2>2. RegisteredTopicsExist' /\ topic_list' = topic_list
    <3>1. CASE unsubscribe_user(c)
      BY <1>0, <3>1, UnsubscribeUserExists
    <3>2. CASE UNCHANGED topicVars
      BY <1>0, <3>2 DEF topicVars, RegisteredTopicsExist
    <3> QED
      BY <1>3, <3>1, <3>2 DEF Refuse
  <2> QED
    BY <1>0, <1>3, <2>1, <2>2, TopicsExistUnchanged DEF Refuse, user_disconnect
<1> QED
  BY <1>2, <1>3

LEMMA TopicsExistThrow ==
    ASSUME TypeOK, TopicsExist, NEW c \in Conns, Throw(c)
    PROVE  TopicsExist'
<1>0. /\ TopicTypeOK /\ commands \in Seq(Commands)
      /\ AccountTopicsExist /\ RegisteredTopicsExist /\ ResponseTopicsExist
      /\ KnownTopics(commands, topic_list) /\ UNCHANGED response
  BY TopicsExistParts DEF TypeOK, ResponseTypeOK, Throw, read_request
<1>1. CASE RefuseStranger(c)
  <2>1. /\ <<"Error">> \in Seq(Commands)
        /\ KnownTopics(<<"Error">>, topic_list)
    BY ControlCommand
  <2>2. KnownTopics(commands', topic_list)
    BY <1>0, <1>1, <2>1, RespondKnown DEF RefuseStranger
  <2> QED
    BY <1>0, <1>1, <2>2, TopicsExistUnchanged
    DEF RefuseStranger, userVars, topicVars, RegisteredTopicsExist
<1>2. CASE Unparsable \/ \E t \in Topics : UnparsableId(t)
  BY <1>0, <1>2, TopicsExistUnchanged
  DEF Unparsable, UnparsableId, managerVars, userVars, topicVars, responseVars,
      RegisteredTopicsExist
<1>3. ASSUME NEW t \in Topics, NEW s \in SubIds, SubscribeStranger(c, t, s)
      PROVE  TopicsExist'
  <2>1. RegisteredTopicsExist' /\ topic_list' = topic_list \cup {t}
    BY <1>0, <1>3, SubscribeExists
    DEF SubscribeStranger, check_subscribe_conditions
  <2>2. AccountTopicsExist' /\ ResponseTopicsExist'
    BY <1>0, <1>3, <2>1
    DEF SubscribeStranger, userVars, AccountTopicsExist, ResponseTopicsExist
  <2>3. KnownTopics(commands', topic_list')
    BY <1>0, <1>3, <2>1 DEF SubscribeStranger, KnownTopics
  <2> QED
    BY <2>1, <2>2, <2>3, TopicsExistParts
<1>4. CASE DisconnectStranger(c)
  BY <1>0, <1>4, UnsubscribeUserExists, TopicsExistUnchanged
  DEF DisconnectStranger, userVars, responseVars
<1>5. CASE ReceiptThrows(c)
  BY <1>0, <1>5, RequestCases, TopicsExistGrants, TopicsExistDismiss
<1> QED
  BY <1>1, <1>2, <1>3, <1>4, <1>5 DEF Throw

LEMMA TopicsExistTake ==
    ASSUME TypeOK, TopicsExist, NEW c \in Conns, TakeCommand(c)
    PROVE  TopicsExist'
<1>0. /\ commands \in Seq(Commands) /\ commands # <<>>
      /\ response \in [Conns -> Responses]
      /\ AccountTopicsExist /\ RegisteredTopicsExist /\ ResponseTopicsExist
      /\ KnownTopics(commands, topic_list)
  BY TopicsExistParts DEF TypeOK, ResponseTypeOK, TakeCommand, no_command
<1>1. AccountTopicsExist' /\ RegisteredTopicsExist'
  BY <1>0 DEF TakeCommand, userVars, topicVars, AccountTopicsExist,
              RegisteredTopicsExist
<1>2. KnownTopics(commands', topic_list')
  BY <1>0 DEF TakeCommand, take_command, topicVars, KnownTopics
<1>3. ResponseTopicsExist'
  <2>1. Head(commands) \in Topics => Head(commands) \in topic_list
    BY <1>0 DEF KnownTopics
  <2> QED
    BY <1>0, <2>1 DEF TakeCommand, topicVars, ResponseTopicsExist
<1> QED
  BY <1>1, <1>2, <1>3, TopicsExistParts

LEMMA TopicsExistStep == TypeOK /\ TopicsExist /\ [Next]_vars => TopicsExist'
<1> SUFFICES ASSUME TypeOK, TopicsExist, [Next]_vars PROVE TopicsExist'
  OBVIOUS
<1>0. /\ KnownTopics(commands, topic_list) /\ RegisteredTopicsExist
  BY TopicsExistParts
<1>1. ASSUME UNCHANGED <<userVars, topicVars, commands, response>>
      PROVE  TopicsExist'
  BY <1>0, <1>1, TopicsExistUnchanged
  DEF userVars, topicVars, RegisteredTopicsExist
<1>2. CASE Accept
  BY <1>1, <1>2 DEF Accept, managerVars, responseVars
<1>3. ASSUME NEW c \in Conns,
             Serve(c) \/ Dismiss(c) \/ Throw(c) \/ TakeCommand(c)
      PROVE  TopicsExist'
  BY <1>3, RequestCases, TopicsExistGrants, TopicsExistDismiss,
     TopicsExistThrow, TopicsExistTake DEF Serve, Dismiss, read_request
<1>4. ASSUME NEW c \in Conns, HangUp(c) PROVE TopicsExist'
  BY <1>1, <1>4 DEF HangUp, managerVars, responseVars
<1>5. ASSUME NEW c \in Conns, Proceed(c) PROVE TopicsExist'
  BY <1>1, <1>3, <1>5
  DEF Proceed, ShouldTerminate, Drained, SeeCommand, TakeNothing, ReplySelf,
      NoteDisconnect, StartFanOut, SendToNext, EndFanOut, FailFanOut,
      MissQueue, Execute, FailWrite, WakeUp, Remove, Close,
      managerVars, responseVars
<1>6. CASE UNCHANGED vars
  BY <1>1, <1>6 DEF vars, managerVars, responseVars, threadVars
<1> QED
  BY <1>2, <1>3, <1>4, <1>5, <1>6 DEF Next

\* A broadcast always finds the topic it was asked for, and no topic but a
\* number is ever created.
THEOREM BroadcastsFindTheirTopic == Spec => []TopicsExist
<1>1. Init => TopicsExist
  BY TopicsExistInit
<1>2. TypeOK /\ TopicsExist /\ [Next]_vars => TopicsExist'
  BY TopicsExistStep
<1> QED
  BY <1>1, <1>2, TypeCorrect, PTL DEF Spec

-----------------------------------------------------------------------------
(* The server implements AccountLock.  A thread that acts is not gone, which *)
(* for a connection that is just accepted takes an invariant of its own.     *)

UnbornInv == \A c \in Conns : c > running_id => pc[c] = "unborn"

LEMMA UnbornInit == Init => UnbornInv
<1> SUFFICES ASSUME Init, NEW c \in Conns PROVE pc[c] = "unborn"
  BY DEF UnbornInv
<1> QED
  BY DEF Init

LEMMA UnbornStep == TypeOK /\ UnbornInv /\ [Next]_vars => UnbornInv'
<1> SUFFICES ASSUME TypeOK, UnbornInv, [Next]_vars PROVE UnbornInv'
  OBVIOUS
<1>0. /\ running_id \in Nat
      /\ pc \in [Conns -> Places]
      /\ MaxConns \in Nat
  BY ConnsAssumption DEF TypeOK
<1>1. ASSUME NEW c \in Conns, NEW place, pc[c] # "unborn", goto(c, place),
             UNCHANGED running_id
      PROVE  UnbornInv'
  BY <1>0, <1>1 DEF UnbornInv, goto
<1>2. CASE Accept
  BY <1>0, <1>2 DEF Accept, goto, UnbornInv, Conns
<1>3. ASSUME NEW c \in Conns, Serve(c) \/ Dismiss(c) \/ Throw(c) \/ HangUp(c)
      PROVE  UnbornInv'
  <2>1. pc[c] # "unborn" /\ UNCHANGED running_id
    BY <1>3 DEF Serve, Dismiss, Throw, HangUp, read_request, serverVars
  <2>2. \E place : goto(c, place)
    BY <1>3 DEF Serve, Dismiss, Throw, HangUp, start_draining
  <2> QED
    BY <1>1, <2>1, <2>2
<1>4. ASSUME NEW c \in Conns, Proceed(c) PROVE UnbornInv'
  <2>1. pc[c] # "unborn" /\ UNCHANGED running_id
    BY <1>4
    DEF Writing, Proceed, ShouldTerminate, Drained, SeeCommand, TakeCommand,
        TakeNothing, ReplySelf, NoteDisconnect, StartFanOut, SendToNext,
        EndFanOut, FailFanOut, MissQueue, Execute, FailWrite, WakeUp, Remove,
        Close,
        serverVars
  <2>2. (\E place : goto(c, place)) \/ UNCHANGED pc
    BY <1>4
    DEF Proceed, ShouldTerminate, Drained, SeeCommand, TakeCommand,
        TakeNothing, ReplySelf, NoteDisconnect, StartFanOut, SendToNext,
        EndFanOut, FailFanOut, MissQueue, Execute, FailWrite, WakeUp, Remove,
        Close
  <2> QED
    BY <1>1, <2>1, <2>2 DEF UnbornInv
<1>5. CASE UNCHANGED vars
  BY <1>5 DEF vars, threadVars, serverVars, UnbornInv
<1> QED
  BY <1>2, <1>3, <1>4, <1>5 DEF Next

owners == [u \in Users |-> account_owner(u)]
leavers == {c \in Conns : pc[c] = "closed"}

\* With one session per account, the owner is the connection with the session.
LEMMA OwnerOfSession ==
    ASSUME OneSessionPerUser, NEW u \in Users, NEW c \in Conns,
           user_client_connection[c] = u
    PROVE  account_owner(u) = c
<1>1. connected[u]
  BY NullAssumption DEF OneSessionPerUser, is_client_user_connected
<1>2. \A d \in Conns : user_client_connection[d] = u => d = c
  BY NullAssumption DEF OneSessionPerUser, is_client_user_connected
<1> QED
  BY <1>1, <1>2 DEF account_owner

LEMMA SessionOfOwner ==
    ASSUME NEW u \in Users, NEW c \in Conns, account_owner(u) = c
    PROVE  connected[u] /\ user_client_connection[c] = u
<1>1. c # NoUser /\ c # NoConn
  BY NullAssumption, ConnsAssumption DEF Conns, NoConn
<1> QED
  BY <1>1 DEF account_owner

LEMMA OwnersUnchanged ==
    UNCHANGED sessionVars => owners' = owners
BY DEF sessionVars, owners, account_owner

\* Logging in takes the free lock and leaks one still held.
LEMMA ConnectAcquires ==
    ASSUME UserTypeOK, OneSessionPerUser, OneSessionPerUser',
           NEW c \in Conns, NEW u \in Users, NEW p \in Passwords,
           check_connect_conditions(u, p), connect_user(c, u, p)
    PROVE  /\ owners[u] = NoUser
           /\ owners' = [b \in Users |-> IF b = u THEN c
                                         ELSE IF owners[b] = c THEN NoConn
                                         ELSE owners[b]]
<1>1. ~connected[u]
  BY DEF check_connect_conditions, is_user_connected, OneSessionPerUser
<1>2. owners[u] = NoUser
  BY <1>1 DEF owners, account_owner
<1>3. /\ connected' = [connected EXCEPT ![u] = TRUE]
      /\ user_client_connection' = [user_client_connection EXCEPT ![c] = u]
  BY DEF connect_user
<1>4. account_owner(u)' = c
  <2>1. \A d \in Conns : user_client_connection'[d] = u => d = c
    BY <1>1, <1>3, NullAssumption
    DEF UserTypeOK, OneSessionPerUser, is_client_user_connected
  <2>2. connected'[u] /\ user_client_connection'[c] = u
    BY <1>3 DEF UserTypeOK
  <2> QED
    BY <2>1, <2>2 DEF account_owner
<1>5. ASSUME NEW b \in Users, b # u, account_owner(b) = c
      PROVE  account_owner(b)' = NoConn
  <2>1. connected[b] /\ user_client_connection[c] = b
    BY <1>5, SessionOfOwner
  <2>2. \A d \in Conns : user_client_connection'[d] # b
    BY <1>3, <1>5, <2>1, NullAssumption
    DEF UserTypeOK, OneSessionPerUser, is_client_user_connected
  <2>3. connected'[b]
    BY <1>3, <2>1 DEF UserTypeOK
  <2> QED
    BY <2>2, <2>3 DEF account_owner
<1>6. ASSUME NEW b \in Users, b # u, account_owner(b) # c
      PROVE  account_owner(b)' = account_owner(b)
  <2>1. user_client_connection[c] # b
    BY <1>6, OwnerOfSession
  <2>2. \A d \in Conns : user_client_connection'[d] = b
                           <=> user_client_connection[d] = b
    BY <1>3, <1>6, <2>1 DEF UserTypeOK
  <2>3. connected'[b] = connected[b]
    BY <1>3, <1>6 DEF UserTypeOK
  <2> QED
    BY <2>2, <2>3 DEF account_owner
<1>7. \A b \in Users : account_owner(b)' =
         IF b = u THEN c ELSE IF account_owner(b) = c THEN NoConn
                                                      ELSE account_owner(b)
  BY <1>4, <1>5, <1>6
<1> QED
  BY <1>2, <1>7 DEF owners

\* Logging out frees the lock the connection holds.
LEMMA DisconnectReleases ==
    ASSUME UserTypeOK, OneSessionPerUser, NEW c \in Conns,
           is_client_user_connected(c), user_disconnect(c),
           NEW u \in Users, user_client_connection[c] = u
    PROVE  /\ owners[u] = c
           /\ owners' = [owners EXCEPT ![u] = NoUser]
<1>1. account_owner(u) = c
  BY OwnerOfSession
<1>2. /\ connected' = [connected EXCEPT ![u] = FALSE]
      /\ user_client_connection' = [user_client_connection EXCEPT ![c] = NoUser]
  BY DEF user_disconnect
<1>3. account_owner(u)' = NoUser
  BY <1>2 DEF UserTypeOK, account_owner
<1>4. ASSUME NEW b \in Users, b # u
      PROVE  account_owner(b)' = account_owner(b)
  <2>1. \A d \in Conns : user_client_connection'[d] = b
                           <=> user_client_connection[d] = b
    BY <1>2, <1>4, NullAssumption DEF UserTypeOK
  <2>2. connected'[b] = connected[b]
    BY <1>2, <1>4 DEF UserTypeOK
  <2> QED
    BY <2>1, <2>2 DEF account_owner
<1> QED
  BY <1>1, <1>3, <1>4 DEF owners

\* Only a socket that is closed makes a leaver.
LEMMA StayersStay ==
    ASSUME NEW c \in Conns, NEW place, pc \in [Conns -> Places],
           goto(c, place), place # "closed", pc[c] # "closed"
    PROVE  leavers' = leavers
BY DEF goto, leavers

LEMMA LeaversLeave ==
    ASSUME NEW c \in Conns, pc \in [Conns -> Places],
           goto(c, "closed"), pc[c] # "closed"
    PROVE  c \notin leavers /\ leavers' = leavers \cup {c}
BY DEF goto, leavers

LockNext == Lock!Next
lockVars == <<owners, leavers>>

LEMMA LockInit == Init => Lock!Init
<1> SUFFICES ASSUME Init PROVE Lock!Init
  OBVIOUS
<1>1. \A u \in Users : account_owner(u) = NoUser
  BY DEF Init, UserInit, account_owner
<1>2. leavers = {}
  BY DEF Init, leavers
<1> QED
  BY <1>1, <1>2 DEF Lock!Init, leavers

LEMMA LeaveIsNext ==
    ASSUME NEW c \in Conns, owners' = owners,
           c \notin leavers, leavers' = leavers \cup {c}
    PROVE  LockNext
<1>1. Lock!Leave(c)
  BY DEF Lock!Leave, owners, leavers
<1> QED
  BY <1>1 DEF LockNext, Lock!Next

\* A login takes the lock of its account; other requests leave the locks alone.
LEMMA GrantsLock ==
    ASSUME UserTypeOK, OneSessionPerUser, OneSessionPerUser',
           NEW c \in Conns, c \notin leavers, leavers' = leavers, Grants(c)
    PROVE  [LockNext]_lockVars
<1>1. ASSUME NEW u \in Users, NEW p \in Passwords, NEW r \in BOOLEAN,
             Connect(c, u, p, r)
      PROVE  LockNext
  <2>1. /\ owners[u] = NoUser
        /\ owners' = [b \in Users |-> IF b = u THEN c
                                      ELSE IF owners[b] = c THEN NoConn
                                      ELSE owners[b]]
    BY <1>1, ConnectAcquires DEF Connect
  <2>2. Lock!Acquire(c, u)
    BY <2>1 DEF Lock!Acquire, owners, leavers
  <2> QED
    BY <2>2 DEF LockNext, Lock!Next
<1>2. ASSUME UNCHANGED sessionVars PROVE UNCHANGED lockVars
  BY <1>2, OwnersUnchanged DEF lockVars
<1>3. \/ \E u \in Users, p \in Passwords, r \in BOOLEAN : Connect(c, u, p, r)
      \/ UNCHANGED sessionVars
  BY DEF Grants, Send, Subscribe, Unsubscribe, subscribe_current_user,
         userVars, sessionVars
<1> QED
  BY <1>1, <1>2, <1>3

\* A client that is logged out, by its request or for it, gives its lock back.
LEMMA DismissLock ==
    ASSUME UserTypeOK, OneSessionPerUser, NEW c \in Conns,
           c \notin leavers, leavers' = leavers, LogsOut(c) \/ Refuse(c)
    PROVE  [LockNext]_lockVars
<1>1. is_client_user_connected(c) /\ user_disconnect(c)
  BY DEF LogsOut, disconnect_client, Refuse
<1>2. PICK u \in Users : user_client_connection[c] = u
  BY <1>1 DEF is_client_user_connected, UserTypeOK
<1>3. /\ owners[u] = c
      /\ owners' = [owners EXCEPT ![u] = NoUser]
  BY <1>1, <1>2, DisconnectReleases
<1>4. Lock!Release(c, u)
  BY <1>3 DEF Lock!Release, owners, leavers
<1> QED
  BY <1>4 DEF LockNext, Lock!Next

LEMMA LockStep ==
    TypeOK /\ OneSessionPerUser /\ UnbornInv /\ [Next]_vars
      => [LockNext]_lockVars
<1> SUFFICES ASSUME TypeOK, OneSessionPerUser, UnbornInv, [Next]_vars
             PROVE  [LockNext]_lockVars
  OBVIOUS
<1>0. /\ UserTypeOK /\ pc \in [Conns -> Places] /\ OneSessionPerUser'
      /\ running_id \in 0 .. MaxConns
  BY OneSessionStep DEF TypeOK
<1>1. CASE Accept
  <2>1. running_id' \in Conns /\ pc[running_id'] = "unborn"
    BY <1>0, <1>1, ConnsAssumption DEF Accept, Conns, UnbornInv
  <2>2. leavers' = leavers
    BY <1>0, <1>1, <2>1, StayersStay DEF Accept
  <2> QED
    BY <1>1, <2>2, OwnersUnchanged
    DEF Accept, managerVars, userVars, sessionVars, lockVars
<1>2. ASSUME NEW c \in Conns, Serve(c) \/ Dismiss(c) \/ Throw(c)
      PROVE  [LockNext]_lockVars
  <2>1. leavers' = leavers
    BY <1>0, <1>2, StayersStay
    DEF Serve, Dismiss, Throw, read_request, start_draining
  <2>2. c \notin leavers
    BY <1>2 DEF Serve, Dismiss, Throw, read_request, leavers
  <2>3. CASE Grants(c)
    BY <1>0, <2>1, <2>2, <2>3, GrantsLock
  <2>4. CASE LogsOut(c) \/ Refuse(c)
    BY <1>0, <2>1, <2>2, <2>4, DismissLock
  <2>5. CASE /\ Throw(c)
             /\ ~ReceiptThrows(c)
    <3>1. UNCHANGED sessionVars
      BY <2>5
      DEF Throw, RefuseStranger, Unparsable, UnparsableId, SubscribeStranger,
          DisconnectStranger, managerVars, userVars, sessionVars
    <3> QED
      BY <2>1, <3>1, OwnersUnchanged DEF lockVars
  <2> QED
    BY <1>2, <2>3, <2>4, <2>5, RequestCases DEF Dismiss
<1>3. ASSUME NEW c \in Conns, HangUp(c) PROVE [LockNext]_lockVars
  <2>1. leavers' = leavers
    BY <1>0, <1>3, StayersStay DEF HangUp
  <2>2. UNCHANGED sessionVars
    BY <1>3 DEF HangUp, managerVars, userVars, sessionVars
  <2> QED
    BY <2>1, <2>2, OwnersUnchanged DEF lockVars
<1>4. ASSUME NEW c \in Conns, Proceed(c) PROVE [LockNext]_lockVars
  <2>1. owners' = owners
    <3>1. UNCHANGED sessionVars
      BY <1>4
      DEF Proceed, ShouldTerminate, Drained, SeeCommand, TakeCommand,
          TakeNothing, ReplySelf, NoteDisconnect, StartFanOut, SendToNext,
          EndFanOut, FailFanOut, MissQueue, Execute, FailWrite, WakeUp, Remove,
          Close, managerVars, userVars, sessionVars
    <3> QED
      BY <3>1, OwnersUnchanged
  <2>2. CASE Close(c)
    <3>1. c \notin leavers /\ leavers' = leavers \cup {c}
      BY <1>0, <2>2, LeaversLeave DEF Close, leavers
    <3> QED
      BY <2>1, <3>1, LeaveIsNext
  <2>3. CASE SendToNext(c)
    BY <2>1, <2>3 DEF SendToNext, leavers, lockVars
  <2>4. CASE \/ ShouldTerminate(c) \/ TakeNothing(c) \/ FailFanOut(c)
             \/ MissQueue(c) \/ Drained(c) \/ SeeCommand(c) \/ TakeCommand(c)
             \/ ReplySelf(c) \/ NoteDisconnect(c) \/ StartFanOut(c)
             \/ EndFanOut(c) \/ Execute(c) \/ FailWrite(c) \/ WakeUp(c)
             \/ Remove(c)
    <3>1. pc[c] # "closed"
      BY <2>4
      DEF ShouldTerminate, TakeNothing, FailFanOut, MissQueue, Drained,
          SeeCommand, TakeCommand, ReplySelf, NoteDisconnect, StartFanOut,
          EndFanOut, Execute, FailWrite, WakeUp, Remove, Writing
    <3>2. \E place : goto(c, place) /\ place # "closed"
      BY <2>4
      DEF ShouldTerminate, TakeNothing, FailFanOut, MissQueue, Drained,
          SeeCommand, TakeCommand, ReplySelf, NoteDisconnect, StartFanOut,
          EndFanOut, Execute, FailWrite, WakeUp, Remove
    <3>3. leavers' = leavers
      BY <1>0, <3>1, <3>2, StayersStay
    <3> QED
      BY <2>1, <3>3 DEF lockVars
  <2> QED
    BY <1>4, <2>2, <2>3, <2>4 DEF Proceed
<1>5. CASE UNCHANGED vars
  BY <1>5, OwnersUnchanged
  DEF vars, managerVars, userVars, threadVars, sessionVars, leavers, lockVars
<1> QED
  BY <1>1, <1>2, <1>3, <1>4, <1>5 DEF Next

\* The server implements AccountLock: an account is held by one connection at
\* a time, released by no other, and never again once its holder is gone.
THEOREM ImplementsAccountLock == Spec => AccountsAreLocks
<1>1. Init => Lock!Init /\ UnbornInv
  BY LockInit, UnbornInit
<1>2. TypeOK /\ UnbornInv /\ [Next]_vars => UnbornInv'
  BY UnbornStep
<1>3. TypeOK /\ OneSessionPerUser /\ UnbornInv /\ [Next]_vars
        => [Lock!Next]_<<[u \in Users |-> account_owner(u)],
                         {c \in Conns : pc[c] = "closed"}>>
  BY LockStep DEF LockNext, lockVars, owners, leavers
<1> QED
  BY <1>1, <1>2, <1>3, TypeCorrect, OneSession, PTL
  DEF Spec, AccountsAreLocks, Lock!Spec

-----------------------------------------------------------------------------
(* Orderly replies.  While requests do not overlap, the list and the queue  *)
(* of the one thread that drains are aligned: what is left of the list asks  *)
(* for what is left of the queue, frame by frame.                           *)

Aligned(cmds, q) ==
    /\ Len(cmds) = Len(q)
    /\ \A i \in 1 .. Len(q) : Matches(cmds[i], q[i])

\* The list between two commands, with the "disconnect" of a DISCONNECT in
\* front or not, and with one command in the thread's hands.
Backlog(c) ==
    LET q == ClientMesssageQueues[c]
    IN  \/ /\ pc[c] # "dispatch"
           /\ \/ Aligned(commands, q)
              \/ /\ commands # <<>>
                 /\ Head(commands) = "disconnect"
                 /\ Aligned(Tail(commands), q)
        \/ /\ pc[c] = "dispatch"
           /\ \/ response[c] = "disconnect" /\ Aligned(commands, q)
              \/ /\ q # <<>>
                 /\ Matches(response[c], Head(q))
                 /\ Aligned(commands, Tail(q))

TellsToLeave(x) == x \in {"disconnect", "Error"}

DrainInv(c) ==
    pc[c] \in Draining =>
      /\ \A d \in Conns : pc[d] \in Draining => d = c
      /\ Backlog(c)
      /\ \A i \in 1 .. Len(commands) : TellsToLeave(commands[i]) => dismissed[c]
      /\ disconnect[c] => dismissed[c]
      /\ pc[c] = "dispatch" /\ TellsToLeave(response[c]) => dismissed[c]
      /\ pc[c] = "fanout" => /\ response[c] \in Topics
                             /\ Matches(response[c], fanout[c].frame)

RestInv(c) ==
    /\ pc[c] \notin Draining => ClientMesssageQueues[c] = <<>>
    /\ pc[c] \in {"asleep", "removing"} => dismissed[c]

InboxInv(c) == \A w \in inbox[c] :
    /\ Matches(w.command, w.frame)
    /\ w.frame.kind # "MESSAGE" => w.frame.owner = c

IdleInv == (\A c \in Conns : pc[c] \notin Draining) => commands = <<>>

\* A queue holds answers to its own connection, disturbed or not.
OwnQueue ==
    \A c \in Conns : \A i \in 1 .. Len(ClientMesssageQueues[c]) :
        ClientMesssageQueues[c][i].owner = c

OrderlyInv ==
    /\ OwnQueue
    /\ ~disturbed =>
         /\ IdleInv
         /\ \A c \in Conns : DrainInv(c) /\ RestInv(c) /\ InboxInv(c)

\* Facts about matching and alignment.
LEMMA DisconnectMatchesNothing ==
    ASSUME NEW frame PROVE ~Matches("disconnect", frame)
BY TopicAssumption DEF Matches, ControlWords

LEMMA AlignedEmpty == Aligned(<<>>, <<>>)
BY DEF Aligned

LEMMA AlignedTail ==
    ASSUME NEW S, NEW T, NEW cmds \in Seq(S), NEW q \in Seq(T),
           Aligned(cmds, q), cmds # <<>>
    PROVE  /\ q # <<>>
           /\ Matches(Head(cmds), Head(q))
           /\ Aligned(Tail(cmds), Tail(q))
<1>1. /\ Len(cmds) = Len(q) /\ Len(q) \in Nat /\ Len(q) > 0
      /\ \A i \in 1 .. Len(q) : Matches(cmds[i], q[i])
  BY DEF Aligned
<1>2. /\ Head(cmds) = cmds[1] /\ Head(q) = q[1]
      /\ Len(Tail(cmds)) = Len(q) - 1 /\ Len(Tail(q)) = Len(q) - 1
      /\ \A i \in 1 .. Len(q) - 1 : Tail(cmds)[i] = cmds[i + 1]
                                    /\ Tail(q)[i] = q[i + 1]
  BY <1>1
<1>3. 1 \in 1 .. Len(q) /\ \A i \in 1 .. Len(q) - 1 : i + 1 \in 1 .. Len(q)
  BY <1>1
<1>4. Matches(Head(cmds), Head(q))
  BY <1>1, <1>2, <1>3
<1>5. Aligned(Tail(cmds), Tail(q))
  BY <1>1, <1>2, <1>3 DEF Aligned
<1> QED
  BY <1>1, <1>4, <1>5

\* One more pair at the end.
LEMMA AlignedAppend ==
    ASSUME NEW S, NEW T, NEW cmds \in Seq(S), NEW q \in Seq(T),
           NEW x \in S, NEW frame \in T, Aligned(cmds, q), Matches(x, frame)
    PROVE  Aligned(cmds \o <<x>>, q \o <<frame>>)
<1>1. /\ Len(cmds) = Len(q) /\ Len(q) \in Nat
      /\ \A i \in 1 .. Len(q) : Matches(cmds[i], q[i])
  BY DEF Aligned
<1>2. /\ Len(cmds \o <<x>>) = Len(q) + 1
      /\ Len(q \o <<frame>>) = Len(q) + 1
      /\ (cmds \o <<x>>)[Len(q) + 1] = x
      /\ (q \o <<frame>>)[Len(q) + 1] = frame
      /\ \A i \in 1 .. Len(q) : /\ (cmds \o <<x>>)[i] = cmds[i]
                                /\ (q \o <<frame>>)[i] = q[i]
  BY <1>1
<1>3. ASSUME NEW i \in 1 .. Len(q) + 1
      PROVE  Matches((cmds \o <<x>>)[i], (q \o <<frame>>)[i])
  <2>1. CASE i \in 1 .. Len(q)
    BY <2>1, <1>1, <1>2
  <2>2. CASE i = Len(q) + 1
    BY <2>2, <1>2
  <2> QED
    BY <1>1, <2>1, <2>2
<1> QED
  BY <1>2, <1>3 DEF Aligned

\* One pair.
LEMMA AlignedOne ==
    ASSUME NEW x \in Commands, NEW frame \in Frames, Matches(x, frame)
    PROVE  /\ <<x>> \in Seq(Commands) /\ <<frame>> \in Seq(Frames)
           /\ Aligned(<<x>>, <<frame>>)
BY DEF Aligned

\* A receipt goes with a "self".
LEMMA ReciptMatches ==
    ASSUME NEW c, NEW text PROVE Matches("self", ReciptFrame(c, text))
BY DEF Matches, ReciptFrame, MakeFrame

\* Respond on an empty list and an empty queue.
LEMMA RespondAligned ==
    ASSUME NEW c \in Conns, NEW frames \in Seq(Frames),
           NEW cmds \in Seq(Commands), NEW text \in ReciptTexts,
           NEW receipt \in BOOLEAN, ResponseTypeOK,
           Respond(c, frames, cmds, text, receipt), Aligned(cmds, frames),
           commands = <<>>, ClientMesssageQueues[c] = <<>>
    PROVE  /\ Aligned(commands', ClientMesssageQueues'[c])
           /\ commands' = IF receipt THEN cmds \o <<"self">> ELSE cmds
<1>1. CASE receipt
  <2>1. /\ commands' = cmds \o <<"self">>
        /\ ClientMesssageQueues'[c] = frames \o <<ReciptFrame(c, text)>>
    <3>1. <<>> \o frames = frames /\ <<>> \o cmds = cmds
      OBVIOUS
    <3>2. /\ commands' = commands \o cmds \o <<"self">>
          /\ ClientMesssageQueues'[c] =
               ClientMesssageQueues[c] \o frames \o <<ReciptFrame(c, text)>>
      BY <1>1 DEF Respond, ResponseTypeOK
    <3> QED
      BY <3>1, <3>2
  <2>2. "self" \in Commands /\ ReciptFrame(c, text) \in Frames
    BY ReciptFrameType DEF Commands, ControlWords
  <2>3. Aligned(cmds \o <<"self">>, frames \o <<ReciptFrame(c, text)>>)
    BY <2>2, AlignedAppend, ReciptMatches
  <2> QED
    BY <1>1, <2>1, <2>3
<1>2. CASE ~receipt
  <2>1. /\ commands' = commands \o cmds
        /\ ClientMesssageQueues'[c] = ClientMesssageQueues[c] \o frames
    BY <1>2 DEF Respond, ResponseTypeOK
  <2>2. commands' = cmds /\ ClientMesssageQueues'[c] = frames
    BY <2>1
  <2> QED
    BY <1>2, <2>2
<1> QED
  BY <1>1, <1>2

-----------------------------------------------------------------------------
(* A queue holds only answers to its own connection. *)

AllOwn(q, c) == \A i \in 1 .. Len(q) : q[i].owner = c

LEMMA OwnQueueParts ==
    /\ OwnQueue <=> \A c \in Conns : AllOwn(ClientMesssageQueues[c], c)
    /\ OwnQueue' <=> \A c \in Conns : AllOwn(ClientMesssageQueues'[c], c)
BY DEF OwnQueue, AllOwn

LEMMA AllOwnConcat ==
    ASSUME NEW c, NEW a \in Seq(Frames), NEW b \in Seq(Frames),
           AllOwn(a, c), AllOwn(b, c)
    PROVE  AllOwn(a \o b, c)
BY DEF AllOwn

LEMMA AllOwnTail ==
    ASSUME NEW c, NEW a \in Seq(Frames), AllOwn(a, c), a # <<>>
    PROVE  AllOwn(Tail(a), c) /\ Head(a).owner = c
BY DEF AllOwn

LEMMA AllOwnNone == ASSUME NEW c PROVE AllOwn(<<>>, c)
BY DEF AllOwn

LEMMA AllOwnOne ==
    ASSUME NEW c, NEW frame \in Frames, frame.owner = c
    PROVE  AllOwn(<<frame>>, c)
BY DEF AllOwn

\* Respond adds answers to c only, and only to the queue of c.
LEMMA RespondOwn ==
    ASSUME NEW c \in Conns, NEW frames \in Seq(Frames), NEW cmds,
           NEW text \in ReciptTexts, NEW receipt \in BOOLEAN,
           ResponseTypeOK, OwnQueue, AllOwn(frames, c),
           Respond(c, frames, cmds, text, receipt)
    PROVE  /\ OwnQueue'
           /\ \A d \in Conns \ {c} :
                ClientMesssageQueues'[d] = ClientMesssageQueues[d]
<1>1. ReciptFrame(c, text) \in Frames /\ ReciptFrame(c, text).owner = c
  BY ReciptFrameType DEF ReciptFrame, MakeFrame
<1>2. AllOwn(<<ReciptFrame(c, text)>>, c)
  BY <1>1, AllOwnOne
<1>3. /\ ClientMesssageQueues[c] \in Seq(Frames)
      /\ AllOwn(ClientMesssageQueues[c], c)
  BY OwnQueueParts DEF ResponseTypeOK
<1>4. /\ ClientMesssageQueues[c] \o frames \in Seq(Frames)
      /\ AllOwn(ClientMesssageQueues[c] \o frames, c)
  BY <1>3, AllOwnConcat
<1>5. <<ReciptFrame(c, text)>> \in Seq(Frames)
  BY <1>1
<1>6. AllOwn(ClientMesssageQueues[c] \o frames \o <<ReciptFrame(c, text)>>, c)
  BY <1>2, <1>4, <1>5, AllOwnConcat
<1>7. AllOwn(ClientMesssageQueues'[c], c)
  BY <1>4, <1>6 DEF Respond, ResponseTypeOK
<1>8. \A d \in Conns \ {c} :
         ClientMesssageQueues'[d] = ClientMesssageQueues[d]
  BY DEF Respond, ResponseTypeOK
<1> QED
  BY <1>7, <1>8, OwnQueueParts

LEMMA GetQueuedOwn ==
    ASSUME NEW c \in Conns, ResponseTypeOK, OwnQueue, get_queued_message(c)
    PROVE  /\ OwnQueue'
           /\ \A d \in Conns \ {c} :
                ClientMesssageQueues'[d] = ClientMesssageQueues[d]
           /\ queued_message(c).owner = c
<1>1. /\ ClientMesssageQueues[c] \in Seq(Frames)
      /\ AllOwn(ClientMesssageQueues[c], c)
  BY OwnQueueParts DEF ResponseTypeOK
<1>2. /\ \A d \in Conns \ {c} :
           ClientMesssageQueues'[d] = ClientMesssageQueues[d]
      /\ ClientMesssageQueues'[c] =
           IF ClientMesssageQueues[c] = <<>> THEN ClientMesssageQueues[c]
           ELSE Tail(ClientMesssageQueues[c])
  BY DEF get_queued_message, ResponseTypeOK
<1>3. AllOwn(ClientMesssageQueues'[c], c)
  BY <1>1, <1>2, AllOwnTail
<1>4. queued_message(c).owner = c
  BY <1>1, AllOwnTail DEF queued_message, NullFrame, Frame, MakeFrame
<1> QED
  BY <1>2, <1>3, <1>4, OwnQueueParts

-----------------------------------------------------------------------------
(* How a step carries the invariant over. *)

Orderly == IdleInv /\ \A c \in Conns : DrainInv(c) /\ RestInv(c) /\ InboxInv(c)

\* A step of a thread that does not drain, before or after, and that leaves
\* the list, the queues and what the draining thread holds alone.
LEMMA OrderlyAside ==
    ASSUME TypeOK, Orderly, NEW c \in Conns, NEW place, goto(c, place),
           pc[c] \notin Draining, place \notin Draining,
           place \in {"asleep", "removing"} => dismissed[c],
           \A d \in Conns : fanout'[d].frame = fanout[d].frame,
           UNCHANGED <<ClientMesssageQueues, commands, response, disconnect,
                       inbox, dismissed>>
    PROVE  Orderly'
<1>0. /\ pc' = [pc EXCEPT ![c] = place] /\ pc \in [Conns -> Places]
  BY DEF goto, TypeOK
<1>1. \A d \in Conns : pc'[d] \in Draining <=> pc[d] \in Draining
  BY <1>0
<1>2. \A d \in Conns : pc[d] \in Draining => pc'[d] = pc[d]
  BY <1>0
<1>3. IdleInv'
  BY <1>1 DEF Orderly, IdleInv
<1>4. ASSUME NEW d \in Conns PROVE DrainInv(d)'
  <2>1. CASE pc[d] \notin Draining
    BY <1>1, <2>1 DEF DrainInv
  <2>2. CASE pc[d] \in Draining
    <3>1. /\ Backlog(d) /\ pc'[d] = pc[d]
      BY <1>2, <2>2 DEF Orderly, DrainInv
    <3>2. Backlog(d)'
      BY <3>1 DEF Backlog
    <3> QED
      BY <1>1, <2>2, <3>1, <3>2 DEF Orderly, DrainInv
  <2> QED
    BY <2>1, <2>2
<1>5. ASSUME NEW d \in Conns PROVE RestInv(d)' /\ InboxInv(d)'
  BY <1>0, <1>1 DEF Orderly, RestInv, InboxInv
<1> QED
  BY <1>3, <1>4, <1>5 DEF Orderly

\* A step of the one thread that drains, or of one that starts to.
LEMMA OrderlyStep ==
    ASSUME TypeOK, NEW c \in Conns,
           \A d \in Conns \ {c} : pc[d] \notin Draining /\ RestInv(d),
           \A d \in Conns \ {c} :
              /\ pc'[d] = pc[d]
              /\ ClientMesssageQueues'[d] = ClientMesssageQueues[d]
              /\ dismissed'[d] = dismissed[d],
           \A d \in Conns : InboxInv(d)',
           pc'[c] \in Draining =>
              /\ Backlog(c)'
              /\ \A i \in 1 .. Len(commands') :
                    TellsToLeave(commands'[i]) => dismissed'[c]
              /\ disconnect'[c] => dismissed'[c]
              /\ pc'[c] = "dispatch" /\ TellsToLeave(response'[c])
                    => dismissed'[c]
              /\ pc'[c] = "fanout" => /\ response'[c] \in Topics
                                      /\ Matches(response'[c], fanout'[c].frame),
           pc'[c] \notin Draining => /\ commands' = <<>>
                                     /\ RestInv(c)'
    PROVE  Orderly'
<1>1. ASSUME NEW d \in Conns PROVE DrainInv(d)' /\ RestInv(d)'
  <2>1. CASE d = c
    BY <2>1 DEF DrainInv, RestInv, Draining
  <2>2. CASE d # c
    BY <2>2 DEF DrainInv, RestInv
  <2> QED
    BY <2>1, <2>2
<1>2. IdleInv'
  BY DEF IdleInv
<1> QED
  BY <1>1, <1>2 DEF Orderly

-----------------------------------------------------------------------------
(* The steps one by one.  Reading a request starts a drain on an empty list. *)

LEMMA StartsQuiet ==
    ASSUME TypeOK, Orderly, NEW c \in Conns, pc[c] = "reading",
           \A d \in Conns \ {c} : pc[d] \notin Draining
    PROVE  /\ commands = <<>>
           /\ \A d \in Conns : ClientMesssageQueues[d] = <<>> /\ RestInv(d)
BY DEF Orderly, IdleInv, RestInv, Draining

\* What a request leaves for its own thread, whatever its kind.
LEMMA OrderlyStart ==
    ASSUME TypeOK, Orderly, NEW c \in Conns,
           read_request(c), start_draining(c),
           \A d \in Conns \ {c} :
              /\ pc[d] \notin Draining
              /\ ClientMesssageQueues'[d] = ClientMesssageQueues[d]
              /\ dismissed'[d] = dismissed[d],
           \/ Aligned(commands', ClientMesssageQueues'[c])
           \/ /\ commands' # <<>>
              /\ Head(commands') = "disconnect"
              /\ Aligned(Tail(commands'), ClientMesssageQueues'[c]),
           \A i \in 1 .. Len(commands') :
              TellsToLeave(commands'[i]) => dismissed'[c]
    PROVE  Orderly'
<1>1. /\ pc'[c] = "poll" /\ disconnect'[c] = FALSE
      /\ \A d \in Conns \ {c} : pc'[d] = pc[d]
  BY DEF start_draining, goto, TypeOK
<1>2. \A d \in Conns \ {c} : pc[d] \notin Draining /\ RestInv(d)
  BY StartsQuiet DEF read_request
<1>3. \A d \in Conns : InboxInv(d)'
  BY DEF Orderly, InboxInv, read_request
<1>4. Backlog(c)'
  BY <1>1 DEF Backlog
<1>5. pc'[c] \in Draining
  BY <1>1 DEF Draining
<1> QED
  BY <1>1, <1>2, <1>3, <1>4, <1>5, OrderlyStep

LEMMA ServeOrderly ==
    ASSUME TypeOK, OrderlyInv, NEW c \in Conns, Serve(c)
    PROVE  OrderlyInv'
<1>0. ResponseTypeOK /\ OwnQueue
  BY DEF TypeOK, OrderlyInv
<1> DEFINE Fits(cmds, frames, text, r) ==
      /\ frames \in Seq(Frames) /\ cmds \in Seq(Commands)
      /\ text \in ReciptTexts
      /\ Respond(c, frames, cmds, text, r)
      /\ Aligned(cmds, frames)
      /\ AllOwn(frames, c)
      /\ \A i \in 1 .. Len(cmds) : ~TellsToLeave(cmds[i])
<1>1. ASSUME NEW cmds, NEW frames, NEW text, NEW r \in Receipts,
             Fits(cmds, frames, text, r)
      PROVE  OrderlyInv'
  <2>1. /\ OwnQueue'
        /\ \A d \in Conns \ {c} :
             ClientMesssageQueues'[d] = ClientMesssageQueues[d]
    BY <1>0, <1>1, RespondOwn, ReceiptAssumption
  <2>2. ASSUME ~disturbed' PROVE Orderly'
    <3>1. /\ Orderly
          /\ \A d \in Conns \ {c} : pc[d] \notin Draining
      BY <2>2 DEF OrderlyInv, Orderly, Serve, start_draining
    <3>2. /\ commands = <<>> /\ ClientMesssageQueues[c] = <<>>
      BY <3>1, StartsQuiet DEF Serve, read_request
    <3>3. /\ Aligned(commands', ClientMesssageQueues'[c])
          /\ commands' = IF r THEN cmds \o <<"self">> ELSE cmds
      BY <1>0, <1>1, <3>2, RespondAligned, ReceiptAssumption
    <3>4. \A i \in 1 .. Len(commands') : ~TellsToLeave(commands'[i])
      BY <1>1, <3>3 DEF TellsToLeave
    <3>5. \A d \in Conns \ {c} : dismissed'[d] = dismissed[d]
      BY DEF Serve, TypeOK
    <3> QED
      BY <2>1, <3>1, <3>3, <3>4, <3>5, OrderlyStart DEF Serve
  <2> QED
    BY <2>1, <2>2 DEF OrderlyInv, Orderly
<1>2. ASSUME NEW u \in Users, NEW p \in Passwords, NEW r \in Receipts,
             Connect(c, u, p, r)
      PROVE  OrderlyInv'
  <2>1. /\ "self" \in Commands /\ Frame("CONNECTED", c) \in Frames
        /\ Matches("self", Frame("CONNECTED", c))
        /\ Frame("CONNECTED", c).owner = c
    BY FrameType
    DEF Commands, ControlWords, FrameKinds, Matches, Frame, MakeFrame
  <2>2. Fits(<<"self">>, <<Frame("CONNECTED", c)>>, recipt_message, r)
    BY <1>0, <1>2, <2>1, AlignedOne, AllOwnOne
    DEF Connect, ResponseTypeOK, TellsToLeave
  <2> QED
    BY <1>1, <2>2
<1>3. ASSUME NEW t \in Topics, NEW r \in Receipts, Send(c, t, r)
      PROVE  OrderlyInv'
  <2>1. /\ t \in Commands /\ MessageFrame(c, t) \in Frames
        /\ Matches(t, MessageFrame(c, t))
        /\ MessageFrame(c, t).owner = c
    BY MessageFrameType DEF Commands, Matches, MessageFrame, MakeFrame
  <2>2. ~TellsToLeave(t)
    BY TopicAssumption DEF TellsToLeave, ControlWords
  <2>3. /\ <<t>> \in Seq(Commands) /\ <<MessageFrame(c, t)>> \in Seq(Frames)
        /\ Aligned(<<t>>, <<MessageFrame(c, t)>>)
        /\ AllOwn(<<MessageFrame(c, t)>>, c)
    BY <2>1, AlignedOne, AllOwnOne
  <2>4. \A i \in 1 .. Len(<<t>>) : ~TellsToLeave(<<t>>[i])
    BY <2>2
  <2>5. Respond(c, <<MessageFrame(c, t)>>, <<t>>,
                Text("report works!", NoTopic), r)
    BY <1>3 DEF Send
  <2> QED
    BY <1>1, <2>3, <2>4, <2>5, TextType
<1>4. /\ <<>> \in Seq(Frames) /\ <<>> \in Seq(Commands)
      /\ Aligned(<<>>, <<>>) /\ AllOwn(<<>>, c)
      /\ \A i \in 1 .. Len(<<>>) : ~TellsToLeave(<<>>[i])
  BY AlignedEmpty, AllOwnNone
<1>5. ASSUME NEW t \in Topics, NEW s \in SubIds, NEW r \in Receipts,
             Subscribe(c, t, s, r)
      PROVE  OrderlyInv'
  <2>1. Respond(c, <<>>, <<>>, Text("Joined channel", t), r)
    BY <1>5 DEF Subscribe
  <2> QED
    BY <1>1, <1>4, <2>1, TextType
<1>6. ASSUME NEW s \in SubIds, NEW r \in Receipts, Unsubscribe(c, s, r)
      PROVE  OrderlyInv'
  <2>1. user_topic[s] \in Topics \cup {NoTopic}
    BY DEF TypeOK, TopicTypeOK
  <2>2. Respond(c, <<>>, <<>>, Text("Exited channel", user_topic[s]), r)
    BY <1>6 DEF Unsubscribe
  <2> QED
    BY <1>1, <1>4, <2>1, <2>2, TextType
<1> QED
  BY <1>2, <1>3, <1>5, <1>6 DEF Serve

LEMMA DismissOrderly ==
    ASSUME TypeOK, OrderlyInv, NEW c \in Conns, Dismiss(c)
    PROVE  OrderlyInv'
<1>0. /\ ResponseTypeOK /\ OwnQueue /\ recipt_message \in ReciptTexts
      /\ dismissed'[c] = TRUE
      /\ \A d \in Conns \ {c} : dismissed'[d] = dismissed[d]
  BY DEF TypeOK, ResponseTypeOK, OrderlyInv, Dismiss
<1>1. ASSUME ~disturbed'
      PROVE  /\ Orderly
             /\ \A d \in Conns \ {c} : pc[d] \notin Draining
             /\ commands = <<>> /\ ClientMesssageQueues[c] = <<>>
  <2>1. /\ Orderly
        /\ \A d \in Conns \ {c} : pc[d] \notin Draining
    BY <1>1 DEF OrderlyInv, Orderly, Dismiss, start_draining
  <2> QED
    BY <2>1, StartsQuiet DEF Dismiss, read_request
<1>2. CASE Disconnect(c)
  <2>0. <<>> \in Seq(Frames) /\ AllOwn(<<>>, c)
    BY AllOwnNone
  <2>1. Respond(c, <<>>, <<"disconnect">>, recipt_message, TRUE)
    BY <1>2 DEF Disconnect, disconnect_client
  <2>2. /\ OwnQueue'
        /\ \A d \in Conns \ {c} :
             ClientMesssageQueues'[d] = ClientMesssageQueues[d]
    BY <1>0, <2>0, <2>1, RespondOwn
  <2>3. ASSUME ~disturbed' PROVE Orderly'
    <3>1. /\ commands' = <<"disconnect", "self">>
          /\ ClientMesssageQueues'[c] = <<ReciptFrame(c, recipt_message)>>
      BY <1>0, <1>1, <2>1, <2>3 DEF Respond, ResponseTypeOK
    <3>2. /\ Head(commands') = "disconnect" /\ commands' # <<>>
          /\ Tail(commands') = <<"self">>
      BY <3>1
    <3>3. Aligned(<<"self">>, <<ReciptFrame(c, recipt_message)>>)
      BY <1>0, AlignedOne, ReciptFrameType, ReciptMatches
      DEF Commands, ControlWords
    <3> QED
      BY <1>0, <1>1, <2>2, <2>3, <3>1, <3>2, <3>3, OrderlyStart DEF Dismiss
  <2> QED
    BY <2>2, <2>3 DEF OrderlyInv, Orderly
<1>3. CASE Refuse(c)
  <2>1. /\ "Error" \in Commands /\ Frame("ERROR", c) \in Frames
        /\ Matches("Error", Frame("ERROR", c))
        /\ Frame("ERROR", c).owner = c
    BY FrameType
    DEF Commands, ControlWords, FrameKinds, Matches, Frame, MakeFrame
  <2>2. /\ <<Frame("ERROR", c)>> \in Seq(Frames)
        /\ <<"Error">> \in Seq(Commands)
        /\ Aligned(<<"Error">>, <<Frame("ERROR", c)>>)
        /\ AllOwn(<<Frame("ERROR", c)>>, c)
        /\ Respond(c, <<Frame("ERROR", c)>>, <<"Error">>, recipt_message, FALSE)
    BY <1>3, <2>1, AlignedOne, AllOwnOne DEF Refuse
  <2>3. /\ OwnQueue'
        /\ \A d \in Conns \ {c} :
             ClientMesssageQueues'[d] = ClientMesssageQueues[d]
    BY <1>0, <2>2, RespondOwn
  <2>4. ASSUME ~disturbed' PROVE Orderly'
    <3>1. Aligned(commands', ClientMesssageQueues'[c])
      BY <1>0, <1>1, <2>2, <2>4, RespondAligned
    <3> QED
      BY <1>0, <1>1, <2>3, <2>4, <3>1, OrderlyStart DEF Dismiss
  <2> QED
    BY <2>3, <2>4 DEF OrderlyInv, Orderly
<1> QED
  BY <1>2, <1>3 DEF Dismiss

LEMMA OwnQueueSame ==
    ASSUME OwnQueue, UNCHANGED ClientMesssageQueues PROVE OwnQueue'
BY DEF OwnQueue

LEMMA AsideOrderly ==
    ASSUME TypeOK, OrderlyInv, NEW c \in Conns, NEW place, goto(c, place),
           pc[c] \notin Draining, place \notin Draining,
           Orderly => (place \in {"asleep", "removing"} => dismissed[c]),
           \A d \in Conns : fanout'[d].frame = fanout[d].frame,
           UNCHANGED <<ClientMesssageQueues, commands, response, disconnect,
                       inbox, dismissed, disturbed>>
    PROVE  OrderlyInv'
<1>1. OwnQueue'
  BY OwnQueueSame DEF OrderlyInv
<1>2. ASSUME ~disturbed' PROVE Orderly'
  <2>1. Orderly
    BY <1>2 DEF OrderlyInv, Orderly
  <2> QED
    BY <2>1, OrderlyAside
<1> QED
  BY <1>1, <1>2 DEF OrderlyInv, Orderly

LEMMA AcceptOrderly ==
    ASSUME TypeOK, OrderlyInv, UnbornInv, Accept PROVE OrderlyInv'
<1>1. running_id' \in Conns /\ pc[running_id'] = "unborn"
  BY ConnsAssumption DEF TypeOK, Accept, Conns, UnbornInv
<1>2. \A d \in Conns : fanout'[d].frame = fanout[d].frame
  BY DEF Accept, go_stale, TypeOK, FanOuts
<1>3. goto(running_id', "joining")
  BY DEF Accept
<1>4. UNCHANGED <<ClientMesssageQueues, commands, response, disconnect,
                  inbox, dismissed, disturbed>>
  BY DEF Accept, managerVars, responseVars
<1> DEFINE new == running_id'
<1>5. new \in Conns /\ pc[new] \notin Draining /\ goto(new, "joining")
  BY <1>1, <1>3 DEF Draining
<1> HIDE DEF new
<1> QED
  BY <1>2, <1>4, <1>5, AsideOrderly DEF Draining

\* What a request that is carried out queues is its requester's.
LEMMA RequestOwn ==
    ASSUME TypeOK, OwnQueue, NEW c \in Conns, Grants(c) \/ LogsOut(c)
    PROVE  OwnQueue'
<1>0. ResponseTypeOK /\ recipt_message \in ReciptTexts
  BY DEF TypeOK, ResponseTypeOK
<1>1. ASSUME NEW cmds, NEW frames \in Seq(Frames), NEW text \in ReciptTexts,
             NEW r \in BOOLEAN, Respond(c, frames, cmds, text, r),
             AllOwn(frames, c)
      PROVE  OwnQueue'
  BY <1>0, <1>1, RespondOwn
<1>2. /\ <<Frame("CONNECTED", c)>> \in Seq(Frames)
      /\ AllOwn(<<Frame("CONNECTED", c)>>, c)
  <2>1. Frame("CONNECTED", c) \in Frames /\ Frame("CONNECTED", c).owner = c
    BY FrameType DEF FrameKinds, Frame, MakeFrame
  <2> QED
    BY <2>1, AllOwnOne
<1>3. \A t \in Topics : /\ <<MessageFrame(c, t)>> \in Seq(Frames)
                       /\ AllOwn(<<MessageFrame(c, t)>>, c)
  <2>1. \A t \in Topics : /\ MessageFrame(c, t) \in Frames
                         /\ MessageFrame(c, t).owner = c
    BY MessageFrameType DEF MessageFrame, MakeFrame
  <2> QED
    BY <2>1, AllOwnOne
<1>4. <<>> \in Seq(Frames) /\ AllOwn(<<>>, c)
  BY AllOwnNone
<1>5. ASSUME NEW u \in Users, NEW p \in Passwords, NEW r \in BOOLEAN,
             Connect(c, u, p, r)
      PROVE  OwnQueue'
  BY <1>0, <1>1, <1>2, <1>5 DEF Connect
<1>6. ASSUME NEW t \in Topics, NEW r \in BOOLEAN, Send(c, t, r)
      PROVE  OwnQueue'
  BY <1>1, <1>3, <1>6, TextType DEF Send
<1>7. ASSUME NEW t \in Topics, NEW s \in SubIds, NEW r \in BOOLEAN,
             Subscribe(c, t, s, r)
      PROVE  OwnQueue'
  BY <1>1, <1>4, <1>7, TextType DEF Subscribe
<1>8. ASSUME NEW s \in SubIds, NEW r \in BOOLEAN, Unsubscribe(c, s, r)
      PROVE  OwnQueue'
  <2>1. user_topic[s] \in Topics \cup {NoTopic}
    BY DEF TypeOK, TopicTypeOK
  <2> QED
    BY <1>1, <1>4, <1>8, <2>1, TextType DEF Unsubscribe
<1>9. CASE LogsOut(c)
  BY <1>0, <1>1, <1>4, <1>9 DEF LogsOut, disconnect_client
<1> QED
  BY <1>5, <1>6, <1>7, <1>8, <1>9 DEF Grants

LEMMA ThrowOrderly ==
    ASSUME TypeOK, TopicInHand, OrderlyInv, NEW c \in Conns, Throw(c)
    PROVE  OrderlyInv'
<1>1. CASE RefuseStranger(c) /\ disturbed' = TRUE
  <2>1. /\ ResponseTypeOK /\ OwnQueue /\ recipt_message \in ReciptTexts
    BY DEF TypeOK, ResponseTypeOK, OrderlyInv
  <2>2. /\ Frame("ERROR", c) \in Frames /\ Frame("ERROR", c).owner = c
    BY FrameType DEF FrameKinds, Frame, MakeFrame
  <2>3. /\ <<Frame("ERROR", c)>> \in Seq(Frames)
        /\ AllOwn(<<Frame("ERROR", c)>>, c)
    BY <2>2, AllOwnOne
  <2>4. Respond(c, <<Frame("ERROR", c)>>, <<"Error">>, recipt_message, FALSE)
    BY <1>1 DEF RefuseStranger
  <2>5. OwnQueue'
    BY <2>1, <2>3, <2>4, RespondOwn
  <2> QED
    BY <1>1, <2>5 DEF OrderlyInv
<1>2. CASE /\ \/ Unparsable
              \/ \E t \in Topics : UnparsableId(t)
              \/ \E t \in Topics, s \in SubIds : SubscribeStranger(c, t, s)
              \/ DisconnectStranger(c)
           /\ UNCHANGED disturbed
  <2>1. UNCHANGED <<ClientMesssageQueues, commands>>
    BY <1>2 DEF Unparsable, UnparsableId, SubscribeStranger,
                DisconnectStranger, managerVars, responseVars
  <2>2. /\ UNCHANGED <<response, inbox, disconnect, dismissed>>
        /\ \A d \in Conns : fanout'[d].frame = fanout[d].frame
    BY ListsFollow DEF Throw, read_request, TypeOK
  <2>3. pc[c] \notin Draining /\ goto(c, "leaving")
    BY DEF Throw, read_request, Draining
  <2> QED
    BY <1>2, <2>1, <2>2, <2>3, AsideOrderly DEF Draining
<1>3. CASE ReceiptThrows(c) /\ disturbed' = TRUE
  <2>1. OwnQueue'
    BY <1>3, RequestCases, RequestOwn DEF OrderlyInv
  <2> QED
    BY <1>3, <2>1 DEF OrderlyInv
<1> QED
  BY <1>1, <1>2, <1>3 DEF Throw

\* The steps of a thread that does not drain and touches no queue.
LEMMA IdleOrderly ==
    ASSUME TypeOK, OrderlyInv, NEW c \in Conns,
           HangUp(c) \/ ShouldTerminate(c) \/ EndsWrite(c) \/ WakeUp(c)
             \/ Close(c)
    PROVE  OrderlyInv'
<1>1. UNCHANGED <<ClientMesssageQueues, commands, response, disconnect,
                  inbox, dismissed, disturbed>>
  BY DEF HangUp, ShouldTerminate, EndsWrite, Execute, FailWrite, WakeUp,
         Remove, Close,
         managerVars, responseVars, serverVars
<1>2. \A d \in Conns : fanout'[d].frame = fanout[d].frame
  BY DEF HangUp, ShouldTerminate, EndsWrite, Execute, FailWrite, WakeUp,
         Remove, Close,
         go_stale, TypeOK, FanOuts
<1>3. CASE HangUp(c) \/ ShouldTerminate(c)
  <2>1. pc[c] \notin Draining /\ goto(c, "leaving")
    BY <1>3 DEF HangUp, ShouldTerminate, Draining
  <2> QED
    BY <1>1, <1>2, <2>1, AsideOrderly DEF Draining
<1>4. CASE WakeUp(c)
  <2>1. pc[c] \notin Draining /\ goto(c, "removing")
    BY <1>4 DEF WakeUp, Draining
  <2>2. Orderly => dismissed[c]
    BY <1>4 DEF WakeUp, Orderly, RestInv
  <2> QED
    BY <1>1, <1>2, <2>1, <2>2, AsideOrderly DEF Draining
<1>5. CASE EndsWrite(c)
  <2>1. PICK place \in {"reading", "unserved", "leaving"} : goto(c, place)
    BY <1>5 DEF EndsWrite, Remove, Execute, FailWrite
  <2>2. pc[c] \notin Draining
    BY <1>5 DEF EndsWrite, Remove, Execute, FailWrite, Writing, Draining
  <2> QED
    BY <1>1, <1>2, <2>1, <2>2, AsideOrderly DEF Draining
<1>6. CASE Close(c)
  <2>1. pc[c] \notin Draining /\ goto(c, "closed")
    BY <1>6 DEF Close, Draining
  <2> QED
    BY <1>1, <1>2, <2>1, AsideOrderly DEF Draining
<1> QED
  BY <1>3, <1>4, <1>5, <1>6

-----------------------------------------------------------------------------
(* The steps of the one thread that drains. *)

LEMMA DrainFacts ==
    ASSUME Orderly, NEW c \in Conns, pc[c] \in Draining
    PROVE  /\ \A d \in Conns \ {c} : pc[d] \notin Draining /\ RestInv(d)
           /\ Backlog(c)
           /\ \A i \in 1 .. Len(commands) :
                 TellsToLeave(commands[i]) => dismissed[c]
           /\ disconnect[c] => dismissed[c]
           /\ pc[c] = "dispatch" /\ TellsToLeave(response[c]) => dismissed[c]
           /\ pc[c] = "fanout" => /\ response[c] \in Topics
                                  /\ Matches(response[c], fanout[c].frame)
           /\ \A d \in Conns : InboxInv(d)
BY DEF Orderly, DrainInv

LEMMA DrainingStep ==
    ASSUME TypeOK, Orderly, NEW c \in Conns, NEW place \in Places,
           pc[c] \in Draining, pc' = [pc EXCEPT ![c] = place],
           \A d \in Conns \ {c} :
              ClientMesssageQueues'[d] = ClientMesssageQueues[d],
           UNCHANGED dismissed,
           \A d \in Conns : InboxInv(d)',
           place \in Draining =>
              /\ Backlog(c)'
              /\ \A i \in 1 .. Len(commands') :
                    TellsToLeave(commands'[i]) => dismissed[c]
              /\ disconnect'[c] => dismissed[c]
              /\ place = "dispatch" /\ TellsToLeave(response'[c])
                    => dismissed[c]
              /\ place = "fanout" => /\ response'[c] \in Topics
                                     /\ Matches(response'[c], fanout'[c].frame),
           place \notin Draining =>
              /\ commands' = <<>>
              /\ ClientMesssageQueues'[c] = <<>>
              /\ place \in {"asleep", "removing"} => dismissed[c]
    PROVE  Orderly'
<1>1. pc'[c] = place /\ \A d \in Conns \ {c} : pc'[d] = pc[d]
  BY DEF TypeOK
<1>2. \A d \in Conns \ {c} : pc[d] \notin Draining /\ RestInv(d)
  BY DrainFacts
<1>3. pc'[c] \notin Draining => commands' = <<>> /\ RestInv(c)'
  BY <1>1 DEF RestInv
<1>4. dismissed'[c] = dismissed[c]
      /\ \A d \in Conns \ {c} : dismissed'[d] = dismissed[d]
  OBVIOUS
<1>5. pc'[c] \in Draining =>
              /\ Backlog(c)'
              /\ \A i \in 1 .. Len(commands') :
                    TellsToLeave(commands'[i]) => dismissed'[c]
              /\ disconnect'[c] => dismissed'[c]
              /\ pc'[c] = "dispatch" /\ TellsToLeave(response'[c])
                    => dismissed'[c]
              /\ pc'[c] = "fanout" => /\ response'[c] \in Topics
                                      /\ Matches(response'[c], fanout'[c].frame)
  BY <1>1, <1>4
<1> QED
  BY <1>1, <1>2, <1>3, <1>4, <1>5, OrderlyStep

\* An empty list between two commands has an empty queue behind it.
LEMMA NothingLeft ==
    ASSUME TypeOK, NEW c \in Conns, Backlog(c), pc[c] # "dispatch",
           commands = <<>>
    PROVE  ClientMesssageQueues[c] = <<>>
<1>1. Aligned(commands, ClientMesssageQueues[c])
  BY DEF Backlog
<1>2. ClientMesssageQueues[c] \in Seq(Frames)
  BY DEF TypeOK, ResponseTypeOK
<1>3. Len(ClientMesssageQueues[c]) = 0
  BY <1>1 DEF Aligned
<1> QED
  BY <1>2, <1>3

LEMMA InboxSame ==
    ASSUME Orderly, UNCHANGED inbox PROVE \A d \in Conns : InboxInv(d)'
BY DEF Orderly, InboxInv

LEMMA PollOrderly ==
    ASSUME TypeOK, Orderly, NEW c \in Conns,
           Drained(c) \/ SeeCommand(c) \/ TakeNothing(c)
    PROVE  Orderly'
<1>0. UNCHANGED <<ClientMesssageQueues, commands, response, disconnect,
                  fanout, inbox, dismissed>>
  BY DEF Drained, SeeCommand, TakeNothing, managerVars, responseVars,
         serverVars
<1>1. /\ pc[c] \in Draining /\ pc[c] # "dispatch" /\ Backlog(c)
      /\ disconnect[c] => dismissed[c]
      /\ \A i \in 1 .. Len(commands) : TellsToLeave(commands[i]) => dismissed[c]
  BY DrainFacts DEF Drained, SeeCommand, TakeNothing, Draining
<1>2. \A d \in Conns : InboxInv(d)'
  BY <1>0, InboxSame
<1>3. CASE SeeCommand(c)
  <2>1. pc' = [pc EXCEPT ![c] = "take"] /\ "take" \in Draining \cap Places
    BY <1>3 DEF SeeCommand, goto, Draining, Places
  <2>2. pc'[c] = "take"
    BY <2>1 DEF TypeOK
  <2>3. Backlog(c)'
    BY <1>0, <1>1, <2>2 DEF Backlog
  <2> QED
    BY <1>0, <1>1, <1>2, <2>1, <2>3, DrainingStep
<1>4. CASE Drained(c) \/ TakeNothing(c)
  <2>1. commands = <<>>
    BY <1>4 DEF Drained, TakeNothing, no_command
  <2>2. ClientMesssageQueues[c] = <<>>
    BY <1>1, <2>1, NothingLeft
  <2> DEFINE place == IF TakeNothing(c) THEN "leaving"
                      ELSE IF disconnect[c] THEN "asleep" ELSE "reading"
  <2>3. /\ pc' = [pc EXCEPT ![c] = place] /\ place \in Places \ Draining
        /\ place \in {"asleep", "removing"} => dismissed[c]
    BY <1>1, <1>4 DEF Drained, TakeNothing, goto, Draining, Places
  <2> HIDE DEF place
  <2> QED
    BY <1>0, <1>1, <1>2, <2>1, <2>2, <2>3, DrainingStep
<1> QED
  BY <1>3, <1>4

LEMMA TakeOrderly ==
    ASSUME TypeOK, Orderly, NEW c \in Conns, TakeCommand(c)
    PROVE  Orderly'
<1> DEFINE q == ClientMesssageQueues[c]
<1>0. /\ UNCHANGED <<ClientMesssageQueues, disconnect, fanout, inbox,
                     dismissed>>
      /\ commands # <<>> /\ commands' = Tail(commands)
      /\ response'[c] = Head(commands)
      /\ commands \in Seq(Commands) /\ q \in Seq(Frames)
  BY DEF TakeCommand, no_command, take_command, serverVars, TypeOK,
         ResponseTypeOK
<1>1. /\ pc[c] \in Draining /\ pc[c] # "dispatch" /\ Backlog(c)
      /\ disconnect[c] => dismissed[c]
      /\ \A i \in 1 .. Len(commands) : TellsToLeave(commands[i]) => dismissed[c]
  BY DrainFacts DEF TakeCommand, Draining
<1>2. \A d \in Conns : InboxInv(d)'
  BY <1>0, InboxSame
<1>3. /\ pc' = [pc EXCEPT ![c] = "dispatch"]
      /\ "dispatch" \in Draining \cap Places
  BY DEF TakeCommand, goto, Draining, Places
<1>4. pc'[c] = "dispatch"
  BY <1>3 DEF TypeOK
<1>5. Backlog(c)'
  <2>1. CASE Aligned(commands, q)
    <3>1. q # <<>> /\ Matches(Head(commands), Head(q))
          /\ Aligned(Tail(commands), Tail(q))
      BY <1>0, <2>1, AlignedTail
    <3> QED
      BY <1>0, <1>4, <3>1 DEF Backlog
  <2>2. CASE Head(commands) = "disconnect" /\ Aligned(Tail(commands), q)
    BY <1>0, <1>4, <2>2 DEF Backlog
  <2> QED
    BY <1>1, <2>1, <2>2 DEF Backlog
<1>6. /\ \A i \in 1 .. Len(commands') : TellsToLeave(commands'[i]) => dismissed[c]
      /\ TellsToLeave(response'[c]) => dismissed[c]
  <2>1. /\ Head(commands) = commands[1] /\ 1 \in 1 .. Len(commands)
        /\ \A i \in 1 .. Len(Tail(commands)) :
             i + 1 \in 1 .. Len(commands) /\ Tail(commands)[i] = commands[i + 1]
    BY <1>0
  <2> QED
    BY <1>0, <1>1, <2>1
<1> QED
  BY <1>0, <1>1, <1>2, <1>3, <1>5, <1>6, DrainingStep

\* What the thread is dispatching has its frame at the head of its queue.
LEMMA HeadOfQueue ==
    ASSUME TypeOK, Orderly, OwnQueue, NEW c \in Conns, pc[c] = "dispatch",
           response[c] # "disconnect", get_queued_message(c)
    PROVE  /\ Matches(response[c], queued_message(c))
           /\ queued_message(c).owner = c
           /\ Aligned(commands, ClientMesssageQueues'[c])
           /\ \A d \in Conns \ {c} :
                ClientMesssageQueues'[d] = ClientMesssageQueues[d]
<1>1. ResponseTypeOK /\ Backlog(c)
  BY DrainFacts DEF TypeOK, Draining
<1>2. /\ ClientMesssageQueues[c] # <<>>
      /\ Matches(response[c], Head(ClientMesssageQueues[c]))
      /\ Aligned(commands, Tail(ClientMesssageQueues[c]))
  BY <1>1 DEF Backlog
<1>3. ClientMesssageQueues'[c] = Tail(ClientMesssageQueues[c])
  BY <1>1, <1>2 DEF get_queued_message, ResponseTypeOK
<1>4. queued_message(c) = Head(ClientMesssageQueues[c])
  BY <1>2 DEF queued_message
<1> QED
  BY <1>1, <1>2, <1>3, <1>4, GetQueuedOwn

\* A write that answers its command, to its owner or to a subscriber.
LEMMA InboxWrite ==
    ASSUME TypeOK, Orderly, NEW d \in Conns, NEW frame, NEW x,
           Matches(x, frame), frame.kind # "MESSAGE" => frame.owner = d,
           send(d, frame, x) \/ UNCHANGED inbox
    PROVE  \A b \in Conns : InboxInv(b)'
<1>1. CASE UNCHANGED inbox
  BY <1>1, InboxSame
<1>2. CASE inbox' = [inbox EXCEPT
                        ![d] = @ \cup {[frame |-> frame, command |-> x]}]
  <2>1. ASSUME NEW b \in Conns, NEW w \in inbox'[b]
        PROVE  /\ Matches(w.command, w.frame)
               /\ w.frame.kind # "MESSAGE" => w.frame.owner = b
    <3>1. CASE w \in inbox[b]
      BY <3>1 DEF Orderly, InboxInv
    <3>2. CASE b = d /\ w = [frame |-> frame, command |-> x]
      BY <3>2
    <3>3. inbox'[b] = IF b = d
                      THEN inbox[b] \cup {[frame |-> frame, command |-> x]}
                      ELSE inbox[b]
      BY <1>2 DEF TypeOK
    <3> QED
      BY <2>1, <3>1, <3>2, <3>3
  <2> QED
    BY <2>1 DEF InboxInv
<1> QED
  BY <1>1, <1>2 DEF send

LEMMA ReplyOrderly ==
    ASSUME TypeOK, Orderly, OwnQueue, NEW c \in Conns, ReplySelf(c)
    PROVE  Orderly'
<1>0. /\ UNCHANGED <<commands, fanout, dismissed>>
      /\ get_queued_message(c)
      /\ pc[c] = "dispatch" /\ response[c] \in {"self", "Error"}
      /\ disconnect'[c] = (disconnect[c] \/ response[c] = "Error")
      /\ send(c, queued_message(c), response[c]) \/ UNCHANGED inbox
  BY DEF ReplySelf, TypeOK
<1>1. /\ pc[c] \in Draining
      /\ disconnect[c] => dismissed[c]
      /\ response[c] = "Error" => dismissed[c]
      /\ \A i \in 1 .. Len(commands) : TellsToLeave(commands[i]) => dismissed[c]
  BY <1>0, DrainFacts DEF Draining, TellsToLeave
<1>2. /\ Matches(response[c], queued_message(c))
      /\ queued_message(c).owner = c
      /\ Aligned(commands, ClientMesssageQueues'[c])
      /\ \A d \in Conns \ {c} :
           ClientMesssageQueues'[d] = ClientMesssageQueues[d]
  BY <1>0, HeadOfQueue
<1>3. \A d \in Conns : InboxInv(d)'
  BY <1>0, <1>2, InboxWrite
<1>4. pc' = [pc EXCEPT ![c] = "poll"] /\ "poll" \in Draining \cap Places
  BY DEF ReplySelf, goto, Draining, Places
<1>5. Backlog(c)'
  <2>1. pc'[c] = "poll"
    BY <1>4 DEF TypeOK
  <2> QED
    BY <1>0, <1>2, <2>1 DEF Backlog
<1> QED
  BY <1>0, <1>1, <1>2, <1>3, <1>4, <1>5, DrainingStep

LEMMA NoteOrderly ==
    ASSUME TypeOK, Orderly, NEW c \in Conns, NoteDisconnect(c)
    PROVE  Orderly'
<1>0. /\ UNCHANGED <<ClientMesssageQueues, commands, fanout, inbox, dismissed>>
      /\ pc[c] = "dispatch" /\ response[c] = "disconnect"
  BY DEF NoteDisconnect, managerVars, responseVars, serverVars
<1>1. /\ pc[c] \in Draining /\ dismissed[c] /\ Backlog(c)
  BY <1>0, DrainFacts DEF Draining, TellsToLeave
<1>2. Aligned(commands, ClientMesssageQueues[c])
  BY <1>0, <1>1, DisconnectMatchesNothing DEF Backlog
<1>3. pc' = [pc EXCEPT ![c] = "poll"] /\ "poll" \in Draining \cap Places
  BY DEF NoteDisconnect, goto, Draining, Places
<1>4. Backlog(c)'
  <2>1. pc'[c] = "poll"
    BY <1>3 DEF TypeOK
  <2> QED
    BY <1>0, <1>2, <2>1 DEF Backlog
<1>5. \A d \in Conns : InboxInv(d)'
  BY <1>0, InboxSame
<1> QED
  BY <1>0, <1>1, <1>3, <1>4, <1>5, DrainingStep

LEMMA FanOutOrderly ==
    ASSUME TypeOK, Orderly, OwnQueue, NEW c \in Conns, StartFanOut(c)
    PROVE  Orderly'
<1>0. /\ UNCHANGED <<commands, response, disconnect, inbox, dismissed>>
      /\ get_queued_message(c)
      /\ pc[c] = "dispatch" /\ response[c] \in Topics
      /\ fanout'[c].frame = queued_message(c)
  BY DEF StartFanOut, serverVars, TypeOK
<1>1. /\ pc[c] \in Draining
      /\ disconnect[c] => dismissed[c]
      /\ \A i \in 1 .. Len(commands) : TellsToLeave(commands[i]) => dismissed[c]
  BY <1>0, DrainFacts DEF Draining
<1>2. response[c] # "disconnect"
  BY <1>0, TopicAssumption DEF ControlWords
<1>3. /\ Matches(response[c], queued_message(c))
      /\ Aligned(commands, ClientMesssageQueues'[c])
      /\ \A d \in Conns \ {c} :
           ClientMesssageQueues'[d] = ClientMesssageQueues[d]
  BY <1>0, <1>2, HeadOfQueue
<1>4. pc' = [pc EXCEPT ![c] = "fanout"] /\ "fanout" \in Draining \cap Places
  BY DEF StartFanOut, goto, Draining, Places
<1>5. Backlog(c)'
  <2>1. pc'[c] = "fanout"
    BY <1>4 DEF TypeOK
  <2> QED
    BY <1>0, <1>3, <2>1 DEF Backlog
<1>6. \A d \in Conns : InboxInv(d)'
  BY <1>0, InboxSame
<1> QED
  BY <1>0, <1>1, <1>3, <1>4, <1>5, <1>6, DrainingStep

LEMMA SendOrderly ==
    ASSUME TypeOK, Orderly, NEW c \in Conns, SendToNext(c) \/ EndFanOut(c)
    PROVE  Orderly'
<1>0. /\ UNCHANGED <<ClientMesssageQueues, commands, response, disconnect,
                     dismissed>>
      /\ pc[c] = "fanout"
  BY DEF SendToNext, EndFanOut, managerVars, responseVars, serverVars
<1>1. /\ pc[c] \in Draining /\ Backlog(c)
      /\ disconnect[c] => dismissed[c]
      /\ \A i \in 1 .. Len(commands) : TellsToLeave(commands[i]) => dismissed[c]
      /\ response[c] \in Topics /\ Matches(response[c], fanout[c].frame)
  BY <1>0, DrainFacts DEF Draining
<1>2. CASE SendToNext(c)
  <2>1. fanout[c].frame.kind = "MESSAGE"
    BY <1>1, TopicAssumption DEF Matches, ControlWords
  <2>2. PICK d \in Conns : \/ send(d, fanout[c].frame, response[c])
                           \/ UNCHANGED inbox
    BY <1>2 DEF SendToNext, TypeOK, FanOuts
  <2>3. \A b \in Conns : InboxInv(b)'
    BY <1>1, <2>1, <2>2, InboxWrite
  <2>4. /\ pc' = pc /\ pc' = [pc EXCEPT ![c] = "fanout"]
        /\ "fanout" \in Draining \cap Places
    BY <1>0, <1>2 DEF SendToNext, Draining, Places, TypeOK
  <2>5. fanout'[c].frame = fanout[c].frame
    BY <1>2 DEF SendToNext, TypeOK, FanOuts
  <2>6. Backlog(c)'
    BY <1>0, <1>1, <2>4 DEF Backlog
  <2> QED
    BY <1>0, <1>1, <2>3, <2>4, <2>5, <2>6, DrainingStep
<1>3. CASE EndFanOut(c)
  <2>1. \A b \in Conns : InboxInv(b)'
    BY <1>3, InboxSame DEF EndFanOut, serverVars
  <2>2. pc' = [pc EXCEPT ![c] = "poll"] /\ "poll" \in Draining \cap Places
    BY <1>3 DEF EndFanOut, goto, Draining, Places
  <2>3. pc'[c] = "poll"
    BY <2>2 DEF TypeOK
  <2>4. Backlog(c)'
    BY <1>0, <1>1, <2>3 DEF Backlog
  <2> QED
    BY <1>0, <1>1, <2>1, <2>2, <2>4, DrainingStep
<1> QED
  BY <1>2, <1>3

LEMMA ProceedOrderly ==
    ASSUME TypeOK, OrderlyInv, NEW c \in Conns, Proceed(c) PROVE OrderlyInv'
<1>0. ResponseTypeOK /\ OwnQueue
  BY DEF TypeOK, OrderlyInv
<1>1. CASE \/ ShouldTerminate(c) \/ EndsWrite(c) \/ WakeUp(c) \/ Close(c)
  BY <1>1, IdleOrderly
<1>2. CASE FailFanOut(c) \/ MissQueue(c)
  <2>1. OwnQueue'
    BY <1>0, <1>2, OwnQueueSame
    DEF FailFanOut, MissQueue, managerVars, responseVars
  <2> QED
    BY <1>2, <2>1 DEF FailFanOut, MissQueue, OrderlyInv
<1>3. CASE \/ Drained(c) \/ SeeCommand(c) \/ TakeNothing(c) \/ TakeCommand(c)
           \/ ReplySelf(c) \/ NoteDisconnect(c) \/ StartFanOut(c)
           \/ SendToNext(c) \/ EndFanOut(c)
  <2>1. OwnQueue'
    <3>1. CASE ReplySelf(c) \/ StartFanOut(c)
      BY <1>0, <3>1, GetQueuedOwn DEF ReplySelf, StartFanOut
    <3>2. CASE UNCHANGED ClientMesssageQueues
      BY <1>0, <3>2, OwnQueueSame
    <3> QED
      BY <1>3, <3>1, <3>2
      DEF Drained, SeeCommand, TakeNothing, TakeCommand, NoteDisconnect,
          SendToNext, EndFanOut, managerVars, responseVars
  <2>2. UNCHANGED disturbed
    BY <1>3
    DEF Drained, SeeCommand, TakeNothing, TakeCommand, ReplySelf,
        NoteDisconnect, StartFanOut, SendToNext, EndFanOut, serverVars
  <2>3. ASSUME ~disturbed' PROVE Orderly'
    <3>1. Orderly
      BY <2>2, <2>3 DEF OrderlyInv, Orderly
    <3>2. CASE Drained(c) \/ SeeCommand(c) \/ TakeNothing(c)
      BY <3>1, <3>2, PollOrderly
    <3>3. CASE TakeCommand(c)
      BY <3>1, <3>3, TakeOrderly
    <3>4. CASE ReplySelf(c)
      BY <1>0, <3>1, <3>4, ReplyOrderly
    <3>5. CASE NoteDisconnect(c)
      BY <3>1, <3>5, NoteOrderly
    <3>6. CASE StartFanOut(c)
      BY <1>0, <3>1, <3>6, FanOutOrderly
    <3>7. CASE SendToNext(c) \/ EndFanOut(c)
      BY <3>1, <3>7, SendOrderly
    <3> QED
      BY <1>3, <3>2, <3>3, <3>4, <3>5, <3>6, <3>7
  <2> QED
    BY <2>1, <2>3 DEF OrderlyInv, Orderly
<1> QED
  BY <1>1, <1>2, <1>3 DEF Proceed, EndsWrite

LEMMA OrderlyInit == Init => OrderlyInv
<1> SUFFICES ASSUME Init PROVE OrderlyInv
  OBVIOUS
<1>1. /\ ClientMesssageQueues = [c \in Conns |-> <<>>] /\ commands = <<>>
      /\ pc = [c \in Conns |-> "unborn"] /\ inbox = [c \in Conns |-> {}]
  BY DEF Init, ResponseInit
<1>2. OwnQueue
  BY <1>1 DEF OwnQueue
<1>3. IdleInv
  BY <1>1 DEF IdleInv
<1>4. ASSUME NEW c \in Conns PROVE DrainInv(c) /\ RestInv(c) /\ InboxInv(c)
  <2>1. /\ pc[c] = "unborn" /\ inbox[c] = {}
        /\ ClientMesssageQueues[c] = <<>>
    BY <1>1
  <2> QED
    BY <2>1 DEF DrainInv, RestInv, InboxInv, Draining
<1> QED
  BY <1>2, <1>3, <1>4 DEF OrderlyInv

LEMMA OrderlyInvStep ==
    TypeOK /\ TopicInHand /\ UnbornInv /\ OrderlyInv /\ [Next]_vars => OrderlyInv'
<1> SUFFICES ASSUME TypeOK, TopicInHand, UnbornInv, OrderlyInv, [Next]_vars
             PROVE  OrderlyInv'
  OBVIOUS
<1>1. CASE Accept
  BY <1>1, AcceptOrderly
<1>2. ASSUME NEW c \in Conns, Serve(c) PROVE OrderlyInv'
  BY <1>2, ServeOrderly
<1>3. ASSUME NEW c \in Conns, Dismiss(c) PROVE OrderlyInv'
  BY <1>3, DismissOrderly
<1>4. ASSUME NEW c \in Conns, Throw(c) PROVE OrderlyInv'
  BY <1>4, ThrowOrderly
<1>5. ASSUME NEW c \in Conns, HangUp(c) PROVE OrderlyInv'
  BY <1>5, IdleOrderly
<1>6. ASSUME NEW c \in Conns, Proceed(c) PROVE OrderlyInv'
  BY <1>6, ProceedOrderly
<1>7. CASE UNCHANGED vars
  BY <1>7
  DEF vars, managerVars, responseVars, threadVars, serverVars, OrderlyInv,
      OwnQueue, IdleInv, DrainInv, Backlog, RestInv, InboxInv
<1> QED
  BY <1>1, <1>2, <1>3, <1>4, <1>5, <1>6, <1>7 DEF Next

LEMMA OrderlyInvImplies == OrderlyInv => OrderlyReplies
BY DEF OrderlyInv, OrderlyReplies, RestInv, InboxInv

\* While no two threads drain the shared list at once and none is cut short,
\* every frame reaches the client it is for, only a client that disconnected
\* or was refused is dropped, and no reply is left behind (generateResponse,
\* send_to_channel and get_queued_message taken together).
THEOREM RepliesAreOrderly == Spec => []OrderlyReplies
<1>1. Init => UnbornInv /\ OrderlyInv
  BY UnbornInit, OrderlyInit
<1>2. TypeOK /\ UnbornInv /\ [Next]_vars => UnbornInv'
  BY UnbornStep
<1>3. TypeOK /\ TopicInHand /\ UnbornInv /\ OrderlyInv /\ [Next]_vars => OrderlyInv'
  BY OrderlyInvStep
<1>4. OrderlyInv => OrderlyReplies
  BY OrderlyInvImplies
<1> QED
  BY <1>1, <1>2, <1>3, <1>4, TypeCorrect, TopicsInHand, PTL DEF Spec
-----------------------------------------------------------------------------
(* Broadcasts.  A table is in use from the end of connect on; a write of a  *)
(* broadcast is to an id that boxes to a shared Integer; an iteration that  *)
(* is not stale runs while nobody changes the table; and the list of a      *)
(* broadcast names whoever is subscribed all the while under one id.        *)

TableInv == \A d \in connections : pc[d] \notin {"unborn", "joining"}
ReachedIds == \A d \in Conns : \A w \in inbox[d] :
                 w.command \in Topics => d <= IntegerCacheMax
RunInv == \A c \in Conns : pc[c] = "fanout" =>
             /\ response[c] \in Topics
             /\ ~fanout[c].stale => ~torn /\ ~table_changing

\* Whoever an id in the tree from the start up to now belongs to is listed: by
\* the entry of that id, or by one that is in the tree no more.
holder(c, s) == user_client_id[response[c]][s]
ListInv ==
    \A c \in Conns : pc[c] = "fanout" =>
      \A s \in fanout[c].audience :
        /\ s \in entries(response[c])
        /\ s \in fanout[c].list \/ holder(c, s) \in fanout[c].unlinked

written(c, d) == [frame |-> fanout[c].frame, command |-> response[c]] \in inbox[d]

\* Whoever the iteration has passed has the frame.
PassedInv ==
    \A c \in Conns : pc[c] = "fanout" /\ ~fanout[c].stale =>
      \A s \in fanout[c].audience, d \in connections :
        ( /\ holder(c, s) = d /\ d \notin fanout[c].todo
          /\ pc[d] # "closed" /\ d <= IntegerCacheMax )
        => written(c, d)

BroadcastInv == TableInv /\ ReachedIds /\ RunInv /\ ListInv /\ PassedInv

LEMMA BroadcastInit == Init => BroadcastInv
BY DEF Init, BroadcastInv, TableInv, ReachedIds, RunInv, ListInv, PassedInv

LEMMA BroadcastReach == TypeOK /\ BroadcastInv => FanOutReach
BY DEF TypeOK, BroadcastInv, ReachedIds, RunInv, PassedInv, FanOutReach, written, holder

\* A step of one thread that leaves the table and the topics alone and starts no
\* iteration.
ThreadStep(c, place) ==
    /\ pc[c] \notin {"unborn", "joining", "closed"}
    /\ place \notin {"unborn", "joining", "removing", "fanout"}
    /\ goto(c, place)
    /\ UNCHANGED <<connections, torn, user_client_id>>
    /\ \A d \in Conns \ {c} : fanout'[d] = fanout[d] /\ response'[d] = response[d]
    /\ \A d \in Conns : inbox[d] \subseteq inbox'[d]
    /\ ReachedIds'

LEMMA ThreadBroadcast ==
    ASSUME TypeOK, BroadcastInv, NEW c \in Conns, NEW place, ThreadStep(c, place)
    PROVE  BroadcastInv'
<1>1. /\ pc'[c] = place /\ \A d \in Conns \ {c} : pc'[d] = pc[d]
      /\ connections \subseteq Conns
  BY DEF ThreadStep, goto, TypeOK
<1>2. TableInv'
  BY <1>1 DEF ThreadStep, BroadcastInv, TableInv
<1>3. RunInv'
  BY <1>1 DEF ThreadStep, BroadcastInv, RunInv, table_changing, Writing
<1>4. ListInv'
  BY <1>1 DEF ThreadStep, BroadcastInv, ListInv, holder, entries, get_subscribed_vector
<1>5. PassedInv'
  BY <1>1 DEF ThreadStep, BroadcastInv, PassedInv, written, holder
<1> QED
  BY <1>2, <1>3, <1>4, <1>5 DEF BroadcastInv, ThreadStep

\* No request gives an entry that stays in a topic's tree to somebody else.
LEMMA KeepsHolders ==
    ASSUME TypeOK, NEW c \in Conns, Serve(c) \/ Dismiss(c) \/ Throw(c),
           NEW t \in Topics, NEW s \in entries(t) \cap entries(t)'
    PROVE  user_client_id'[t][s] = user_client_id[t][s]
<1>0. /\ user_client_id \in [Topics -> [SubIds -> Conns \cup {NoConn}]]
      /\ s \in SubIds
      /\ user_client_id[t][s] # NoConn /\ user_client_id'[t][s] # NoConn
  BY DEF TypeOK, TopicTypeOK, entries, get_subscribed_vector
<1>1. \/ UNCHANGED user_client_id
      \/ \E x \in Topics, i \in SubIds : subscribe(x, i, c)
      \/ \E i \in SubIds : unsubscribe(i)
      \/ unsubscribe_user(c)
  <2>1. CASE \/ \E r \in BOOLEAN, u \in Users, p \in Passwords : Connect(c, u, p, r)
             \/ \E r \in BOOLEAN, x \in Topics : Send(c, x, r)
             \/ RefuseStranger(c) \/ Unparsable \/ \E x \in Topics : UnparsableId(x)
    BY <2>1 DEF Connect, Send, RefuseStranger, Unparsable, UnparsableId, managerVars,
                topicVars
  <2>2. CASE \/ \E r \in BOOLEAN, x \in Topics, i \in SubIds : Subscribe(c, x, i, r)
             \/ \E x \in Topics, i \in SubIds : SubscribeStranger(c, x, i)
    BY <2>2, Zenon DEF Subscribe, SubscribeStranger
  <2>3. CASE \E r \in BOOLEAN, i \in SubIds : Unsubscribe(c, i, r)
    BY <2>3, Zenon DEF Unsubscribe
  <2>4. CASE LogsOut(c) \/ Refuse(c) \/ DisconnectStranger(c)
    BY <2>4 DEF LogsOut, disconnect_client, Refuse, DisconnectStranger, topicVars
  <2>5. CASE Grants(c)
    BY <2>1, <2>2, <2>3, <2>5, Zenon DEF Grants
  <2> QED
    BY <2>1, <2>2, <2>4, <2>5, RequestCases, Zenon DEF Dismiss, Throw
<1>2. ASSUME NEW x \in Topics, NEW i \in SubIds, subscribe(x, i, c)
      PROVE  user_client_id'[t][s] = user_client_id[t][s]
  BY <1>0, <1>2 DEF subscribe
<1>3. ASSUME NEW i \in SubIds, unsubscribe(i)
      PROVE  user_client_id'[t][s] = user_client_id[t][s]
  BY <1>0, <1>3 DEF unsubscribe
<1>4. CASE unsubscribe_user(c)
  BY <1>0, <1>4 DEF unsubscribe_user
<1> QED
  BY <1>1, <1>2, <1>3, <1>4

\* A request lets the lists of the broadcasts follow the topics' trees.
LEMMA RequestBroadcast ==
    ASSUME TypeOK, TopicInHand, BroadcastInv,
           NEW c \in Conns, Serve(c) \/ Dismiss(c) \/ Throw(c)
    PROVE  BroadcastInv'
<1>0. TopicTypeOK /\ fanout \in [Conns -> FanOuts] /\ connections \subseteq Conns
  BY DEF TypeOK
<1>1. /\ pc[c] = "reading" /\ lists_follow
      /\ UNCHANGED <<connections, response, inbox, torn>>
  BY DEF Serve, Dismiss, Throw, read_request
<1>2. PICK place \in {"poll", "leaving"} : goto(c, place)
  BY DEF Serve, Dismiss, Throw, start_draining
<1>3. pc'[c] = place /\ \A d \in Conns \ {c} : pc'[d] = pc[d]
  BY <1>2 DEF goto, TypeOK
<1>4. ASSUME NEW e \in Conns, pc'[e] = "fanout"
      PROVE  /\ pc[e] = "fanout" /\ response[e] \in Topics
             /\ fanout'[e].frame = fanout[e].frame
             /\ fanout'[e].todo = fanout[e].todo
             /\ fanout'[e].stale = fanout[e].stale
             /\ fanout'[e].audience
                   = fanout[e].audience \cap entries(response[e])'
             /\ fanout[e].unlinked \subseteq fanout'[e].unlinked
             /\ \A s \in fanout[e].list \cap entries(response[e])' :
                   s \in fanout'[e].list \/ holder(e, s) \in fanout'[e].unlinked
  <2>1. pc[e] = "fanout"
    BY <1>3, <1>4
  <2> QED
    BY <1>0, <1>1, <2>1, ListsFollow DEF TopicInHand, holder
<1>5. ASSUME NEW e \in Conns, pc'[e] = "fanout", NEW s \in fanout'[e].audience
      PROVE  /\ s \in fanout[e].audience
             /\ s \in entries(response[e]) /\ s \in entries(response[e])'
             /\ holder(e, s)' = holder(e, s)
  <2>1. s \in fanout[e].audience /\ s \in entries(response[e])'
    BY <1>4, <1>5
  <2>2. s \in entries(response[e]) /\ response[e] \in Topics
    BY <1>4, <1>5, <2>1 DEF BroadcastInv, ListInv
  <2>3. user_client_id'[response[e]][s] = user_client_id[response[e]][s]
    BY <1>1, <2>1, <2>2, KeepsHolders DEF entries, get_subscribed_vector
  <2> QED
    BY <1>1, <2>1, <2>2, <2>3 DEF holder
<1>6. TableInv' /\ ReachedIds'
  BY <1>0, <1>1, <1>3 DEF BroadcastInv, TableInv, ReachedIds
<1>7. RunInv'
  BY <1>1, <1>3, <1>4 DEF BroadcastInv, RunInv, table_changing, Writing
<1>8. ListInv'
  <2> SUFFICES ASSUME NEW e \in Conns, pc'[e] = "fanout", NEW s \in fanout'[e].audience
               PROVE  /\ s \in entries(response[e])'
                      /\ s \in fanout'[e].list \/ holder(e, s)' \in fanout'[e].unlinked
    BY <1>1 DEF ListInv
  <2>1. s \in fanout[e].list \/ holder(e, s) \in fanout[e].unlinked
    BY <1>4, <1>5 DEF BroadcastInv, ListInv
  <2> QED
    BY <1>4, <1>5, <2>1
<1>9. PassedInv'
  <2> SUFFICES ASSUME NEW e \in Conns, pc'[e] = "fanout", ~fanout'[e].stale,
                      NEW s \in fanout'[e].audience, NEW d \in connections',
                      holder(e, s)' = d, d \notin fanout'[e].todo,
                      pc'[d] # "closed", d <= IntegerCacheMax
               PROVE  written(e, d)'
    BY DEF PassedInv, holder, written
  <2>1. s \in fanout[e].audience /\ holder(e, s) = d
    BY <1>5
  <2>2. pc[e] = "fanout" /\ ~fanout[e].stale /\ d \notin fanout[e].todo
    BY <1>4
  <2>3. d \in connections /\ pc[d] # "closed"
    BY <1>0, <1>1, <1>3
  <2>4. written(e, d)
    BY <2>1, <2>2, <2>3 DEF BroadcastInv, PassedInv
  <2> QED
    BY <1>1, <1>4, <2>4 DEF written
<1> QED
  BY <1>6, <1>7, <1>8, <1>9 DEF BroadcastInv

\* A thread that goes on to change the table, and makes the iterations stale.
StartsChange(c) ==
    /\ \/ pc[c] = "unborn" /\ goto(c, "joining")
       \/ pc[c] = "asleep" /\ goto(c, "removing")
    /\ fanout' = go_stale
    /\ UNCHANGED <<connections, response, inbox, user_client_id>>

LEMMA ChangeStarts ==
    ASSUME TypeOK, BroadcastInv, NEW c \in Conns, StartsChange(c)
    PROVE  BroadcastInv'
<1>1. /\ pc'[c] \in {"joining", "removing"} /\ \A d \in Conns \ {c} : pc'[d] = pc[d]
      /\ pc[c] = "unborn" \/ pc'[c] = "removing"
      /\ connections \subseteq Conns
  BY DEF StartsChange, goto, TypeOK
<1>2. \A d \in Conns : pc'[d] = "fanout" =>
         /\ pc[d] = "fanout" /\ fanout'[d].stale
         /\ fanout'[d].audience = fanout[d].audience
         /\ fanout'[d].list = fanout[d].list
         /\ fanout'[d].unlinked = fanout[d].unlinked
  <2> SUFFICES ASSUME NEW d \in Conns, pc'[d] = "fanout"
               PROVE  /\ pc[d] = "fanout" /\ fanout'[d].stale
                      /\ fanout'[d].audience = fanout[d].audience
                      /\ fanout'[d].list = fanout[d].list
                      /\ fanout'[d].unlinked = fanout[d].unlinked
    OBVIOUS
  <2>1. pc[d] = "fanout" /\ fanout[d] \in FanOuts
    BY <1>1 DEF TypeOK
  <2>2. fanout'[d] = [fanout[d] EXCEPT !.stale = TRUE]
    BY <2>1 DEF StartsChange, go_stale
  <2> QED
    BY <2>1, <2>2 DEF FanOuts
<1>3. TableInv'
  BY <1>1 DEF StartsChange, BroadcastInv, TableInv
<1>4. RunInv' /\ PassedInv' /\ ReachedIds'
  BY <1>2 DEF StartsChange, BroadcastInv, RunInv, PassedInv, ReachedIds
<1>5. ListInv'
  BY <1>2 DEF StartsChange, BroadcastInv, ListInv, holder, entries, get_subscribed_vector
<1> QED
  BY <1>3, <1>4, <1>5 DEF BroadcastInv

\* A thread that ends its change of the table, while every iteration is stale.
EndsChange(c) ==
    /\ pc[c] \in Writing
    /\ goto(c, "reading") \/ goto(c, "unserved") \/ goto(c, "leaving")
    /\ \A d \in connections' : \/ d \in connections \cup {c}
                               \/ d \in Conns /\ pc'[d] \notin {"unborn", "joining"}
    /\ UNCHANGED <<fanout, response, inbox, user_client_id>>

LEMMA EndsWriteChange ==
    ASSUME TypeOK, NEW c \in Conns, EndsWrite(c) PROVE EndsChange(c)
<1>1. UNCHANGED <<fanout, response, inbox, user_client_id>> /\ pc[c] \in Writing
  BY DEF EndsWrite, Execute, Remove, FailWrite, managerVars, topicVars, Writing
<1>2. goto(c, "reading") \/ goto(c, "unserved") \/ goto(c, "leaving")
  BY DEF EndsWrite, Execute, Remove, FailWrite
<1>3. PICK table \in {connections, connections \cup {c}, connections \ {c}} :
        connections' \in left_by_write(table)
  BY DEF EndsWrite, Execute, Remove, FailWrite
<1> QED
  BY <1>1, <1>2, <1>3 DEF EndsChange, left_by_write

LEMMA ChangeEnds ==
    ASSUME TypeOK, BroadcastInv, NEW c \in Conns, EndsChange(c)
    PROVE  BroadcastInv'
<1>1. /\ pc'[c] \in {"reading", "unserved", "leaving"}
      /\ \A d \in Conns \ {c} : pc'[d] = pc[d]
      /\ connections \subseteq Conns
  BY DEF EndsChange, goto, TypeOK
<1>2. \A d \in Conns : pc'[d] = "fanout" => pc[d] = "fanout" /\ fanout[d].stale
  BY <1>1 DEF EndsChange, BroadcastInv, RunInv, table_changing
<1>3. TableInv'
  BY <1>1 DEF EndsChange, BroadcastInv, TableInv
<1>4. RunInv' /\ PassedInv' /\ ReachedIds'
  BY <1>2 DEF EndsChange, BroadcastInv, RunInv, PassedInv, ReachedIds
<1>5. ListInv'
  BY <1>2 DEF EndsChange, BroadcastInv, ListInv, holder, entries, get_subscribed_vector
<1> QED
  BY <1>3, <1>4, <1>5 DEF BroadcastInv

\* A write leaves what was written before, and adds at most itself.
LEMMA WriteGrows ==
    ASSUME TypeOK, NEW d \in Conns, NEW frame, NEW x, send(d, frame, x)
    PROVE  \A e \in Conns :
              /\ inbox[e] \subseteq inbox'[e]
              /\ \A w \in inbox'[e] : w \in inbox[e] \/ (e = d /\ w.command = x)
              /\ e = d /\ pc[d] \notin {"unborn", "closed"} =>
                    [frame |-> frame, command |-> x] \in inbox'[e]
BY DEF send, TypeOK

LEMMA ThreadSteps ==
    ASSUME TypeOK, BroadcastInv, NEW c \in Conns,
           \/ HangUp(c) \/ ShouldTerminate(c)
           \/ Drained(c) \/ SeeCommand(c) \/ TakeCommand(c) \/ TakeNothing(c)
           \/ ReplySelf(c) \/ NoteDisconnect(c) \/ MissQueue(c) \/ EndFanOut(c)
           \/ FailFanOut(c) \/ Close(c)
    PROVE  BroadcastInv'
<1>0. ReachedIds /\ response \in [Conns -> Responses] /\ fanout \in [Conns -> FanOuts]
  BY DEF BroadcastInv, TypeOK
<1>1. UNCHANGED <<connections, torn, user_client_id>>
  BY DEF HangUp, ShouldTerminate, Drained, SeeCommand, TakeCommand, TakeNothing, ReplySelf,
         NoteDisconnect, MissQueue, EndFanOut, FailFanOut, Close, serverVars, managerVars,
         topicVars
<1>2. CASE \/ HangUp(c) \/ ShouldTerminate(c) \/ Drained(c) \/ SeeCommand(c)
           \/ TakeNothing(c) \/ NoteDisconnect(c) \/ MissQueue(c) \/ Close(c)
  <2>1. PICK place \in {"poll", "take", "asleep", "reading", "leaving", "closed"} :
           goto(c, place)
    BY <1>2 DEF HangUp, ShouldTerminate, Drained, SeeCommand, TakeNothing, NoteDisconnect,
                MissQueue, Close
  <2>2. /\ pc[c] \in {"reading", "poll", "take", "dispatch", "leaving"}
        /\ UNCHANGED <<response, fanout, inbox>>
    BY <1>2 DEF HangUp, ShouldTerminate, Drained, SeeCommand, TakeNothing, NoteDisconnect,
                MissQueue, Close, serverVars
  <2>3. ThreadStep(c, place)
    BY <1>0, <1>1, <2>1, <2>2 DEF ThreadStep, ReachedIds
  <2> QED
    BY <2>3, ThreadBroadcast
<1>3. CASE TakeCommand(c)
  <2>1. /\ pc[c] = "take" /\ goto(c, "dispatch") /\ UNCHANGED <<fanout, inbox>>
        /\ \A d \in Conns \ {c} : response'[d] = response[d]
    BY <1>0, <1>3 DEF TakeCommand, serverVars
  <2>2. ThreadStep(c, "dispatch")
    BY <1>0, <1>1, <2>1 DEF ThreadStep, ReachedIds
  <2> QED
    BY <2>2, ThreadBroadcast
<1>4. CASE ReplySelf(c)
  <2>1. /\ pc[c] = "dispatch" /\ goto(c, "poll") /\ UNCHANGED <<response, fanout>>
        /\ response[c] \in {"self", "Error"}
        /\ send(c, queued_message(c), response[c]) \/ UNCHANGED inbox
    BY <1>4 DEF ReplySelf
  <2>2. response[c] \notin Topics
    BY <2>1, TopicAssumption DEF ControlWords
  <2>3. ReachedIds' /\ \A d \in Conns : inbox[d] \subseteq inbox'[d]
    BY <1>0, <2>1, <2>2, WriteGrows DEF ReachedIds
  <2>4. ThreadStep(c, "poll")
    BY <1>1, <2>1, <2>3 DEF ThreadStep
  <2> QED
    BY <2>4, ThreadBroadcast
<1>5. CASE EndFanOut(c) \/ FailFanOut(c)
  <2>1. PICK place \in {"poll", "leaving"} : goto(c, place)
    BY <1>5 DEF EndFanOut, FailFanOut
  <2>2. /\ pc[c] = "fanout" /\ UNCHANGED <<response, inbox>>
        /\ \A d \in Conns \ {c} : fanout'[d] = fanout[d]
    BY <1>0, <1>5 DEF EndFanOut, FailFanOut, serverVars
  <2>3. ThreadStep(c, place)
    BY <1>0, <1>1, <2>1, <2>2 DEF ThreadStep, ReachedIds
  <2> QED
    BY <2>3, ThreadBroadcast
<1> QED
  BY <1>2, <1>3, <1>4, <1>5

\* The iteration starts with the whole table ahead of it, and lists the tree.
LEMMA FanOutStarts ==
    ASSUME TypeOK, BroadcastInv, NEW c \in Conns, StartFanOut(c)
    PROVE  BroadcastInv'
<1>1. /\ pc'[c] = "fanout" /\ \A d \in Conns \ {c} : pc'[d] = pc[d]
      /\ pc[c] = "dispatch" /\ response[c] \in Topics
      /\ UNCHANGED <<connections, response, inbox, torn, user_client_id>>
  BY DEF StartFanOut, goto, TypeOK, serverVars, topicVars
<1>2. /\ fanout'[c].todo = connections /\ fanout'[c].stale = (torn \/ table_changing)
      /\ fanout'[c].audience = entries(response[c])
      /\ fanout'[c].list = entries(response[c])
      /\ \A d \in Conns \ {c} : fanout'[d] = fanout[d]
  BY DEF StartFanOut, TypeOK
<1>3. TableInv' /\ ReachedIds'
  BY <1>1 DEF BroadcastInv, TableInv, ReachedIds, TypeOK
<1>4. RunInv'
  BY <1>1, <1>2 DEF BroadcastInv, RunInv, table_changing, Writing
<1>5. ListInv'
  BY <1>1, <1>2 DEF BroadcastInv, ListInv, holder, entries, get_subscribed_vector
<1>6. PassedInv'
  <2> SUFFICES ASSUME NEW e \in Conns, pc'[e] = "fanout", ~fanout'[e].stale,
                      NEW s \in fanout'[e].audience, NEW d \in connections',
                      holder(e, s)' = d, d \notin fanout'[e].todo,
                      pc'[d] # "closed", d <= IntegerCacheMax
               PROVE  written(e, d)'
    BY DEF PassedInv, holder, written
  <2>1. e # c
    BY <1>1, <1>2
  <2> QED
    BY <1>1, <1>2, <2>1 DEF BroadcastInv, PassedInv, written, holder, TypeOK
<1> QED
  BY <1>3, <1>4, <1>5, <1>6 DEF BroadcastInv

\* The iteration passes one entry: a connection the list names is written to
\* unless its id is too large or the table has changed.
LEMMA FanOutPasses ==
    ASSUME TypeOK, BroadcastInv, NEW c \in Conns, SendToNext(c)
    PROVE  BroadcastInv'
<1>0. /\ fanout \in [Conns -> FanOuts] /\ fanout[c] \in FanOuts /\ connections \subseteq Conns
  BY DEF TypeOK
<1>1. PICK d \in fanout[c].todo :
         /\ fanout' = [fanout EXCEPT ![c].todo = @ \ {d}]
         /\ \/ same_Integer(d) /\ send(d, fanout[c].frame, response[c])
            \/ /\ \/ d \notin listed(c)
                  \/ ~same_Integer(d)
                  \/ fanout[c].stale
               /\ UNCHANGED inbox
  BY DEF SendToNext
<1>2. d \in Conns
  BY <1>0 DEF FanOuts
<1>3. /\ UNCHANGED <<pc, response, connections, torn, user_client_id>> /\ pc[c] = "fanout"
      /\ \A e \in Conns \ {c} : fanout'[e] = fanout[e]
      /\ fanout'[c].frame = fanout[c].frame /\ fanout'[c].list = fanout[c].list
      /\ fanout'[c].stale = fanout[c].stale /\ fanout'[c].todo = fanout[c].todo \ {d}
      /\ fanout'[c].audience = fanout[c].audience
      /\ fanout'[c].unlinked = fanout[c].unlinked
  BY <1>0, <1>1 DEF SendToNext, FanOuts, managerVars, topicVars
<1>4. ReachedIds' /\ \A e \in Conns : inbox[e] \subseteq inbox'[e]
  <2>1. CASE same_Integer(d) /\ send(d, fanout[c].frame, response[c])
    BY <1>2, <2>1, WriteGrows DEF BroadcastInv, ReachedIds, same_Integer
  <2>2. CASE UNCHANGED inbox
    BY <2>2 DEF BroadcastInv, ReachedIds
  <2> QED
    BY <1>1, <2>1, <2>2
<1>5. TableInv' /\ RunInv'
  BY <1>3 DEF BroadcastInv, TableInv, RunInv, table_changing
<1>6. ListInv'
  <2> SUFFICES ASSUME NEW e \in Conns, pc'[e] = "fanout", NEW s \in fanout'[e].audience
               PROVE  /\ s \in entries(response[e])'
                      /\ s \in fanout'[e].list \/ holder(e, s)' \in fanout'[e].unlinked
    BY <1>3 DEF ListInv
  <2>1. /\ pc[e] = "fanout" /\ s \in fanout[e].audience
        /\ fanout'[e].list = fanout[e].list /\ fanout'[e].unlinked = fanout[e].unlinked
    BY <1>3
  <2>2. s \in entries(response[e]) /\ (s \in fanout[e].list
                                       \/ holder(e, s) \in fanout[e].unlinked)
    BY <2>1 DEF BroadcastInv, ListInv
  <2> QED
    BY <1>3, <2>1, <2>2 DEF holder, entries, get_subscribed_vector
<1>7. ASSUME NEW s \in fanout[c].audience, holder(c, s) = d, d \in connections,
             ~fanout[c].stale, pc[d] # "closed", d <= IntegerCacheMax
      PROVE  written(c, d)'
  <2>1. d \in listed(c)
    BY <1>3, <1>7 DEF BroadcastInv, ListInv, listed, holder
  <2>2. send(d, fanout[c].frame, response[c]) /\ pc[d] # "unborn"
    BY <1>1, <1>7, <2>1 DEF same_Integer, BroadcastInv, TableInv
  <2> QED
    BY <1>2, <1>3, <1>7, <2>2, WriteGrows DEF written
<1>8. PassedInv'
  <2> SUFFICES ASSUME NEW e \in Conns, pc'[e] = "fanout", ~fanout'[e].stale,
                      NEW s \in fanout'[e].audience, NEW f \in connections',
                      holder(e, s)' = f, f \notin fanout'[e].todo,
                      pc'[f] # "closed", f <= IntegerCacheMax
               PROVE  written(e, f)'
    BY DEF PassedInv, holder, written
  <2>1. /\ holder(e, s) = f /\ s \in fanout[e].audience /\ ~fanout[e].stale
        /\ f \in connections /\ pc[f] # "closed" /\ pc[e] = "fanout"
    BY <1>3 DEF holder
  <2>2. CASE e = c /\ f = d
    BY <1>7, <2>1, <2>2
  <2>3. CASE ~(e = c /\ f = d)
    <3>1. f \notin fanout[e].todo
      BY <1>3, <2>3
    <3>2. written(e, f)
      BY <2>1, <3>1 DEF BroadcastInv, PassedInv
    <3>3. fanout'[e].frame = fanout[e].frame /\ f \in Conns
      BY <1>0, <1>3, <2>1
    <3> QED
      BY <1>3, <1>4, <3>2, <3>3 DEF written
  <2> QED
    BY <2>2, <2>3
<1> QED
  BY <1>4, <1>5, <1>6, <1>8 DEF BroadcastInv

LEMMA BroadcastStep ==
    TypeOK /\ TopicInHand /\ UnbornInv /\ BroadcastInv /\ [Next]_vars => BroadcastInv'
<1> SUFFICES ASSUME TypeOK, TopicInHand, UnbornInv, BroadcastInv, [Next]_vars
             PROVE  BroadcastInv'
  OBVIOUS
<1>1. CASE Accept
  <2>1. running_id + 1 \in Conns /\ pc[running_id + 1] = "unborn"
    BY <1>1, ConnsAssumption DEF Accept, TypeOK, UnbornInv, Conns
  <2>2. StartsChange(running_id + 1)
    BY <1>1, <2>1 DEF Accept, StartsChange, managerVars, topicVars
  <2> QED
    BY <2>1, <2>2, ChangeStarts
<1>2. ASSUME NEW c \in Conns, Serve(c) \/ Dismiss(c) \/ Throw(c) PROVE BroadcastInv'
  BY <1>2, RequestBroadcast
<1>3. ASSUME NEW c \in Conns, HangUp(c) PROVE BroadcastInv'
  BY <1>3, ThreadSteps
<1>4. ASSUME NEW c \in Conns, Proceed(c) PROVE BroadcastInv'
  <2>1. CASE EndsWrite(c)
    BY <2>1, EndsWriteChange, ChangeEnds
  <2>2. CASE WakeUp(c)
    BY <2>2, ChangeStarts DEF WakeUp, StartsChange, managerVars, topicVars
  <2>3. CASE StartFanOut(c)
    BY <2>3, FanOutStarts
  <2>4. CASE SendToNext(c)
    BY <2>4, FanOutPasses
  <2> QED
    BY <1>4, <2>1, <2>2, <2>3, <2>4, ThreadSteps DEF Proceed, EndsWrite
<1>5. CASE UNCHANGED vars
  BY <1>5 DEF vars, managerVars, topicVars, threadVars, serverVars, BroadcastInv, TableInv,
              ReachedIds, RunInv, table_changing, ListInv, PassedInv, written, holder,
              entries, get_subscribed_vector
<1> QED
  BY <1>1, <1>2, <1>3, <1>4, <1>5 DEF Next

\* A broadcast over an unchanged table reaches everybody who is subscribed all
\* the while under one id, whatever other requests do to the topic's entries
\* meanwhile, whose handler is still there and whose id boxes to a shared Integer;
\* and never one with a larger id.  (Topic.get_subscribed_vector and
\* StompConnections.send with a channel.)
THEOREM BroadcastsReach == Spec => []FanOutReach
<1>1. Init => UnbornInv /\ BroadcastInv
  BY UnbornInit, BroadcastInit
<1>2. TypeOK /\ UnbornInv /\ [Next]_vars => UnbornInv'
  BY UnbornStep
<1>3. TypeOK /\ TopicInHand /\ UnbornInv /\ BroadcastInv /\ [Next]_vars => BroadcastInv'
  BY BroadcastStep
<1>4. TypeOK /\ BroadcastInv => FanOutReach
  BY BroadcastReach
<1> QED
  BY <1>1, <1>2, <1>3, <1>4, TypeCorrect, TopicsInHand, PTL DEF Spec

-----------------------------------------------------------------------------
(* What a dropped connection leaves behind.  An account may be left marked  *)
(* connected with nobody logged in to it, which nothing undoes; otherwise a *)
(* connection's subscriptions are to topics its account has listed.         *)

Leak == \E u \in Users : connected[u] /\ \A c \in Conns : user_client_connection[c] # u
subscriber(c, t) == \E s \in SubIds : user_client_id[t][s] = c
Listed(c) == is_client_user_connected(c) /\ user_client_connection[c] \in Users

AccountNames ==
    \A c \in Conns : pc[c] \notin {"leaving", "closed"} =>
      \A t \in Topics : subscriber(c, t) =>
        Leak \/ (Listed(c) /\ t \in getSubScribedTopicNames(c))

\* The last request of a thread that drops its client ended the session.
DismissedOut ==
    \A c \in Conns : dismissed[c] /\ pc[c] \in Draining \cup {"asleep", "removing"}
        => ~is_client_user_connected(c)

\* Nothing is left of those that are not in the table, unless drains or writes of
\* the table have been in each other's way.
messy == disturbed \/ torn
Outsiders ==
    ~messy => \A c \in Conns \ connections :
        ~is_client_user_connected(c) /\ ((\E t \in Topics : subscriber(c, t)) => Leak)

GhostInv == AccountNames /\ DismissedOut /\ Outsiders

LEMMA LeakMeans ==
    Leak <=> \E u \in Users : account_owner(u) = NoConn
BY NullAssumption, ConnsAssumption DEF Leak, account_owner, NoConn, Conns

LEMMA GhostInit == Init => GhostInv
<1> SUFFICES ASSUME Init PROVE GhostInv
  OBVIOUS
<1>1. UserInit /\ TopicInit
  BY DEF Init
<1>2. \A c \in Conns, t \in Topics : ~subscriber(c, t)
  BY <1>1, ConnsAssumption DEF TopicInit, subscriber, NoConn, Conns
<1>3. \A c \in Conns : ~is_client_user_connected(c) /\ ~dismissed[c]
  BY <1>1 DEF UserInit, is_client_user_connected, Init
<1> QED
  BY <1>2, <1>3 DEF GhostInv, AccountNames, DismissedOut, Outsiders

LEMMA GhostMeans == TypeOK /\ GhostInv => NoGhostSubscribers
<1> SUFFICES ASSUME TypeOK, GhostInv, ~messy, NEW c \in (1 .. running_id) \ connections
             PROVE  /\ ~is_client_user_connected(c)
                    /\ (\E t \in Topics, s \in SubIds : user_client_id[t][s] = c)
                          => \E u \in Users : account_owner(u) = NoConn
  BY DEF NoGhostSubscribers, messy
<1>1. c \in Conns \ connections
  BY ConnsAssumption DEF TypeOK, Conns
<1> QED
  BY <1>1, LeakMeans DEF GhostInv, Outsiders, subscriber

accountVars == <<connected, subscribed_topic_names, user_client_connection>>

\* A step of a thread that leaves accounts and subscriptions alone.
LEMMA AsideGhost ==
    ASSUME TypeOK, GhostInv, NEW c \in Conns, NEW place,
           \A d \in Conns \ {c} : pc'[d] = pc[d], pc'[c] = place,
           pc[c] \notin {"leaving", "closed"} \/ place \in {"leaving", "closed"},
           place \in Draining \cup {"asleep", "removing"} =>
              ~dismissed'[c] \/ (dismissed[c] /\ pc[c] \in Draining \cup {"asleep", "removing"}),
           \A d \in Conns \ {c} : dismissed'[d] = dismissed[d],
           UNCHANGED <<accountVars, user_client_id, connections>>,
           messy => messy'
    PROVE  GhostInv'
<1>1. AccountNames'
  BY DEF GhostInv, AccountNames, accountVars, Leak, subscriber, Listed,
         is_client_user_connected, getSubScribedTopicNames
<1>2. DismissedOut'
  BY DEF GhostInv, DismissedOut, accountVars, is_client_user_connected
<1>3. Outsiders'
  BY DEF GhostInv, Outsiders, accountVars, Leak, subscriber, is_client_user_connected
<1> QED
  BY <1>1, <1>2, <1>3 DEF GhostInv

\* A request leaves the thread draining the list, or leaving.
RequestEnds(c) ==
    /\ pc[c] = "reading" /\ c \in connections /\ UNCHANGED connections
    /\ pc'[c] \in {"poll", "leaving"}
    /\ \A d \in Conns \ {c} : pc'[d] = pc[d] /\ dismissed'[d] = dismissed[d]
    /\ messy => messy'

\* Logging in: an account the connection had before is left marked connected.
LEMMA ConnectGhost ==
    ASSUME TypeOK, OneSessionPerUser, GhostInv, NEW c \in Conns,
           NEW u \in Users, NEW p \in Passwords, NEW r \in BOOLEAN,
           RequestEnds(c), dismissed'[c] => pc'[c] = "leaving",
           Connect(c, u, p, r)
    PROVE  GhostInv'
<1>0. /\ connected \in [Users -> BOOLEAN]
      /\ user_client_connection \in [Conns -> Users \cup {NoUser}]
      /\ NoUser \notin Users /\ connections \subseteq Conns
  BY NullAssumption DEF TypeOK, UserTypeOK
<1>1. /\ connected' = [connected EXCEPT ![u] = TRUE]
      /\ user_client_connection' = [user_client_connection EXCEPT ![c] = u]
      /\ UNCHANGED <<subscribed_topic_names, user_client_id>>
  BY DEF Connect, connect_user, topicVars
<1>2. /\ pc[c] = "reading" /\ c \in connections /\ UNCHANGED connections
      /\ pc'[c] \in {"poll", "leaving"}
      /\ \A d \in Conns \ {c} : pc'[d] = pc[d] /\ dismissed'[d] = dismissed[d]
      /\ messy => messy'
  BY DEF RequestEnds
<1>3. ~connected[u] /\ \A d \in Conns : user_client_connection[d] # u
  BY <1>0 DEF Connect, check_connect_conditions, is_user_connected, OneSessionPerUser,
              is_client_user_connected
<1>4. Leak => Leak'
  BY <1>0, <1>1, <1>3 DEF Leak
<1>5. is_client_user_connected(c) => Leak'
  <2> SUFFICES ASSUME is_client_user_connected(c) PROVE Leak'
    OBVIOUS
  <2> DEFINE v == user_client_connection[c]
  <2>1. v \in Users /\ connected[v] /\ \A d \in Conns \ {c} : user_client_connection[d] # v
    BY <1>0 DEF OneSessionPerUser, is_client_user_connected
  <2>2. connected'[v] /\ \A d \in Conns : user_client_connection'[d] # v
    BY <1>0, <1>1, <1>3, <2>1
  <2> QED
    BY <2>1, <2>2 DEF Leak
<1>6. AccountNames'
  <2> SUFFICES ASSUME NEW d \in Conns, pc'[d] \notin {"leaving", "closed"},
                      NEW t \in Topics, subscriber(d, t)', ~Leak'
               PROVE  Listed(d)' /\ t \in getSubScribedTopicNames(d)'
    BY DEF AccountNames
  <2>1. subscriber(d, t) /\ pc[d] \notin {"leaving", "closed"}
    BY <1>0, <1>1, <1>2 DEF subscriber
  <2>2. Listed(d) /\ t \in getSubScribedTopicNames(d)
    BY <1>4, <2>1 DEF GhostInv, AccountNames
  <2>3. d # c
    BY <1>5, <2>2 DEF Listed
  <2> QED
    BY <1>0, <1>1, <2>2, <2>3 DEF Listed, is_client_user_connected, getSubScribedTopicNames
<1>7. DismissedOut'
  BY <1>0, <1>1, <1>2 DEF GhostInv, DismissedOut, is_client_user_connected, Draining
<1>8. Outsiders'
  BY <1>0, <1>1, <1>2, <1>4 DEF GhostInv, Outsiders, is_client_user_connected, subscriber
<1> QED
  BY <1>6, <1>7, <1>8 DEF GhostInv

\* Who subscribes has the topic listed with its account, or throws.
LEMMA SubscribeGhost ==
    ASSUME TypeOK, GhostInv, NEW c \in Conns, NEW t \in Topics, NEW s \in SubIds,
           subscribe(t, s, c), RequestEnds(c),
           UNCHANGED <<connected, user_client_connection>>,
           dismissed'[c] => pc'[c] = "leaving",
           \A u \in Users : subscribed_topic_names[u] \subseteq subscribed_topic_names'[u],
           \/ pc'[c] = "leaving"
           \/ Listed(c) /\ t \in subscribed_topic_names'[user_client_connection[c]]
    PROVE  GhostInv'
<1>0. /\ user_client_id \in [Topics -> [SubIds -> Conns \cup {NoConn}]]
      /\ pc[c] = "reading" /\ c \in connections /\ UNCHANGED connections
      /\ \A d \in Conns \ {c} : pc'[d] = pc[d] /\ dismissed'[d] = dismissed[d]
      /\ messy => messy'
  BY DEF TypeOK, TopicTypeOK, RequestEnds
<1>1. \A d \in Conns, x \in Topics :
         subscriber(d, x)' => subscriber(d, x) \/ (d = c /\ x = t)
  BY <1>0 DEF subscribe, subscriber
<1>2. Leak' = Leak
  BY DEF Leak
<1>3. AccountNames'
  <2> SUFFICES ASSUME NEW d \in Conns, pc'[d] \notin {"leaving", "closed"},
                      NEW x \in Topics, subscriber(d, x)', ~Leak'
               PROVE  Listed(d)' /\ x \in getSubScribedTopicNames(d)'
    BY DEF AccountNames
  <2>1. CASE d = c /\ x = t
    BY <2>1 DEF Listed, is_client_user_connected, getSubScribedTopicNames
  <2>2. CASE subscriber(d, x)
    <3>1. pc[d] \notin {"leaving", "closed"}
      BY <1>0
    <3>2. Listed(d) /\ x \in getSubScribedTopicNames(d)
      BY <1>2, <2>2, <3>1 DEF GhostInv, AccountNames
    <3> QED
      BY <3>2 DEF Listed, is_client_user_connected, getSubScribedTopicNames
  <2> QED
    BY <1>1, <2>1, <2>2
<1>4. DismissedOut'
  BY <1>0 DEF GhostInv, DismissedOut, is_client_user_connected, Draining
<1>5. Outsiders'
  BY <1>0, <1>1, <1>2 DEF GhostInv, Outsiders, is_client_user_connected
<1> QED
  BY <1>3, <1>4, <1>5 DEF GhostInv

\* A step that only takes subscriptions away, or none.
LEMMA FewerGhost ==
    ASSUME TypeOK, GhostInv, NEW c \in Conns, RequestEnds(c),
           \A d \in Conns, t \in Topics : subscriber(d, t)' => subscriber(d, t),
           UNCHANGED accountVars, dismissed'[c] => pc'[c] = "leaving"
    PROVE  GhostInv'
<1>0. /\ pc[c] = "reading" /\ c \in connections /\ UNCHANGED connections
      /\ \A d \in Conns \ {c} : pc'[d] = pc[d] /\ dismissed'[d] = dismissed[d]
      /\ messy => messy'
  BY DEF RequestEnds
<1>1. Leak' = Leak
  BY DEF Leak, accountVars
<1>2. AccountNames'
  <2> SUFFICES ASSUME NEW d \in Conns, pc'[d] \notin {"leaving", "closed"},
                      NEW t \in Topics, subscriber(d, t)', ~Leak'
               PROVE  Listed(d)' /\ t \in getSubScribedTopicNames(d)'
    BY DEF AccountNames
  <2>1. pc[d] \notin {"leaving", "closed"} /\ subscriber(d, t)
    BY <1>0
  <2>2. Listed(d) /\ t \in getSubScribedTopicNames(d)
    BY <1>1, <2>1 DEF GhostInv, AccountNames
  <2> QED
    BY <2>2 DEF Listed, is_client_user_connected, getSubScribedTopicNames, accountVars
<1>3. DismissedOut'
  BY <1>0 DEF GhostInv, DismissedOut, is_client_user_connected, Draining, accountVars
<1>4. Outsiders'
  BY <1>0, <1>1 DEF GhostInv, Outsiders, is_client_user_connected, accountVars
<1> QED
  BY <1>2, <1>3, <1>4 DEF GhostInv

\* Logging out: what other connections have stays, and the connection itself has
\* no session left, and no subscription but with an account left connected.
LEMMA LogoutGhost ==
    ASSUME TypeOK, OneSessionPerUser, GhostInv, NEW c \in Conns, RequestEnds(c),
           LogsOut(c) \/ Refuse(c)
    PROVE  GhostInv'
<1>0. /\ connected \in [Users -> BOOLEAN]
      /\ user_client_connection \in [Conns -> Users \cup {NoUser}]
      /\ NoUser \notin Users /\ connections \subseteq Conns
      /\ user_client_id \in [Topics -> [SubIds -> Conns \cup {NoConn}]]
      /\ c # NoConn
  BY NullAssumption, ConnsAssumption DEF TypeOK, UserTypeOK, TopicTypeOK, Conns, NoConn
<1>1. /\ is_client_user_connected(c) /\ user_disconnect(c)
      /\ \/ unsubscribe_user(c)
         \/ getSubScribedTopicNames(c) = {} /\ UNCHANGED user_client_id
  BY DEF LogsOut, disconnect_client, Refuse, topicVars
<1>2. /\ pc[c] = "reading" /\ c \in connections /\ UNCHANGED connections
      /\ \A d \in Conns \ {c} : pc'[d] = pc[d] /\ dismissed'[d] = dismissed[d]
      /\ messy => messy'
  BY DEF RequestEnds
<1> DEFINE v == user_client_connection[c]
<1>3. /\ v \in Users /\ \A d \in Conns \ {c} : user_client_connection[d] # v
      /\ connected' = [connected EXCEPT ![v] = FALSE]
      /\ user_client_connection' = [user_client_connection EXCEPT ![c] = NoUser]
      /\ UNCHANGED subscribed_topic_names
  BY <1>0, <1>1 DEF user_disconnect, OneSessionPerUser, is_client_user_connected
<1>4. Leak => Leak'
  <2> SUFFICES ASSUME Leak PROVE Leak'
    OBVIOUS
  <2>1. PICK u \in Users : connected[u] /\ \A d \in Conns : user_client_connection[d] # u
    BY DEF Leak
  <2>2. u # v
    BY <2>1
  <2>3. connected'[u] /\ \A d \in Conns : user_client_connection'[d] # u
    BY <1>0, <1>3, <2>1, <2>2
  <2> QED
    BY <2>3 DEF Leak
<1>5. \A d \in Conns, t \in Topics : subscriber(d, t)' => subscriber(d, t)
  <2>1. \A d \in Conns : d # NoConn
    BY ConnsAssumption DEF Conns, NoConn
  <2>2. CASE unsubscribe_user(c)
    BY <1>0, <2>1, <2>2 DEF subscriber, unsubscribe_user
  <2>3. CASE UNCHANGED user_client_id
    BY <2>3 DEF subscriber
  <2> QED
    BY <1>1, <2>2, <2>3
<1>6. \A t \in Topics : subscriber(c, t)' => Leak'
  <2> SUFFICES ASSUME NEW t \in Topics, subscriber(c, t)' PROVE Leak'
    OBVIOUS
  <2>1. ~unsubscribe_user(c)
    BY <1>0 DEF subscriber, unsubscribe_user
  <2>2. getSubScribedTopicNames(c) = {} /\ subscriber(c, t)
    BY <1>1, <1>5, <2>1
  <2> QED
    BY <1>2, <1>4, <2>2 DEF GhostInv, AccountNames
<1>7. AccountNames'
  <2> SUFFICES ASSUME NEW d \in Conns, pc'[d] \notin {"leaving", "closed"},
                      NEW t \in Topics, subscriber(d, t)', ~Leak'
               PROVE  Listed(d)' /\ t \in getSubScribedTopicNames(d)'
    BY DEF AccountNames
  <2>1. d # c
    BY <1>6
  <2>2. subscriber(d, t) /\ pc[d] \notin {"leaving", "closed"}
    BY <1>0, <1>2, <1>5, <2>1
  <2>3. Listed(d) /\ t \in getSubScribedTopicNames(d)
    BY <1>4, <2>2 DEF GhostInv, AccountNames
  <2> QED
    BY <1>0, <1>3, <2>1, <2>3 DEF Listed, is_client_user_connected, getSubScribedTopicNames
<1>8. DismissedOut'
  BY <1>0, <1>2, <1>3 DEF GhostInv, DismissedOut, is_client_user_connected
<1>9. Outsiders'
  BY <1>0, <1>2, <1>3, <1>4, <1>5 DEF GhostInv, Outsiders, is_client_user_connected
<1> QED
  BY <1>7, <1>8, <1>9 DEF GhostInv

LEMMA GrantsGhost ==
    ASSUME TypeOK, OneSessionPerUser, GhostInv, NEW c \in Conns, RequestEnds(c),
           dismissed'[c] => pc'[c] = "leaving", Grants(c)
    PROVE  GhostInv'
<1>0. /\ user_client_connection \in [Conns -> Users \cup {NoUser}]
      /\ subscribed_topic_names \in [Users -> SUBSET Topics]
      /\ user_client_id \in [Topics -> [SubIds -> Conns \cup {NoConn}]]
  BY DEF TypeOK, UserTypeOK, TopicTypeOK
<1>1. PICK r \in BOOLEAN :
        \/ \E u \in Users, p \in Passwords : Connect(c, u, p, r)
        \/ \E t \in Topics : Send(c, t, r)
        \/ \E t \in Topics, s \in SubIds : Subscribe(c, t, s, r)
        \/ \E s \in SubIds : Unsubscribe(c, s, r)
  BY Zenon DEF Grants
<1>2. ASSUME NEW u \in Users, NEW p \in Passwords, Connect(c, u, p, r)
      PROVE  GhostInv'
  BY <1>2, ConnectGhost
<1>3. ASSUME NEW t \in Topics, Send(c, t, r) PROVE GhostInv'
  <2>1. UNCHANGED <<accountVars, user_client_id>>
    BY <1>3 DEF Send, userVars, topicVars, accountVars
  <2> QED
    BY <2>1, FewerGhost DEF subscriber
<1>4. ASSUME NEW t \in Topics, NEW s \in SubIds, Subscribe(c, t, s, r)
      PROVE  GhostInv'
  <2>1. /\ subscribe(t, s, c) /\ UNCHANGED <<connected, user_client_connection>>
        /\ Listed(c)
    BY <1>0, <1>4 DEF Subscribe, subscribe_current_user, Listed, is_client_user_connected
  <2>2. /\ \A u \in Users : subscribed_topic_names[u] \subseteq subscribed_topic_names'[u]
        /\ t \in subscribed_topic_names'[user_client_connection[c]]
    BY <1>0, <1>4, <2>1 DEF Subscribe, subscribe_current_user, Listed
  <2> QED
    BY <2>1, <2>2, SubscribeGhost
<1>5. ASSUME NEW s \in SubIds, Unsubscribe(c, s, r) PROVE GhostInv'
  <2>1. UNCHANGED accountVars /\ unsubscribe(s)
    BY <1>5 DEF Unsubscribe, userVars, accountVars
  <2>2. \A d \in Conns, t \in Topics : subscriber(d, t)' => subscriber(d, t)
    BY <1>0, <2>1, ConnsAssumption DEF unsubscribe, subscriber, Conns, NoConn
  <2> QED
    BY <2>1, <2>2, FewerGhost
<1> QED
  BY <1>1, <1>2, <1>3, <1>4, <1>5

\* The requests: those carried out and answered, and those that end in a throw.
LEMMA RequestGhost ==
    ASSUME TypeOK, OneSessionPerUser, GhostInv, NEW c \in Conns,
           Serve(c) \/ Dismiss(c) \/ Throw(c)
    PROVE  GhostInv'
<1>0. /\ pc \in [Conns -> Places] /\ dismissed \in [Conns -> BOOLEAN]
      /\ user_client_id \in [Topics -> [SubIds -> Conns \cup {NoConn}]]
  BY DEF TypeOK, TopicTypeOK
<1>1. RequestEnds(c)
  <2>1. /\ pc[c] = "reading" /\ c \in connections /\ UNCHANGED <<connections, torn>>
    BY DEF Serve, Dismiss, Throw, read_request, may_find
  <2>2. /\ goto(c, "poll") \/ goto(c, "leaving")
        /\ \E b \in BOOLEAN : dismissed' = [dismissed EXCEPT ![c] = b]
    <3>1. CASE Serve(c) \/ Dismiss(c)
      BY <3>1 DEF Serve, Dismiss, start_draining
    <3>2. CASE Throw(c)
      BY <1>0, <3>2 DEF Throw
    <3> QED
      BY <3>1, <3>2
  <2>3. disturbed => disturbed'
    BY DEF Serve, Dismiss, Throw, start_draining
  <2> QED
    BY <1>0, <2>1, <2>2, <2>3 DEF RequestEnds, goto, messy
<1>2. CASE Serve(c)
  <2>1. ~dismissed'[c] /\ Grants(c)
    BY <1>0, <1>2, RequestCases DEF Serve
  <2> QED
    BY <1>1, <2>1, GrantsGhost
<1>3. CASE Dismiss(c)
  BY <1>1, <1>3, RequestCases, LogoutGhost DEF Dismiss
<1>4. CASE Throw(c)
  <2>1. pc'[c] = "leaving"
    BY <1>0, <1>4 DEF Throw, goto
  <2>2. CASE RefuseStranger(c) \/ Unparsable \/ (\E t \in Topics : UnparsableId(t))
    <3>1. UNCHANGED <<accountVars, user_client_id>>
      BY <2>2 DEF RefuseStranger, Unparsable, UnparsableId, managerVars, userVars, topicVars,
                  accountVars
    <3> QED
      BY <1>1, <2>1, <3>1, FewerGhost DEF subscriber
  <2>3. ASSUME NEW t \in Topics, NEW s \in SubIds, SubscribeStranger(c, t, s)
        PROVE  GhostInv'
    <3>1. /\ subscribe(t, s, c) /\ UNCHANGED <<connected, user_client_connection>>
          /\ \A u \in Users : subscribed_topic_names[u] \subseteq subscribed_topic_names'[u]
      BY <2>3 DEF SubscribeStranger, userVars
    <3> QED
      BY <1>1, <2>1, <3>1, SubscribeGhost
  <2>4. CASE DisconnectStranger(c)
    <3>1. UNCHANGED accountVars
      BY <2>4 DEF DisconnectStranger, userVars, accountVars
    <3>2. \A d \in Conns, t \in Topics : subscriber(d, t)' => subscriber(d, t)
      BY <1>0, <2>4, ConnsAssumption
      DEF DisconnectStranger, unsubscribe_user, subscriber, Conns, NoConn
    <3> QED
      BY <1>1, <2>1, <3>1, <3>2, FewerGhost
  <2>5. CASE ReceiptThrows(c)
    BY <1>1, <2>1, <2>5, RequestCases, GrantsGhost, LogoutGhost
  <2> QED
    BY <1>4, <2>2, <2>3, <2>4, <2>5 DEF Throw
<1> QED
  BY <1>2, <1>3, <1>4

\* A thread that drops its client had been told to by the client, so that the
\* client has no session any more; its subscriptions follow AccountNames.
LEMMA WriteGhost ==
    ASSUME TypeOK, OrderlyReplies, GhostInv, NEW c \in Conns, EndsWrite(c)
    PROVE  GhostInv'
<1>0. connections \subseteq Conns /\ pc \in [Conns -> Places]
  BY DEF TypeOK
<1>1. /\ pc[c] \in Writing
      /\ pc'[c] \in {"reading", "unserved", "leaving"}
      /\ \A d \in Conns \ {c} : pc'[d] = pc[d]
      /\ UNCHANGED <<accountVars, user_client_id, dismissed, disturbed, torn>>
  BY <1>0 DEF EndsWrite, Execute, Remove, FailWrite, goto, managerVars, userVars, topicVars,
              accountVars, Writing
<1>2. /\ Leak' = Leak /\ messy' = messy
      /\ \A d \in Conns : /\ is_client_user_connected(d)' = is_client_user_connected(d)
                          /\ Listed(d)' = Listed(d)
                          /\ getSubScribedTopicNames(d)' = getSubScribedTopicNames(d)
                          /\ \A t \in Topics : subscriber(d, t)' = subscriber(d, t)
  BY <1>1 DEF Leak, Listed, is_client_user_connected, getSubScribedTopicNames, subscriber,
              accountVars, messy
<1>3. AccountNames'
  BY <1>1, <1>2 DEF GhostInv, AccountNames, Writing
<1>4. DismissedOut'
  BY <1>1, <1>2 DEF GhostInv, DismissedOut, Draining
<1>5. ASSUME ~messy PROVE connections \subseteq connections' \/ pc[c] = "removing"
  BY <1>5 DEF EndsWrite, Execute, Remove, FailWrite, left_by_write, messy
<1>6. ASSUME ~messy PROVE connections \ {c} \subseteq connections'
  BY <1>6 DEF EndsWrite, Execute, Remove, FailWrite, left_by_write, messy
<1>7. ~messy /\ pc[c] = "removing" => ~is_client_user_connected(c)
  BY DEF OrderlyReplies, GhostInv, DismissedOut, messy
<1>8. pc[c] = "removing" /\ ~is_client_user_connected(c) =>
         \A t \in Topics : subscriber(c, t) => Leak
  BY DEF GhostInv, AccountNames, Listed
<1>9. Outsiders'
  BY <1>0, <1>2, <1>5, <1>6, <1>7, <1>8 DEF GhostInv, Outsiders
<1> QED
  BY <1>3, <1>4, <1>9 DEF GhostInv

\* A step of a thread that is no request and leaves the table alone.
LEMMA ThreadGhost ==
    ASSUME TypeOK, GhostInv, NEW c \in Conns,
           \/ HangUp(c) \/ ShouldTerminate(c) \/ Drained(c) \/ SeeCommand(c)
           \/ TakeCommand(c) \/ TakeNothing(c) \/ ReplySelf(c) \/ NoteDisconnect(c)
           \/ StartFanOut(c) \/ MissQueue(c) \/ EndFanOut(c) \/ FailFanOut(c)
           \/ WakeUp(c) \/ Close(c)
    PROVE  GhostInv'
<1>0. pc \in [Conns -> Places]
  BY DEF TypeOK
<1>1. PICK place \in {"take", "dispatch", "poll", "fanout", "asleep", "reading", "removing",
                      "leaving", "closed"} :
         goto(c, place) /\ (place \in Draining \cup {"asleep", "removing"} =>
                              pc[c] \in Draining \cup {"asleep"})
                        /\ (pc[c] \in {"leaving", "closed"} => place = "closed")
  BY DEF HangUp, ShouldTerminate, Drained, SeeCommand, TakeCommand, TakeNothing, ReplySelf,
         NoteDisconnect, StartFanOut, MissQueue, EndFanOut, FailFanOut, WakeUp, Close,
         Draining
<1>2. UNCHANGED <<accountVars, user_client_id, connections, dismissed>>
  BY DEF HangUp, ShouldTerminate, Drained, SeeCommand, TakeCommand, TakeNothing, ReplySelf,
         NoteDisconnect, StartFanOut, MissQueue, EndFanOut, FailFanOut, WakeUp, Close,
         managerVars, userVars, topicVars, serverVars, accountVars
<1>3. messy => messy'
  <2>1. torn => torn'
    BY DEF HangUp, ShouldTerminate, Drained, SeeCommand, TakeCommand, TakeNothing, ReplySelf,
           NoteDisconnect, StartFanOut, MissQueue, EndFanOut, FailFanOut, WakeUp, Close,
           serverVars
  <2>2. disturbed => disturbed'
    BY DEF HangUp, ShouldTerminate, Drained, SeeCommand, TakeCommand, TakeNothing, ReplySelf,
           NoteDisconnect, StartFanOut, MissQueue, EndFanOut, FailFanOut, WakeUp, Close,
           serverVars
  <2> QED
    BY <2>1, <2>2 DEF messy
<1>4. pc'[c] = place /\ \A d \in Conns \ {c} : pc'[d] = pc[d]
  BY <1>0, <1>1 DEF goto
<1> QED
  BY <1>1, <1>2, <1>3, <1>4, AsideGhost

LEMMA GhostStep ==
    TypeOK /\ UnbornInv /\ OneSessionPerUser /\ OrderlyReplies /\ GhostInv /\ [Next]_vars
        => GhostInv'
<1> SUFFICES ASSUME TypeOK, UnbornInv, OneSessionPerUser, OrderlyReplies, GhostInv,
                    [Next]_vars
             PROVE  GhostInv'
  OBVIOUS
<1>0. pc \in [Conns -> Places] /\ connections \subseteq Conns
  BY DEF TypeOK
<1>1. CASE Accept
  <2> DEFINE c == running_id + 1
  <2>1. c \in Conns /\ pc[c] = "unborn"
    BY <1>1, ConnsAssumption DEF Accept, TypeOK, UnbornInv, Conns
  <2>2. /\ pc'[c] = "joining" /\ (\A d \in Conns \ {c} : pc'[d] = pc[d])
        /\ UNCHANGED <<accountVars, user_client_id, connections, dismissed>>
        /\ messy => messy'
    BY <1>0, <1>1, <2>1
    DEF Accept, goto, managerVars, userVars, topicVars, accountVars, messy
  <2> HIDE DEF c
  <2> QED
    BY <2>1, <2>2, AsideGhost DEF Draining
<1>2. ASSUME NEW c \in Conns, Serve(c) \/ Dismiss(c) \/ Throw(c) \/ HangUp(c)
      PROVE  GhostInv'
  BY <1>2, RequestGhost, ThreadGhost
<1>3. ASSUME NEW c \in Conns, Proceed(c) PROVE GhostInv'
  <2>1. CASE EndsWrite(c)
    BY <2>1, WriteGhost
  <2>2. CASE SendToNext(c)
    <3>1. /\ UNCHANGED <<accountVars, user_client_id, connections, pc, dismissed>>
          /\ UNCHANGED <<disturbed, torn>>
      BY <2>2 DEF SendToNext, managerVars, userVars, topicVars, accountVars
    <3> QED
      BY <3>1 DEF GhostInv, AccountNames, DismissedOut, Outsiders, Leak, Listed, messy,
                  is_client_user_connected, getSubScribedTopicNames, subscriber, accountVars
  <2> QED
    BY <1>3, <2>1, <2>2, ThreadGhost DEF Proceed, EndsWrite
<1>4. CASE UNCHANGED vars
  <2>1. /\ UNCHANGED <<accountVars, user_client_id, connections, pc, dismissed>>
        /\ UNCHANGED <<disturbed, torn>>
    BY <1>4 DEF vars, threadVars, serverVars, managerVars, userVars, topicVars, accountVars
  <2> QED
    BY <2>1 DEF GhostInv, AccountNames, DismissedOut, Outsiders, Leak, Listed, messy,
                is_client_user_connected, getSubScribedTopicNames, subscriber, accountVars
<1> QED
  BY <1>1, <1>2, <1>3, <1>4 DEF Next

\* Unless two threads have torn the table, a connection the server has dropped in
\* an orderly way has no session, and no subscription unless some account was left
\* marked connected.  (user_disconnect, unsubscribe_user,
\* StompConnections.disconnect.)
THEOREM DroppedLeaveNothing == Spec => []NoGhostSubscribers
<1>1. Init => UnbornInv /\ GhostInv
  BY UnbornInit, GhostInit
<1>2. TypeOK /\ UnbornInv /\ [Next]_vars => UnbornInv'
  BY UnbornStep
<1>3. TypeOK /\ UnbornInv /\ OneSessionPerUser /\ OrderlyReplies /\ GhostInv /\ [Next]_vars
         => GhostInv'
  BY GhostStep
<1>4. TypeOK /\ GhostInv => NoGhostSubscribers
  BY GhostMeans
<1> QED
  BY <1>1, <1>2, <1>3, <1>4, TypeCorrect, OneSession, RepliesAreOrderly, PTL DEF Spec

-----------------------------------------------------------------------------
(* Commands and frames.  A request adds as many frames as it adds commands  *)
(* that want one, and a command is given up before its frame is fetched.    *)

wanted(q) == {i \in 1 .. Len(q) : wants_frame(q[i])}
holders == {c \in Conns : pc[c] = "dispatch" /\ wants_frame(response[c])}
waiting(queues) == {q \in Conns \X (1 .. 2 * MaxRequests) : q[2] <= Len(queues[q[1]])}

\* Twice the number of requests is room enough for every queue.
QueuesInv == \A c \in Conns : Len(ClientMesssageQueues[c]) <= 2 * received

\* All of them are finite.
LEMMA WantedFinite ==
    ASSUME NEW q \in Seq(Commands)
    PROVE  IsFiniteSet(wanted(q)) /\ Cardinality(wanted(q)) \in Nat
<1>1. IsFiniteSet(1 .. Len(q)) /\ wanted(q) \in SUBSET (1 .. Len(q))
  BY FS_Interval, LenProperties DEF wanted
<1> QED
  BY <1>1, FS_Subset, FS_CardinalityType

LEMMA HoldersFinite == IsFiniteSet(holders) /\ Cardinality(holders) \in Nat
<1>1. IsFiniteSet(Conns) /\ holders \in SUBSET Conns
  BY FS_Interval, ConnsAssumption DEF Conns, holders
<1> QED
  BY <1>1, FS_Subset, FS_CardinalityType

LEMMA WaitingFinite ==
    ASSUME NEW queues
    PROVE  IsFiniteSet(waiting(queues)) /\ Cardinality(waiting(queues)) \in Nat
<1>1. IsFiniteSet(Conns) /\ IsFiniteSet(1 .. 2 * MaxRequests)
  BY FS_Interval, ConnsAssumption, BoundAssumption DEF Conns
<1>2. IsFiniteSet(Conns \X (1 .. 2 * MaxRequests))
  BY <1>1, FS_Product
<1>3. waiting(queues) \in SUBSET (Conns \X (1 .. 2 * MaxRequests))
  BY DEF waiting
<1> QED
  BY <1>2, <1>3, FS_Subset, FS_CardinalityType

\* A command more may be one more that wants a frame.
LEMMA WantedAppend ==
    ASSUME NEW q \in Seq(Commands), NEW x \in Commands
    PROVE  /\ q \o <<x>> \in Seq(Commands)
           /\ Cardinality(wanted(q \o <<x>>))
                = Cardinality(wanted(q)) + (IF wants_frame(x) THEN 1 ELSE 0)
<1>1. /\ q \o <<x>> \in Seq(Commands) /\ Len(q \o <<x>>) = Len(q) + 1 /\ Len(q) \in Nat
      /\ \A i \in 1 .. Len(q) : (q \o <<x>>)[i] = q[i]
      /\ (q \o <<x>>)[Len(q) + 1] = x
  BY LenProperties
<1>2. IsFiniteSet(wanted(q)) /\ Cardinality(wanted(q)) \in Nat
  BY WantedFinite
<1>3. CASE wants_frame(x)
  <2>1. wanted(q \o <<x>>) = wanted(q) \cup {Len(q) + 1} /\ Len(q) + 1 \notin wanted(q)
    BY <1>1, <1>3 DEF wanted
  <2> QED
    BY <1>1, <1>2, <1>3, <2>1, FS_AddElement
<1>4. CASE ~wants_frame(x)
  <2>1. wanted(q \o <<x>>) = wanted(q)
    BY <1>1, <1>4 DEF wanted
  <2> QED
    BY <1>1, <1>2, <1>4, <2>1
<1> QED
  BY <1>3, <1>4

\* The first command may be one less that does.
LEMMA WantedTail ==
    ASSUME NEW q \in Seq(Commands), q # <<>>
    PROVE  Cardinality(wanted(Tail(q)))
             = Cardinality(wanted(q)) - (IF wants_frame(Head(q)) THEN 1 ELSE 0)
<1> DEFINE rest == wanted(q) \ {1}
           shift == [i \in wanted(Tail(q)) |-> i + 1]
<1>0. /\ Len(q) \in Nat \ {0} /\ Len(Tail(q)) = Len(q) - 1
      /\ \A i \in 1 .. Len(q) - 1 : Tail(q)[i] = q[i + 1]
      /\ Head(q) = q[1] /\ Tail(q) \in Seq(Commands)
  BY HeadTailProperties, EmptySeq
<1>1. shift \in Bijection(wanted(Tail(q)), rest)
  <2>1. shift \in [wanted(Tail(q)) -> rest]
    BY <1>0 DEF wanted
  <2>2. \A i, j \in wanted(Tail(q)) : shift[i] = shift[j] => i = j
    BY DEF wanted
  <2>3. \A k \in rest : \E i \in wanted(Tail(q)) : shift[i] = k
    <3> TAKE k \in rest
    <3>1. k - 1 \in wanted(Tail(q))
      BY <1>0 DEF wanted
    <3> WITNESS k - 1 \in wanted(Tail(q))
    <3> QED
      BY <3>1 DEF wanted
  <2> QED
    BY <2>1, <2>2, <2>3, Fun_IsBij
<1>2. IsFiniteSet(wanted(q)) /\ Cardinality(wanted(q)) \in Nat
  BY WantedFinite
<1>3. /\ IsFiniteSet(rest)
      /\ Cardinality(rest) = Cardinality(wanted(q)) - (IF 1 \in wanted(q) THEN 1 ELSE 0)
  BY <1>2, FS_RemoveElement
<1>4. Cardinality(wanted(Tail(q))) = Cardinality(rest)
  <2>1. ExistsBijection(wanted(Tail(q)), rest)
    BY <1>1 DEF ExistsBijection
  <2> QED
    BY <1>0, <2>1, FS_Bijection, WantedFinite
<1>5. 1 \in wanted(q) <=> wants_frame(Head(q))
  BY <1>0 DEF wanted
<1> QED
  BY <1>3, <1>4, <1>5

\* A frame added to a queue that has room is one frame more.
LEMMA WaitingAppend ==
    ASSUME NEW queues \in [Conns -> Seq(Frames)], NEW c \in Conns, NEW f \in Frames,
           Len(queues[c]) < 2 * MaxRequests
    PROVE  Cardinality(waiting([queues EXCEPT ![c] = @ \o <<f>>]))
             = Cardinality(waiting(queues)) + 1
<1> DEFINE more == [queues EXCEPT ![c] = @ \o <<f>>]
<1>1. queues[c] \in Seq(Frames) /\ Len(queues[c]) \in Nat
  BY LenProperties
<1>2. Len(queues[c] \o <<f>>) = Len(queues[c]) + 1
  BY <1>1
<1>3. /\ Len(more[c]) = Len(queues[c]) + 1
      /\ \A d \in Conns \ {c} : more[d] = queues[d]
  BY <1>2
<1>4. Len(queues[c]) + 1 \in 1 .. 2 * MaxRequests
  BY <1>1, BoundAssumption
<1> HIDE DEF more
<1>5. /\ waiting(more) = waiting(queues) \cup {<<c, Len(queues[c]) + 1>>}
      /\ <<c, Len(queues[c]) + 1>> \notin waiting(queues)
  BY <1>1, <1>3, <1>4 DEF waiting
<1>6. Cardinality(waiting(more)) = Cardinality(waiting(queues)) + 1
  BY <1>5, WaitingFinite, FS_AddElement
<1> QED
  BY <1>6 DEF more

\* Fetching takes at most one, and none from an empty queue.
LEMMA WaitingFetch ==
    ASSUME TypeOK, QueuesInv, NEW c \in Conns, get_queued_message(c)
    PROVE  Cardinality(waiting(ClientMesssageQueues'))
             >= Cardinality(waiting(ClientMesssageQueues)) - 1
<1>0. /\ ClientMesssageQueues[c] \in Seq(Frames) /\ Len(ClientMesssageQueues[c]) \in Nat
      /\ ClientMesssageQueues \in [Conns -> Seq(Frames)]
  BY LenProperties DEF TypeOK, ResponseTypeOK
<1>1. CASE ClientMesssageQueues[c] = <<>>
  <2>1. ClientMesssageQueues' = ClientMesssageQueues
    BY <1>0, <1>1 DEF get_queued_message
  <2> QED
    BY <2>1, WaitingFinite
<1>2. CASE ClientMesssageQueues[c] # <<>>
  <2>1. /\ Len(ClientMesssageQueues'[c]) = Len(ClientMesssageQueues[c]) - 1
        /\ \A d \in Conns \ {c} : ClientMesssageQueues'[d] = ClientMesssageQueues[d]
    BY <1>0, <1>2, HeadTailProperties DEF get_queued_message
  <2> DEFINE last == <<c, Len(ClientMesssageQueues[c])>>
  <2>2. waiting(ClientMesssageQueues') = waiting(ClientMesssageQueues) \ {last}
    <3>1. \A d \in Conns, i \in 1 .. 2 * MaxRequests :
             i <= Len(ClientMesssageQueues'[d]) <=>
                i <= Len(ClientMesssageQueues[d]) /\ <<d, i>> # last
      <4> TAKE d \in Conns, i \in 1 .. 2 * MaxRequests
      <4>1. CASE d = c
        BY <1>0, <2>1, <4>1
      <4>2. CASE d # c
        BY <2>1, <4>2
      <4> QED
        BY <4>1, <4>2
    <3> QED
      BY <3>1 DEF waiting
  <2> HIDE DEF last
  <2>3. /\ IsFiniteSet(waiting(ClientMesssageQueues))
        /\ Cardinality(waiting(ClientMesssageQueues)) \in Nat
    BY WaitingFinite
  <2>4. Cardinality(waiting(ClientMesssageQueues) \ {last})
          \in {Cardinality(waiting(ClientMesssageQueues)),
               Cardinality(waiting(ClientMesssageQueues)) - 1}
    BY <2>3, FS_RemoveElement
  <2> QED
    BY <2>2, <2>3, <2>4
<1> QED
  BY <1>1, <1>2

\* What generateResponse queues: nothing, one frame with its command, or the
\* command to disconnect, which wants none.
Paired(frames, cmds) ==
    \/ frames = <<>> /\ cmds = <<>>
    \/ frames = <<>> /\ cmds = <<"disconnect">>
    \/ \E f \in Frames, x \in Commands :
          frames = <<f>> /\ cmds = <<x>> /\ wants_frame(x)

\* So many frames and so many commands that want one are added.
Balanced(queues, cmds, n) ==
    /\ Cardinality(waiting(queues)) = Cardinality(waiting(ClientMesssageQueues)) + n
    /\ Cardinality(wanted(cmds)) = Cardinality(wanted(commands)) + n

LEMMA PairedBalance ==
    ASSUME TypeOK, QueuesInv, received < MaxRequests, NEW c \in Conns,
           NEW frames, NEW cmds, Paired(frames, cmds)
    PROVE  \E n \in 0 .. 1 :
              /\ Balanced([ClientMesssageQueues EXCEPT ![c] = @ \o frames],
                          commands \o cmds, n)
              /\ ClientMesssageQueues[c] \o frames \in Seq(Frames)
              /\ Len(ClientMesssageQueues[c] \o frames) = Len(ClientMesssageQueues[c]) + n
              /\ commands \o cmds \in Seq(Commands)
<1>0. /\ ClientMesssageQueues \in [Conns -> Seq(Frames)] /\ commands \in Seq(Commands)
      /\ ClientMesssageQueues[c] \in Seq(Frames) /\ Len(ClientMesssageQueues[c]) \in Nat
      /\ Len(ClientMesssageQueues[c]) < 2 * MaxRequests
      /\ ClientMesssageQueues[c] \o <<>> = ClientMesssageQueues[c]
      /\ commands \o <<>> = commands
  BY LenProperties, ConcatEmptySeq, BoundAssumption DEF TypeOK, ResponseTypeOK, QueuesInv
<1>1. /\ Cardinality(waiting(ClientMesssageQueues)) \in Nat
      /\ Cardinality(wanted(commands)) \in Nat
  BY <1>0, WaitingFinite, WantedFinite
<1> DEFINE more == [ClientMesssageQueues EXCEPT ![c] = @ \o frames]
<1>2. frames = <<>> => more = ClientMesssageQueues
  BY <1>0
<1>3. CASE frames = <<>> /\ cmds = <<>>
  <2>1. Balanced(more, commands \o cmds, 0)
    <3> HIDE DEF more
    <3> QED
      BY <1>0, <1>1, <1>3, <1>2 DEF Balanced
  <2>2. /\ ClientMesssageQueues[c] \o frames \in Seq(Frames)
        /\ Len(ClientMesssageQueues[c] \o frames) = Len(ClientMesssageQueues[c]) + 0
        /\ commands \o cmds \in Seq(Commands)
    BY <1>0, <1>3
  <2> QED
    BY <2>1, <2>2
<1>4. CASE frames = <<>> /\ cmds = <<"disconnect">>
  <2>1. "disconnect" \in Commands /\ ~wants_frame("disconnect")
    BY DEF Commands, ControlWords, wants_frame
  <2>2. commands \o <<"disconnect">> \in Seq(Commands)
        /\ Cardinality(wanted(commands \o <<"disconnect">>)) = Cardinality(wanted(commands))
    BY <1>0, <1>1, <2>1, WantedAppend
  <2>3. Balanced(more, commands \o cmds, 0)
    <3> HIDE DEF more
    <3> QED
      BY <1>0, <1>1, <1>4, <1>2, <2>2 DEF Balanced
  <2>4. /\ ClientMesssageQueues[c] \o frames \in Seq(Frames)
        /\ Len(ClientMesssageQueues[c] \o frames) = Len(ClientMesssageQueues[c]) + 0
        /\ commands \o cmds \in Seq(Commands)
    BY <1>0, <1>4, <2>2
  <2> QED
    BY <2>3, <2>4
<1>5. ASSUME NEW f \in Frames, NEW x \in Commands,
             frames = <<f>>, cmds = <<x>>, wants_frame(x)
      PROVE  \E n \in 0 .. 1 :
                /\ Balanced([ClientMesssageQueues EXCEPT ![c] = @ \o frames],
                            commands \o cmds, n)
                /\ ClientMesssageQueues[c] \o frames \in Seq(Frames)
                /\ Len(ClientMesssageQueues[c] \o frames)
                     = Len(ClientMesssageQueues[c]) + n
                /\ commands \o cmds \in Seq(Commands)
  <2>1. Cardinality(waiting([ClientMesssageQueues EXCEPT ![c] = @ \o <<f>>]))
          = Cardinality(waiting(ClientMesssageQueues)) + 1
    BY <1>0, WaitingAppend
  <2>2. /\ commands \o <<x>> \in Seq(Commands)
        /\ Cardinality(wanted(commands \o <<x>>)) = Cardinality(wanted(commands)) + 1
    BY <1>0, <1>5, WantedAppend
  <2>3. Balanced([ClientMesssageQueues EXCEPT ![c] = @ \o frames], commands \o cmds, 1)
    BY <1>5, <2>1, <2>2 DEF Balanced
  <2>4. /\ ClientMesssageQueues[c] \o <<f>> \in Seq(Frames)
        /\ Len(ClientMesssageQueues[c] \o <<f>>) = Len(ClientMesssageQueues[c]) + 1
    BY <1>0
  <2> QED
    BY <1>5, <2>2, <2>3, <2>4
<1> QED
  BY <1>3, <1>4, <1>5 DEF Paired

\* With the receipt there is one more of each; a queue grows by two at most.
LEMMA RespondBacked ==
    ASSUME TypeOK, QueuesInv, received < MaxRequests, NEW c \in Conns,
           NEW frames, NEW cmds, Paired(frames, cmds),
           NEW text \in ReciptTexts, NEW receipt \in BOOLEAN,
           Respond(c, frames, cmds, text, receipt)
    PROVE  /\ \E n \in 0 .. 2 : Balanced(ClientMesssageQueues', commands', n)
           /\ \A d \in Conns : Len(ClientMesssageQueues'[d]) \in Nat
                 /\ Len(ClientMesssageQueues'[d]) <= Len(ClientMesssageQueues[d]) + 2
<1> DEFINE mid == [ClientMesssageQueues EXCEPT ![c] = @ \o frames]
           cmid == commands \o cmds
<1>0. /\ ClientMesssageQueues \in [Conns -> Seq(Frames)]
      /\ \A d \in Conns : Len(ClientMesssageQueues[d]) \in Nat
      /\ Len(ClientMesssageQueues[c]) + 1 < 2 * MaxRequests
      /\ received \in Nat /\ MaxRequests \in Nat
  BY LenProperties, BoundAssumption DEF TypeOK, ResponseTypeOK, QueuesInv
<1>1. PICK n \in 0 .. 1 :
         /\ Balanced(mid, cmid, n)
         /\ ClientMesssageQueues[c] \o frames \in Seq(Frames)
         /\ Len(ClientMesssageQueues[c] \o frames) = Len(ClientMesssageQueues[c]) + n
         /\ cmid \in Seq(Commands)
  BY PairedBalance
<1>2. /\ mid \in [Conns -> Seq(Frames)] /\ Len(mid[c]) = Len(ClientMesssageQueues[c]) + n
      /\ \A d \in Conns \ {c} : mid[d] = ClientMesssageQueues[d]
      /\ mid[c] = ClientMesssageQueues[c] \o frames
  BY <1>0, <1>1
<1>3. CASE receipt
  <2> DEFINE f == ReciptFrame(c, text)
  <2>1. /\ f \in Frames /\ "self" \in Commands /\ wants_frame("self")
        /\ ClientMesssageQueues' = [mid EXCEPT ![c] = @ \o <<f>>]
        /\ commands' = cmid \o <<"self">>
    BY <1>0, <1>3, ReciptFrameType DEF Respond, Commands, ControlWords, wants_frame
  <2> HIDE DEF mid, cmid, f
  <2>2. Len(mid[c]) < 2 * MaxRequests
    BY <1>0, <1>1, <1>2
  <2>3. Cardinality(waiting(ClientMesssageQueues')) = Cardinality(waiting(mid)) + 1
    BY <1>2, <2>1, <2>2, WaitingAppend
  <2>4. Cardinality(wanted(commands')) = Cardinality(wanted(cmid)) + 1
    BY <1>1, <2>1, WantedAppend
  <2>5. Balanced(ClientMesssageQueues', commands', n + 1) /\ n + 1 \in 0 .. 2
    <3>1. /\ Cardinality(waiting(ClientMesssageQueues)) \in Nat
          /\ Cardinality(wanted(commands)) \in Nat
      BY WaitingFinite, WantedFinite DEF TypeOK, ResponseTypeOK
    <3> QED
      BY <1>1, <2>3, <2>4, <3>1 DEF Balanced
  <2>6. /\ ClientMesssageQueues'[c] = mid[c] \o <<f>> /\ Len(mid[c] \o <<f>>) = Len(mid[c]) + 1
        /\ \A d \in Conns \ {c} : ClientMesssageQueues'[d] = mid[d]
    BY <1>2, <2>1
  <2>7. \A d \in Conns : Len(ClientMesssageQueues'[d]) \in Nat
           /\ Len(ClientMesssageQueues'[d]) <= Len(ClientMesssageQueues[d]) + 2
    <3> TAKE d \in Conns
    <3>1. CASE d = c
      BY <1>0, <1>1, <1>2, <2>6, <3>1
    <3>2. CASE d # c
      BY <1>0, <1>2, <2>6, <3>2
    <3> QED
      BY <3>1, <3>2
  <2> QED
    BY <2>5, <2>7
<1>4. CASE ~receipt
  <2>1. ClientMesssageQueues' = mid /\ commands' = cmid
    BY <1>4 DEF Respond
  <2> HIDE DEF mid, cmid
  <2>2. \A d \in Conns : Len(ClientMesssageQueues'[d]) \in Nat
           /\ Len(ClientMesssageQueues'[d]) <= Len(ClientMesssageQueues[d]) + 2
    <3> TAKE d \in Conns
    <3>1. CASE d = c
      BY <1>0, <1>1, <1>2, <2>1, <3>1
    <3>2. CASE d # c
      BY <1>0, <1>2, <2>1, <3>2
    <3> QED
      BY <3>1, <3>2
  <2>3. n \in 0 .. 2 /\ Balanced(ClientMesssageQueues', commands', n)
    BY <1>1, <2>1
  <2> QED
    BY <2>2, <2>3
<1> QED
  BY <1>3, <1>4

Backed == Cardinality(wanted(commands)) + Cardinality(holders)
             <= Cardinality(waiting(ClientMesssageQueues))

LEMMA BackedMeans == CommandsBacked <=> Backed
BY DEF CommandsBacked, Backed, wanted, holders, waiting

BackedInv == QueuesInv /\ Backed

LEMMA BackedInit == Init => BackedInv
<1> SUFFICES ASSUME Init PROVE BackedInv
  OBVIOUS
<1>1. /\ commands = <<>> /\ (\A c \in Conns : ClientMesssageQueues[c] = <<>>)
      /\ (\A c \in Conns : pc[c] = "unborn") /\ received = 0
  BY DEF Init, ResponseInit
<1>2. wanted(commands) = {} /\ holders = {} /\ Len(<<>>) = 0
  BY <1>1 DEF wanted, holders
<1>3. Backed
  BY <1>2, FS_EmptySet, WaitingFinite DEF Backed
<1> QED
  BY <1>1, <1>2, <1>3 DEF BackedInv, QueuesInv

\* A thread that takes or drops no command holds what it held.
LEMMA SameHolders ==
    ASSUME TypeOK, NEW c \in Conns, NEW place, goto(c, place),
           pc[c] # "dispatch" \/ response[c] = "disconnect", place # "dispatch",
           UNCHANGED response
    PROVE  holders' = holders
BY DEF holders, goto, TypeOK, wants_frame

\* A thread that carries out a command that wants a frame holds it no longer.
LEMMA FewerHolders ==
    ASSUME TypeOK, NEW c \in Conns, NEW place, goto(c, place),
           pc[c] = "dispatch", response[c] # "disconnect", place # "dispatch",
           UNCHANGED response
    PROVE  Cardinality(holders') = Cardinality(holders) - 1
<1>1. c \in holders /\ holders' = holders \ {c}
  BY DEF holders, goto, TypeOK, wants_frame
<1> QED
  BY <1>1, HoldersFinite, FS_RemoveElement

\* A request: as many frames as commands that want one.
LEMMA RequestBacked ==
    ASSUME TypeOK, BackedInv, NEW c \in Conns, Serve(c) \/ Dismiss(c) \/ Throw(c)
    PROVE  BackedInv'
<1>0. /\ received < MaxRequests /\ received' = received + 1 /\ received \in Nat
      /\ pc[c] = "reading" /\ UNCHANGED response
      /\ \A d \in Conns : Len(ClientMesssageQueues[d]) \in Nat
      /\ recipt_message \in ReciptTexts /\ TRUE \in BOOLEAN /\ FALSE \in BOOLEAN
  BY LenProperties, BoundAssumption
  DEF Serve, Dismiss, Throw, read_request, TypeOK, ResponseTypeOK
<1>1. holders' = holders
  BY <1>0, SameHolders DEF Serve, Dismiss, Throw, start_draining
<1>2. \/ UNCHANGED <<ClientMesssageQueues, commands>>
      \/ \E frames, cmds : \E text \in ReciptTexts, receipt \in BOOLEAN :
            Paired(frames, cmds) /\ Respond(c, frames, cmds, text, receipt)
  <2>1. ASSUME NEW u \in Users, NEW p \in Passwords, NEW r \in BOOLEAN, Connect(c, u, p, r)
        PROVE  \E frames, cmds : \E text \in ReciptTexts, receipt \in BOOLEAN :
                  Paired(frames, cmds) /\ Respond(c, frames, cmds, text, receipt)
    <3>1. Paired(<<Frame("CONNECTED", c)>>, <<"self">>)
      BY FrameType DEF Paired, FrameKinds, Commands, ControlWords, wants_frame
    <3> QED
      BY <1>0, <2>1, <3>1 DEF Connect
  <2>2. ASSUME NEW t \in Topics, NEW r \in BOOLEAN, Send(c, t, r)
        PROVE  \E frames, cmds : \E text \in ReciptTexts, receipt \in BOOLEAN :
                  Paired(frames, cmds) /\ Respond(c, frames, cmds, text, receipt)
    <3>1. Paired(<<MessageFrame(c, t)>>, <<t>>)
      BY MessageFrameType, TopicAssumption DEF Paired, Commands, ControlWords, wants_frame
    <3> QED
      BY <2>2, <3>1, TextType DEF Send
  <2>3. ASSUME NEW t \in Topics, NEW s \in SubIds, NEW r \in BOOLEAN, Subscribe(c, t, s, r)
        PROVE  \E frames, cmds : \E text \in ReciptTexts, receipt \in BOOLEAN :
                  Paired(frames, cmds) /\ Respond(c, frames, cmds, text, receipt)
    <3>1. Paired(<<>>, <<>>) /\ Text("Joined channel", t) \in ReciptTexts
      BY TextType DEF Paired
    <3> QED
      BY <2>3, <3>1 DEF Subscribe
  <2>4. ASSUME NEW s \in SubIds, NEW r \in BOOLEAN, Unsubscribe(c, s, r)
        PROVE  \E frames, cmds : \E text \in ReciptTexts, receipt \in BOOLEAN :
                  Paired(frames, cmds) /\ Respond(c, frames, cmds, text, receipt)
    <3>1. Paired(<<>>, <<>>) /\ Text("Exited channel", user_topic[s]) \in ReciptTexts
      BY TextType DEF Paired, TypeOK, TopicTypeOK
    <3> QED
      BY <2>4, <3>1 DEF Unsubscribe
  <2>5. CASE Grants(c)
    BY <2>1, <2>2, <2>3, <2>4, <2>5 DEF Grants
  <2>6. CASE LogsOut(c)
    <3>1. Paired(<<>>, <<"disconnect">>)
      BY DEF Paired
    <3> QED
      BY <1>0, <2>6, <3>1 DEF LogsOut, disconnect_client
  <2>7. CASE Refuse(c) \/ RefuseStranger(c)
    <3>1. Paired(<<Frame("ERROR", c)>>, <<"Error">>)
      BY FrameType DEF Paired, FrameKinds, Commands, ControlWords, wants_frame
    <3> QED
      BY <1>0, <2>7, <3>1 DEF Refuse, RefuseStranger
  <2>8. CASE \/ Unparsable \/ DisconnectStranger(c) \/ (\E t \in Topics : UnparsableId(t))
             \/ \E t \in Topics, s \in SubIds : SubscribeStranger(c, t, s)
    BY <2>8 DEF Unparsable, DisconnectStranger, UnparsableId, SubscribeStranger,
                managerVars, responseVars
  <2> QED
    BY <2>5, <2>6, <2>7, <2>8, RequestCases DEF Dismiss, Throw
<1>3. CASE UNCHANGED <<ClientMesssageQueues, commands>>
  BY <1>0, <1>1, <1>3 DEF BackedInv, QueuesInv, Backed
<1>4. ASSUME NEW frames, NEW cmds, NEW text \in ReciptTexts, NEW receipt \in BOOLEAN,
             Paired(frames, cmds), Respond(c, frames, cmds, text, receipt)
      PROVE  BackedInv'
  <2>1. /\ \E n \in 0 .. 2 : Balanced(ClientMesssageQueues', commands', n)
        /\ \A d \in Conns : Len(ClientMesssageQueues'[d]) \in Nat
              /\ Len(ClientMesssageQueues'[d]) <= Len(ClientMesssageQueues[d]) + 2
    BY <1>0, <1>4, RespondBacked DEF BackedInv
  <2>2. QueuesInv'
    BY <1>0, <2>1 DEF BackedInv, QueuesInv
  <2>3. /\ Cardinality(wanted(commands)) \in Nat /\ Cardinality(holders) \in Nat
        /\ Cardinality(waiting(ClientMesssageQueues)) \in Nat
    BY WantedFinite, HoldersFinite, WaitingFinite DEF TypeOK, ResponseTypeOK
  <2>4. PICK n \in 0 .. 2 : Balanced(ClientMesssageQueues', commands', n)
    BY <2>1
  <2>5. /\ Cardinality(waiting(ClientMesssageQueues'))
             = Cardinality(waiting(ClientMesssageQueues)) + n
        /\ Cardinality(wanted(commands')) = Cardinality(wanted(commands)) + n
        /\ Cardinality(holders') = Cardinality(holders)
    BY <1>1, <2>4 DEF Balanced
  <2>6. Backed'
    BY <2>3, <2>5 DEF BackedInv, Backed
  <2> QED
    BY <2>2, <2>6 DEF BackedInv
<1> QED
  BY <1>2, <1>3, <1>4

\* A command taken from the list is held until it is carried out.
LEMMA TakeBacked ==
    ASSUME TypeOK, BackedInv, NEW c \in Conns, TakeCommand(c)
    PROVE  BackedInv'
<1>0. /\ commands \in Seq(Commands) /\ commands # <<>> /\ commands' = Tail(commands)
      /\ pc' = [pc EXCEPT ![c] = "dispatch"] /\ pc[c] = "take" /\ pc \in [Conns -> Places]
      /\ response' = [response EXCEPT ![c] = Head(commands)]
      /\ response \in [Conns -> Responses]
      /\ UNCHANGED <<ClientMesssageQueues, received>>
  BY DEF TakeCommand, take_command, no_command, goto, TypeOK, ResponseTypeOK, serverVars
<1>1. Cardinality(wanted(commands'))
        = Cardinality(wanted(commands)) - (IF wants_frame(Head(commands)) THEN 1 ELSE 0)
  BY <1>0, WantedTail
<1>2. Cardinality(holders')
        = Cardinality(holders) + (IF wants_frame(Head(commands)) THEN 1 ELSE 0)
  <2>1. CASE wants_frame(Head(commands))
    <3>1. holders' = holders \cup {c} /\ c \notin holders
      BY <1>0, <2>1 DEF holders
    <3> QED
      BY <2>1, <3>1, HoldersFinite, FS_AddElement
  <2>2. CASE ~wants_frame(Head(commands))
    <3>1. holders' = holders
      BY <1>0, <2>2 DEF holders
    <3> QED
      BY <2>2, <3>1, HoldersFinite
  <2> QED
    BY <2>1, <2>2
<1>3. Cardinality(wanted(commands)) \in Nat /\ Cardinality(holders) \in Nat
  BY <1>0, WantedFinite, HoldersFinite
<1>4. Backed'
  BY <1>0, <1>1, <1>2, <1>3 DEF BackedInv, Backed
<1> QED
  BY <1>0, <1>4 DEF BackedInv, QueuesInv

\* Whoever carries out such a command fetches at most one frame.
LEMMA FetchBacked ==
    ASSUME TypeOK, BackedInv, NEW c \in Conns,
           ReplySelf(c) \/ StartFanOut(c) \/ MissQueue(c)
    PROVE  BackedInv'
<1>0. /\ pc[c] = "dispatch" /\ response[c] # "disconnect"
      /\ UNCHANGED <<commands, response, received>>
      /\ get_queued_message(c) \/ UNCHANGED ClientMesssageQueues
      /\ goto(c, "poll") \/ goto(c, "fanout") \/ goto(c, "leaving")
  BY TopicAssumption
  DEF ReplySelf, StartFanOut, MissQueue, serverVars, managerVars, responseVars, ControlWords
<1>1. Cardinality(holders') = Cardinality(holders) - 1
  BY <1>0, FewerHolders
<1>2. Cardinality(waiting(ClientMesssageQueues'))
        >= Cardinality(waiting(ClientMesssageQueues)) - 1
  <2>1. CASE get_queued_message(c)
    BY <2>1, WaitingFetch DEF BackedInv
  <2>2. CASE UNCHANGED ClientMesssageQueues
    BY <2>2, WaitingFinite
  <2> QED
    BY <1>0, <2>1, <2>2
<1>3. /\ Cardinality(wanted(commands)) \in Nat /\ Cardinality(holders) \in Nat
      /\ Cardinality(waiting(ClientMesssageQueues)) \in Nat
      /\ Cardinality(waiting(ClientMesssageQueues')) \in Nat
  BY WantedFinite, HoldersFinite, WaitingFinite DEF TypeOK, ResponseTypeOK
<1>4. Backed'
  BY <1>0, <1>1, <1>2, <1>3 DEF BackedInv, Backed
<1>5. QueuesInv'
  <2>1. \A d \in Conns : ClientMesssageQueues[d] \in Seq(Frames)
                         /\ Len(ClientMesssageQueues[d]) \in Nat
    BY LenProperties DEF TypeOK, ResponseTypeOK
  <2>2. \A d \in Conns : /\ Len(ClientMesssageQueues'[d]) \in Nat
                         /\ Len(ClientMesssageQueues'[d]) <= Len(ClientMesssageQueues[d])
    <3>1. CASE get_queued_message(c)
      <4>1. ClientMesssageQueues[c] # <<>> =>
               Len(Tail(ClientMesssageQueues[c])) = Len(ClientMesssageQueues[c]) - 1
               /\ Len(Tail(ClientMesssageQueues[c])) \in Nat
        BY <2>1, HeadTailProperties, LenProperties
      <4>2. ClientMesssageQueues \in [Conns -> Seq(Frames)]
        BY DEF TypeOK, ResponseTypeOK
      <4> QED
        BY <2>1, <3>1, <4>1, <4>2 DEF get_queued_message
    <3>2. CASE UNCHANGED ClientMesssageQueues
      BY <2>1, <3>2
    <3> QED
      BY <1>0, <3>1, <3>2
  <2>3. received \in Nat /\ received' = received
    BY <1>0, BoundAssumption DEF TypeOK
  <2> QED
    BY <2>1, <2>2, <2>3 DEF BackedInv, QueuesInv
<1> QED
  BY <1>4, <1>5 DEF BackedInv

\* The other steps move no frame and no command.
LEMMA AsideBacked ==
    ASSUME TypeOK, BackedInv, holders' = holders,
           UNCHANGED <<commands, ClientMesssageQueues, received>>
    PROVE  BackedInv'
BY DEF BackedInv, QueuesInv, Backed

LEMMA BackedStep ==
    ASSUME TypeOK, UnbornInv, BackedInv, [Next]_vars
    PROVE  BackedInv'
<1>1. CASE Accept
  <2>1. /\ running_id + 1 \in Conns /\ pc[running_id + 1] # "dispatch"
        /\ goto(running_id + 1, "joining") /\ UNCHANGED response
        /\ UNCHANGED <<commands, ClientMesssageQueues, received>>
    BY <1>1, ConnsAssumption
    DEF Accept, TypeOK, UnbornInv, Conns, managerVars, responseVars
  <2>2. holders' = holders
    BY <2>1, SameHolders
  <2> QED
    BY <2>1, <2>2, AsideBacked
<1>2. ASSUME NEW c \in Conns, Serve(c) \/ Dismiss(c) \/ Throw(c)
      PROVE  BackedInv'
  BY <1>2, RequestBacked
<1>3. ASSUME NEW c \in Conns,
             \/ EndsWrite(c) \/ HangUp(c) \/ ShouldTerminate(c) \/ Drained(c)
             \/ SeeCommand(c) \/ TakeNothing(c) \/ NoteDisconnect(c)
             \/ EndFanOut(c) \/ FailFanOut(c) \/ WakeUp(c) \/ Close(c)
      PROVE  BackedInv'
  <2>1. /\ \E place : goto(c, place) /\ place # "dispatch"
        /\ pc[c] # "dispatch" \/ response[c] = "disconnect"
        /\ UNCHANGED response
        /\ UNCHANGED <<commands, ClientMesssageQueues, received>>
    BY <1>3
    DEF EndsWrite, Execute, Remove, FailWrite, HangUp, ShouldTerminate, Drained,
        SeeCommand, TakeNothing, NoteDisconnect, EndFanOut, FailFanOut, WakeUp, Close, Writing,
        managerVars, responseVars, serverVars
  <2>2. holders' = holders
    BY <2>1, SameHolders
  <2> QED
    BY <2>1, <2>2, AsideBacked
<1>4. ASSUME NEW c \in Conns, SendToNext(c)
      PROVE  BackedInv'
  BY <1>4, AsideBacked DEF SendToNext, managerVars, responseVars, holders
<1>5. ASSUME NEW c \in Conns, TakeCommand(c)
      PROVE  BackedInv'
  BY <1>5, TakeBacked
<1>6. ASSUME NEW c \in Conns, ReplySelf(c) \/ StartFanOut(c) \/ MissQueue(c)
      PROVE  BackedInv'
  BY <1>6, FetchBacked
<1>7. CASE UNCHANGED vars
  BY <1>7, AsideBacked
  DEF vars, managerVars, responseVars, serverVars, threadVars, holders
<1> QED
  BY <1>1, <1>2, <1>3, <1>4, <1>5, <1>6, <1>7 DEF Next, Proceed, EndsWrite

\* Every command that asks for a frame to be written, in the list or taken by a
\* thread that has not carried it out yet, has a frame waiting in some queue:
\* ResponseManager adds the two together, and get_queued_message, called once
\* for each command taken, removes at most one.  So send_to_channel answers
\* with no frame only where another client's queue holds one too many.
THEOREM FramesForCommands == Spec => []CommandsBacked
<1>1. Init => UnbornInv /\ BackedInv
  BY UnbornInit, BackedInit
<1>2. TypeOK /\ UnbornInv /\ [Next]_vars => UnbornInv'
  BY UnbornStep
<1>3. TypeOK /\ UnbornInv /\ BackedInv /\ [Next]_vars => BackedInv'
  BY BackedStep
<1>4. TypeOK /\ UnbornInv /\ BackedInv => CommandsBacked
  BY BackedMeans DEF BackedInv
<1> QED
  BY <1>1, <1>2, <1>3, <1>4, TypeCorrect, PTL DEF Spec
=============================================================================
