---------------------------- MODULE ChannelsProofs ----------------------------
(***************************************************************************)
(* Proofs about ClientChannels, for every number of clients, channels,     *)
(* seconds and commands: as long as no subscription id is drawn twice, a   *)
(* client's receipts answer its own requests, and what they tell it about  *)
(* its channels is true at the server.                                     *)
(***************************************************************************)
EXTENDS ClientChannels, SequenceTheorems, TLAPS

-----------------------------------------------------------------------------
(* The inductive invariant.                                                 *)

RequestKinds == {"CONNECT", "SEND", "SUBSCRIBE", "UNSUBSCRIBE", "DISCONNECT"}
Requests == [kind: RequestKinds, topic: Topics \cup {NoTopic},
             id: SubIds \cup {NoId}]

ClientTypes ==
    /\ uplink \in [Conns -> Seq(Requests)]
    /\ asked \in [Conns -> Seq(ReciptTexts)]
    /\ receipts \in [Conns -> Seq(ReciptTexts)]
    /\ topic_idByClient_map \in [Conns -> [Topics -> SubIds \cup {NoId}]]
    /\ link \in [Conns -> {"new", "up", "thrown", "down"}]
    /\ second \in Seconds
    /\ drawn \subseteq SubIds

\* Every text that is left for a receipt is taken by it.
ServerTypes ==
    /\ TopicTypeOK
    /\ ClientMesssageQueues \in [Conns -> Seq(Frames)]
    /\ serving \in Conns
    /\ recipt_message = EmptyText

\* What is left of the commands and the frames of a request of c.
Rest(c) == commands = <<>> /\ ClientMesssageQueues[c] = <<>>
Welcome(c) ==
    commands = <<"self">> /\ ClientMesssageQueues[c] = <<Frame("CONNECTED", c)>>
Broadcast(c) == \E t \in Topics, text \in ReciptTexts :
    /\ commands = <<t, "self">>
    /\ ClientMesssageQueues[c] = <<MessageFrame(c, t), ReciptFrame(c, text)>>
Receipt(c) == \E text \in ReciptTexts :
    commands = <<"self">> /\ ClientMesssageQueues[c] = <<ReciptFrame(c, text)>>
Farewell(c) == \E text \in ReciptTexts :
    /\ commands = <<"disconnect", "self">>
    /\ ClientMesssageQueues[c] = <<ReciptFrame(c, text)>>
Refusal(c) ==
    commands = <<"Error">> /\ ClientMesssageQueues[c] = <<Frame("ERROR", c)>>

\* One request is carried out at a time.
OneServed ==
    /\ \/ Rest(serving) \/ Welcome(serving) \/ Broadcast(serving)
       \/ Receipt(serving) \/ Farewell(serving) \/ Refusal(serving)
    /\ \A c \in Conns \ {serving} : ClientMesssageQueues[c] = <<>>

\* The requests of a client for which the server has told it something, or
\* will not any more: -1 until it has handled the CONNECT.
handled(c) == Len(asked[c]) - Len(uplink[c])

\* The receipt that a request asks for.
Fits(r, text) ==
    \/ r.kind = "SEND" /\ r.topic \in Topics /\ text = Text("report works!", NoTopic)
    \/ /\ r.kind = "SUBSCRIBE" /\ r.topic \in Topics /\ r.id \in SubIds
       /\ text = Text("Joined channel", r.topic)
    \/ r.kind = "UNSUBSCRIBE" /\ \E t \in Topics : text = Text("Exited channel", t)
    \/ r.kind = "DISCONNECT" /\ text = EmptyText

\* The receipts a client still expects are those for what is in its uplink.
Aligned ==
    \A c \in Conns :
      /\ handled(c) >= -1
      /\ \A i \in 1 .. Len(uplink[c]) :
            \/ handled(c) + i = 0 /\ uplink[c][i].kind = "CONNECT"
            \/ handled(c) + i > 0 /\ Fits(uplink[c][i], asked[c][handled(c) + i])
      /\ link[c] = "new" => uplink[c] = <<>> /\ asked[c] = <<>>

receipt_due(c) == /\ ClientMesssageQueues[c] # <<>>
                  /\ Last(ClientMesssageQueues[c]).kind = "RECIPT"
refused(c) == /\ ClientMesssageQueues[c] # <<>>
              /\ Last(ClientMesssageQueues[c]).kind = "ERROR"

\* A client has a receipt for each request that was handled, but for one that
\* is on its way or that ended the connection.
Told ==
    \A c \in Conns :
      /\ Len(receipts[c]) <= Len(asked[c])
      /\ \A i \in 1 .. Len(receipts[c]) : receipts[c][i] = asked[c][i]
      /\ receipt_due(c) => /\ Len(receipts[c]) + 1 = handled(c)
                           /\ asked[c][handled(c)] = Last(ClientMesssageQueues[c]).text
      /\ refused(c) => Len(receipts[c]) + 1 = handled(c)
      /\ link[c] = "up" /\ ~receipt_due(c) /\ ~refused(c) =>
            \/ Len(receipts[c]) = handled(c)
            \/ handled(c) = -1 /\ receipts[c] = <<>>
      /\ link[c] = "new" => receipts[c] = <<>> /\ ClientMesssageQueues[c] = <<>>

-----------------------------------------------------------------------------
(* The ids.                                                                 *)

subscribing(c, i) == uplink[c][i].kind = "SUBSCRIBE"
exiting(c, i) == uplink[c][i].kind = "UNSUBSCRIBE" /\ uplink[c][i].id # NoId

\* The server knows nothing of an id.
Unused(s) == /\ user_topic[s] = NoTopic
             /\ \A t \in Topics : user_client_id[t][s] = NoConn

NewIdsUnused == \A s \in SubIds \ drawn : Unused(s)

\* An id goes up once to join and once to exit, and is unused till it has.
JoinsOnce ==
    \A c \in Conns : \A i \in 1 .. Len(uplink[c]) : subscribing(c, i) =>
      /\ uplink[c][i].id \in drawn /\ Unused(uplink[c][i].id)
      /\ \A d \in Conns : \A j \in 1 .. Len(uplink[d]) :
            subscribing(d, j) /\ uplink[d][j].id = uplink[c][i].id => d = c /\ j = i
ExitsOnce ==
    \A c \in Conns : \A i \in 1 .. Len(uplink[c]) : exiting(c, i) =>
      /\ uplink[c][i].id \in drawn
      /\ \A d \in Conns : \A j \in 1 .. Len(uplink[d]) :
            exiting(d, j) /\ uplink[d][j].id = uplink[c][i].id => d = c /\ j = i

\* An id stands for one channel of one client, until that client exits.
MapsApart ==
    \A c \in Conns, t \in Topics : topic_idByClient_map[c][t] # NoId =>
      /\ topic_idByClient_map[c][t] \in drawn
      /\ \A d \in Conns, u \in Topics :
            topic_idByClient_map[d][u] = topic_idByClient_map[c][t] => d = c /\ u = t
      /\ \A d \in Conns : \A i \in 1 .. Len(uplink[d]) :
            exiting(d, i) => uplink[d][i].id # topic_idByClient_map[c][t]

IdsApart == NewIdsUnused /\ JoinsOnce /\ ExitsOnce /\ MapsApart

\* The client is not dropped, or about to be.
staying(c) ==
    /\ link[c] \in {"new", "up"}
    /\ serving = c => commands = <<>> \/ Head(commands) \notin {"disconnect", "Error"}

\* Among its first n requests c joins t as s.
on_its_way(c, t, s, n) ==
    \E i \in 1 .. n : uplink[c][i] = Request("SUBSCRIBE", t, s)

\* When an exit comes up its id will stand for the channel it is for.
ExitFits(c, i) ==
    \E t \in Topics :
      /\ asked[c][handled(c) + i] = Text("Exited channel", t)
      /\ \/ user_topic[uplink[c][i].id] = t
         \/ on_its_way(c, t, uplink[c][i].id, i - 1)
ExitsFit ==
    \A c \in Conns : staying(c) =>
      \A i \in 1 .. Len(uplink[c]) : exiting(c, i) => ExitFits(c, i)

\* A client's map agrees with the server, or will.
EntryFits(c, t) ==
    \/ /\ user_topic[topic_idByClient_map[c][t]] = t
       /\ user_client_id[t][topic_idByClient_map[c][t]] = c
    \/ on_its_way(c, t, topic_idByClient_map[c][t], Len(uplink[c]))
MapsFit ==
    \A c \in Conns : staying(c) =>
      \A t \in Topics : topic_idByClient_map[c][t] # NoId => EntryFits(c, t)

\* A channel the client joins, and does not exit later, is in its map.
Mapped ==
    \A c \in Conns, t \in Topics :
      (\E i \in 1 .. Len(asked[c]) :
          /\ asked[c][i] = Text("Joined channel", t)
          /\ \A j \in i + 1 .. Len(asked[c]) : asked[c][j] # Text("Exited channel", t))
      => topic_idByClient_map[c][t] # NoId

Typed == ClientTypes /\ ServerTypes
Served == OneServed /\ Aligned /\ Mapped
Apart == Told /\ IdsApart /\ ExitsFit /\ MapsFit
ChannelsInv == Typed /\ Served /\ (apart => Apart)

-----------------------------------------------------------------------------
(* Small facts.                                                             *)

LEMMA IdFacts ==
    /\ SubIds \subseteq Int /\ NoId \notin SubIds /\ NoConn \notin SubIds
    /\ \A s \in SubIds : s \notin Conns
    /\ \A n \in Seconds : rand_of(n) \in SubIds
    /\ NoConn \notin Conns /\ 1 \in Seconds /\ 1 \in Conns
<1>1. \A n \in Seconds : rand_of(n) \in Int /\ rand_of(n) > 0
  BY ChannelAssumption DEF Seconds, rand_of
<1>2. 1 \in Seconds /\ 1 \in Conns /\ NoConn \notin Conns
  BY ChannelAssumption, ConnsAssumption DEF Seconds, Conns, NoConn
<1> QED
  BY <1>1, <1>2, ChannelAssumption DEF NoId, NoConn

LEMMA TextTypes ==
    /\ EmptyText \in ReciptTexts
    /\ Text("report works!", NoTopic) \in ReciptTexts
    /\ \A t \in Topics \cup {NoTopic} : /\ Text("Joined channel", t) \in ReciptTexts
                                        /\ Text("Exited channel", t) \in ReciptTexts
BY DEF EmptyText, Text, ReciptTexts

LEMMA FrameTypes ==
    ASSUME NEW c \in Conns
    PROVE  /\ Frame("CONNECTED", c) \in Frames /\ Frame("ERROR", c) \in Frames
           /\ \A t \in Topics : MessageFrame(c, t) \in Frames
           /\ \A text \in ReciptTexts : ReciptFrame(c, text) \in Frames
BY TextTypes DEF Frame, MessageFrame, ReciptFrame, MakeFrame, Frames, FrameKinds

LEMMA FrameFields ==
    ASSUME NEW c \in Conns
    PROVE  /\ Frame("CONNECTED", c).kind = "CONNECTED"
           /\ Frame("ERROR", c).kind = "ERROR"
           /\ \A t : MessageFrame(c, t).kind = "MESSAGE"
           /\ \A text : /\ ReciptFrame(c, text).kind = "RECIPT"
                        /\ ReciptFrame(c, text).text = text
BY DEF Frame, MessageFrame, ReciptFrame, MakeFrame

LEMMA ShortSequences ==
    ASSUME NEW f, NEW g
    PROVE  /\ <<f>> # <<>> /\ Head(<<f>>) = f /\ Tail(<<f>>) = <<>> /\ Last(<<f>>) = f
           /\ <<f, g>> # <<>> /\ Head(<<f, g>>) = f /\ Tail(<<f, g>>) = <<g>>
           /\ Last(<<f, g>>) = g /\ <<>> \o <<f>> = <<f>> /\ <<f>> \o <<g>> = <<f, g>>
           /\ <<>> \o <<>> = <<>>
<1>1. /\ <<f>> \in Seq({f, g}) /\ <<g>> \in Seq({f, g}) /\ <<f, g>> \in Seq({f, g})
      /\ <<>> \in Seq({f, g})
  OBVIOUS
<1>2. /\ <<f>> # <<>> /\ Head(<<f>>) = f /\ Last(<<f>>) = f
      /\ <<f, g>> # <<>> /\ Head(<<f, g>>) = f /\ Last(<<f, g>>) = g
  BY DEF Last
<1>3. Tail(<<f>>) = <<>> /\ Tail(<<f, g>>) = <<g>>
  OBVIOUS
<1>4. <<>> \o <<f>> = <<f>> /\ <<>> \o <<>> = <<>>
  BY <1>1, ConcatEmptySeq
<1>5. <<f>> \o <<g>> = <<f, g>>
  <2>1. /\ <<f>> \o <<g>> \in Seq({f, g}) /\ Len(<<f>> \o <<g>>) = 1 + 1
        /\ \A i \in 1 .. 1 + 1 : (<<f>> \o <<g>>)[i]
                                  = IF i <= 1 THEN <<f>>[i] ELSE <<g>>[i - 1]
    <3>1. Len(<<f>>) = 1 /\ Len(<<g>>) = 1
      OBVIOUS
    <3> QED
      BY <1>1, <3>1, ConcatProperties
  <2>2. (<<f>> \o <<g>>)[1] = f /\ (<<f>> \o <<g>>)[2] = g
    BY <2>1
  <2>3. Len(<<f, g>>) = 2 /\ <<f, g>>[1] = f /\ <<f, g>>[2] = g
    OBVIOUS
  <2>4. Len(<<f>> \o <<g>>) = 2 /\ \A i \in 1 .. 2 : (<<f>> \o <<g>>)[i] = <<f, g>>[i]
    BY <2>1, <2>2, <2>3
  <2> QED
    BY <1>1, <2>1, <2>3, <2>4, SeqEqual
<1> QED
  BY <1>2, <1>3, <1>4, <1>5

LEMMA PrefixMeans ==
    ASSUME NEW S, NEW s \in Seq(S), NEW t \in Seq(S),
           Len(s) <= Len(t), \A i \in 1 .. Len(s) : s[i] = t[i]
    PROVE  IsPrefix(s, t)
<1>1. Len(s) \in Nat /\ Len(t) \in Nat
  BY LenProperties
<1>2. SubSeq(t, 1, Len(s)) = s
  BY <1>1, SubSeqProperties, SeqEqual
<1> QED
  BY <1>1, <1>2 DEF IsPrefix

-----------------------------------------------------------------------------
(* What the steps do.                                                       *)

\* Nothing is under way when a request is taken.
LEMMA NothingUnderWay ==
    ASSUME OneServed, no_command
    PROVE  \A c \in Conns : ClientMesssageQueues[c] = <<>>
<1>1. commands = <<>>
  BY DEF no_command
<1>2. Rest(serving)
  <2>1. \A x, y : commands # <<x>> /\ commands # <<x, y>>
    BY <1>1
  <2> QED
    BY <2>1 DEF OneServed, Welcome, Broadcast, Receipt, Farewell, Refusal
<1> QED
  BY <1>2 DEF OneServed, Rest

Answered(c, cmds, frames) ==
    /\ commands' = cmds
    /\ ClientMesssageQueues' = [ClientMesssageQueues EXCEPT ![c] = frames]
    /\ recipt_message' = EmptyText

\* generateResponse, with nothing under way and no text left behind.
LEMMA RespondAnswers ==
    ASSUME commands = <<>>, NEW c \in Conns, ClientMesssageQueues[c] = <<>>,
           ClientMesssageQueues \in [Conns -> Seq(Frames)],
           NEW text, NEW x, NEW f
    PROVE  /\ Respond(c, <<f>>, <<x>>, EmptyText, FALSE) => Answered(c, <<x>>, <<f>>)
           /\ Respond(c, <<f>>, <<x>>, text, TRUE)
                => Answered(c, <<x, "self">>, <<f, ReciptFrame(c, text)>>)
           /\ Respond(c, <<>>, <<x>>, text, TRUE)
                => Answered(c, <<x, "self">>, <<ReciptFrame(c, text)>>)
           /\ Respond(c, <<>>, <<>>, text, TRUE)
                => Answered(c, <<"self">>, <<ReciptFrame(c, text)>>)
<1> DEFINE r == ReciptFrame(c, text)
<1>1. /\ <<>> \o <<x>> = <<x>> /\ <<>> \o <<f>> = <<f>> /\ <<>> \o <<>> = <<>>
      /\ <<x>> \o <<"self">> = <<x, "self">> /\ <<f>> \o <<r>> = <<f, r>>
      /\ <<>> \o <<r>> = <<r>> /\ <<>> \o <<"self">> = <<"self">>
  BY ShortSequences
<1> HIDE DEF r
<1>2. \A q : [ClientMesssageQueues EXCEPT ![c] = @ \o q]
             = [ClientMesssageQueues EXCEPT ![c] = <<>> \o q]
  OBVIOUS
<1>3. Respond(c, <<f>>, <<x>>, EmptyText, FALSE) => Answered(c, <<x>>, <<f>>)
  BY <1>1, <1>2 DEF Respond, Answered
<1>4. Respond(c, <<f>>, <<x>>, text, TRUE) => Answered(c, <<x, "self">>, <<f, r>>)
  BY <1>1 DEF Respond, Answered, r
<1>5. Respond(c, <<>>, <<x>>, text, TRUE) => Answered(c, <<x, "self">>, <<r>>)
  BY <1>1 DEF Respond, Answered, r
<1>6. Respond(c, <<>>, <<>>, text, TRUE) => Answered(c, <<"self">>, <<r>>)
  BY <1>1 DEF Respond, Answered, r
<1> QED
  BY <1>3, <1>4, <1>5, <1>6 DEF r

\* What take_request does.
LEMMA TakeMeans ==
    ASSUME Typed, OneServed, NEW c \in Conns, NEW kind, take_request(c, kind)
    PROVE  /\ commands = <<>> /\ link[c] = "up" /\ serving' = c
           /\ \A d \in Conns : ClientMesssageQueues[d] = <<>>
           /\ uplink[c] \in Seq(Requests) /\ Len(uplink[c]) \in Nat \ {0}
           /\ request(c) = uplink[c][1] /\ request(c) \in Requests
           /\ request(c).kind = kind
           /\ uplink' \in [Conns -> Seq(Requests)]
           /\ Len(uplink'[c]) = Len(uplink[c]) - 1
           /\ \A i \in 1 .. Len(uplink'[c]) : uplink'[c][i] = uplink[c][i + 1]
           /\ \A d \in Conns \ {c} : uplink'[d] = uplink[d]
           /\ UNCHANGED <<topic_idByClient_map, second, typed, asked, receipts,
                          drawn, apart>>
<1>1. /\ commands = <<>> /\ link[c] = "up" /\ serving' = c /\ uplink[c] # <<>>
      /\ request(c).kind = kind /\ uplink' = [uplink EXCEPT ![c] = Tail(uplink[c])]
      /\ UNCHANGED <<topic_idByClient_map, second, typed, asked, receipts, drawn, apart>>
      /\ uplink \in [Conns -> Seq(Requests)]
  BY DEF take_request, no_command, Typed, ClientTypes
<1>2. \A d \in Conns : ClientMesssageQueues[d] = <<>>
  BY NothingUnderWay DEF take_request
<1>3. /\ uplink[c] \in Seq(Requests) /\ Len(uplink[c]) \in Nat \ {0}
      /\ Head(uplink[c]) \in Requests /\ Tail(uplink[c]) \in Seq(Requests)
      /\ Len(Tail(uplink[c])) = Len(uplink[c]) - 1
      /\ \A i \in 1 .. Len(Tail(uplink[c])) : Tail(uplink[c])[i] = uplink[c][i + 1]
      /\ Head(uplink[c]) = uplink[c][1]
  BY <1>1, HeadTailProperties, LenProperties, EmptySeq
<1> QED
  BY <1>1, <1>2, <1>3 DEF request

\* A request that is not the login has a place in asked.
LEMMA TakenFits ==
    ASSUME Typed, OneServed, Aligned, NEW c \in Conns, NEW kind, take_request(c, kind)
    PROVE  \/ kind = "CONNECT" /\ handled(c) = -1
           \/ handled(c) >= 0 /\ Fits(request(c), asked[c][handled(c) + 1])
<1>1. Len(uplink[c]) \in Nat \ {0} /\ request(c) = uplink[c][1] /\ request(c).kind = kind
  BY TakeMeans
<1>2. Len(asked[c]) \in Nat
  BY LenProperties DEF Typed, ClientTypes
<1>3. handled(c) \in Int
  BY <1>1, <1>2 DEF handled
<1>4. 1 \in 1 .. Len(uplink[c])
  BY <1>1
<1>5. \/ handled(c) + 1 = 0 /\ uplink[c][1].kind = "CONNECT"
      \/ handled(c) + 1 > 0 /\ Fits(uplink[c][1], asked[c][handled(c) + 1])
  BY <1>4 DEF Aligned
<1> QED
  BY <1>1, <1>3, <1>5

\* The five requests that are carried out.
LEMMA AcceptMeans ==
    ASSUME Typed, OneServed, Aligned, NEW c \in Conns, Accept(c)
    PROVE  /\ UNCHANGED <<link>>
           /\ \/ /\ take_request(c, "CONNECT") /\ UNCHANGED topicVars
                 /\ Answered(c, <<"self">>, <<Frame("CONNECTED", c)>>)
              \/ /\ take_request(c, "SEND") /\ UNCHANGED topicVars
                 /\ request(c).topic \in Topics
                 /\ Answered(c, <<request(c).topic, "self">>,
                             <<MessageFrame(c, request(c).topic),
                               ReciptFrame(c, Text("report works!", NoTopic))>>)
              \/ /\ take_request(c, "SUBSCRIBE")
                 /\ request(c).topic \in Topics /\ request(c).id \in SubIds
                 /\ subscribe(request(c).topic, request(c).id, c)
                 /\ Answered(c, <<"self">>,
                      <<ReciptFrame(c, Text("Joined channel", request(c).topic))>>)
              \/ /\ take_request(c, "UNSUBSCRIBE")
                 /\ request(c).id \in SubIds /\ user_topic[request(c).id] \in Topics
                 /\ unsubscribe(request(c).id)
                 /\ Answered(c, <<"self">>,
                      <<ReciptFrame(c, Text("Exited channel", user_topic[request(c).id]))>>)
              \/ /\ take_request(c, "DISCONNECT")
                 /\ unsubscribe_user(c)
                 /\ Answered(c, <<"disconnect", "self">>, <<ReciptFrame(c, EmptyText)>>)
<1>0. recipt_message = EmptyText /\ ClientMesssageQueues \in [Conns -> Seq(Frames)]
  BY DEF Typed, ServerTypes
<1>1. ASSUME NEW kind, take_request(c, kind)
      PROVE  /\ commands = <<>> /\ ClientMesssageQueues[c] = <<>>
             /\ \/ kind = "CONNECT"
                \/ Fits(request(c), asked[c][handled(c) + 1])
             /\ request(c).kind = kind
  BY <1>1, TakeMeans, TakenFits
<1>2. CASE take_request(c, "CONNECT") /\ \E p \in Passwords : Connect(c, Account[c], p, FALSE)
  BY <1>0, <1>1, <1>2, RespondAnswers DEF Accept, Connect
<1>3. CASE take_request(c, "SEND") /\ Send(c, request(c).topic, TRUE)
  <2>0. /\ request(c).kind = "SEND"
        /\ Fits(request(c), asked[c][handled(c) + 1])
    BY <1>1, <1>3
  <2>1. request(c).topic \in Topics
    BY <2>0 DEF Fits
  <2> QED
    BY <1>0, <1>1, <1>3, <2>1, RespondAnswers DEF Accept, Send
<1>4. CASE take_request(c, "SUBSCRIBE") /\ Subscribe(c, request(c).topic, request(c).id, TRUE)
  <2>0. /\ request(c).kind = "SUBSCRIBE"
        /\ Fits(request(c), asked[c][handled(c) + 1])
    BY <1>1, <1>4
  <2>1. request(c).topic \in Topics /\ request(c).id \in SubIds
    BY <2>0 DEF Fits
  <2> QED
    BY <1>0, <1>1, <1>4, <2>1, RespondAnswers DEF Accept, Subscribe
<1>5. CASE take_request(c, "UNSUBSCRIBE") /\ Unsubscribe(c, request(c).id, TRUE)
  <2>1. request(c).id \in SubIds /\ user_topic[request(c).id] \in Topics
    BY <1>5 DEF Unsubscribe, check_unsubscribe_conditions, is_subscribed,
                Typed, ServerTypes, TopicTypeOK
  <2> QED
    BY <1>0, <1>1, <1>5, <2>1, RespondAnswers DEF Accept, Unsubscribe
<1>6. CASE take_request(c, "DISCONNECT") /\ Disconnect(c)
  BY <1>0, <1>1, <1>6, RespondAnswers DEF Accept, Disconnect, disconnect_client
<1> QED
  BY <1>2, <1>3, <1>4, <1>5, <1>6 DEF Accept

\* A request that is turned down, and one that cuts the client off.
LEMMA TurnDownMeans ==
    ASSUME Typed, OneServed, NEW c \in Conns, TurnDown(c)
    PROVE  /\ \E kind \in {"SEND", "UNSUBSCRIBE"} : take_request(c, kind)
           /\ UNCHANGED <<link>>
           /\ UNCHANGED topicVars \/ unsubscribe_user(c)
           /\ Answered(c, <<"Error">>, <<Frame("ERROR", c)>>)
<1>1. \E kind \in {"SEND", "UNSUBSCRIBE"} : take_request(c, kind)
  BY DEF TurnDown
<1>2. commands = <<>> /\ ClientMesssageQueues[c] = <<>>
  BY <1>1, TakeMeans
<1>3. Refuse(c) /\ UNCHANGED link
  BY DEF TurnDown
<1>4. recipt_message = EmptyText /\ ClientMesssageQueues \in [Conns -> Seq(Frames)]
  BY DEF Typed, ServerTypes
<1>5. Respond(c, <<Frame("ERROR", c)>>, <<"Error">>, EmptyText, FALSE)
  BY <1>3, <1>4 DEF Refuse
<1>6. Answered(c, <<"Error">>, <<Frame("ERROR", c)>>)
  BY <1>2, <1>4, <1>5, RespondAnswers
<1>7. UNCHANGED topicVars \/ unsubscribe_user(c)
  BY <1>3 DEF Refuse
<1> QED
  BY <1>1, <1>3, <1>6, <1>7

LEMMA CutOffMeans ==
    ASSUME NEW c \in Conns, CutOff(c)
    PROVE  /\ take_request(c, "SUBSCRIBE")
           /\ UNCHANGED <<topicVars, ClientMesssageQueues, commands, recipt_message>>
           /\ link' = [link EXCEPT ![c] = "thrown"]
BY DEF CutOff, Unparsable, managerVars, responseVars

\* A request that a client sends.
Sends(c, r) ==
    /\ uplink' \in [Conns -> Seq(Requests)]
    /\ Len(uplink'[c]) = Len(uplink[c]) + 1
    /\ \A i \in 1 .. Len(uplink[c]) : uplink'[c][i] = uplink[c][i]
    /\ uplink'[c][Len(uplink[c]) + 1] = r
    /\ \A d \in Conns \ {c} : uplink'[d] = uplink[d]
    /\ UNCHANGED <<managerVars, serving, second, receipts>>

\* And the receipt that it should bring.
Asks(c, text) ==
    /\ asked' \in [Conns -> Seq(ReciptTexts)]
    /\ Len(asked'[c]) = Len(asked[c]) + 1
    /\ \A i \in 1 .. Len(asked[c]) : asked'[c][i] = asked[c][i]
    /\ asked'[c][Len(asked[c]) + 1] = text
    /\ \A d \in Conns \ {c} : asked'[d] = asked[d]

LEMMA SendMeans ==
    ASSUME Typed, NEW c \in Conns, NEW r \in Requests, send(c, r),
           UNCHANGED <<managerVars, serving, second, receipts>>
    PROVE  Sends(c, r)
<1>1. uplink \in [Conns -> Seq(Requests)] /\ uplink[c] \in Seq(Requests)
  BY DEF Typed, ClientTypes
<1>2. uplink' = [uplink EXCEPT ![c] = Append(uplink[c], r)]
  BY DEF send
<1>3. /\ Append(uplink[c], r) \in Seq(Requests)
      /\ Len(Append(uplink[c], r)) = Len(uplink[c]) + 1
      /\ \A i \in 1 .. Len(uplink[c]) : Append(uplink[c], r)[i] = uplink[c][i]
      /\ Append(uplink[c], r)[Len(uplink[c]) + 1] = r
  BY <1>1, AppendProperties
<1> QED
  BY <1>1, <1>2, <1>3 DEF Sends

LEMMA AskMeans ==
    ASSUME Typed, NEW c \in Conns, NEW r \in Requests, NEW text \in ReciptTexts,
           ask(c, r, text), type_command(c)
    PROVE  Sends(c, r) /\ Asks(c, text) /\ link[c] = "up" /\ UNCHANGED link
<1>1. /\ asked \in [Conns -> Seq(ReciptTexts)] /\ asked[c] \in Seq(ReciptTexts)
      /\ asked' = [asked EXCEPT ![c] = Append(asked[c], text)]
  BY DEF Typed, ClientTypes, ask
<1>2. /\ Append(asked[c], text) \in Seq(ReciptTexts)
      /\ Len(Append(asked[c], text)) = Len(asked[c]) + 1
      /\ \A i \in 1 .. Len(asked[c]) : Append(asked[c], text)[i] = asked[c][i]
      /\ Append(asked[c], text)[Len(asked[c]) + 1] = text
  BY <1>1, AppendProperties
<1>3. Asks(c, text)
  BY <1>1, <1>2 DEF Asks
<1>4. Sends(c, r)
  BY SendMeans DEF ask, type_command
<1> QED
  BY <1>3, <1>4 DEF type_command

\* The commands after login: what they ask for, and that it fits.
Asking(c, r, text) ==
    /\ Sends(c, r) /\ Asks(c, text) /\ Fits(r, text)
    /\ link[c] = "up" /\ UNCHANGED link
    /\ \/ \E t \in Topics :
             /\ Join(c, t) /\ text = Text("Joined channel", t)
             /\ r = Request("SUBSCRIBE", t, rand_of(second))
       \/ \E t \in Topics :
             /\ Exit(c, t) /\ text = Text("Exited channel", t)
             /\ r = Request("UNSUBSCRIBE", NoTopic, topic_idByClient_map[c][t])
       \/ /\ r.kind \in {"SEND", "DISCONNECT"} /\ text.verb # "Joined channel"
          /\ text.verb # "Exited channel"
          /\ UNCHANGED <<topic_idByClient_map, drawn, apart>>

LEMMA CommandMeans ==
    ASSUME Typed, NEW c \in Conns, NEW t \in Topics,
           Join(c, t) \/ Exit(c, t) \/ Report(c, t)
    PROVE  \E r \in Requests, text \in ReciptTexts : Asking(c, r, text)
<1>1. /\ Request("SUBSCRIBE", t, rand_of(second)) \in Requests /\ rand_of(second) \in SubIds
      /\ Request("UNSUBSCRIBE", NoTopic, topic_idByClient_map[c][t]) \in Requests
      /\ Request("SEND", t, NoId) \in Requests
  BY IdFacts DEF Request, Requests, RequestKinds, Typed, ClientTypes
<1>2. CASE Join(c, t)
  <2> DEFINE r == Request("SUBSCRIBE", t, rand_of(second))
             text == Text("Joined channel", t)
  <2>1. ask(c, r, text) /\ type_command(c) /\ text \in ReciptTexts
    BY <1>2, TextTypes DEF Join
  <2>2. Sends(c, r) /\ Asks(c, text) /\ link[c] = "up" /\ UNCHANGED link
    BY <1>1, <2>1, AskMeans
  <2>3. Fits(r, text)
    BY <1>1 DEF Fits, Request
  <2> QED
    BY <1>1, <1>2, <2>1, <2>2, <2>3 DEF Asking
<1>3. CASE Exit(c, t)
  <2> DEFINE r == Request("UNSUBSCRIBE", NoTopic, topic_idByClient_map[c][t])
             text == Text("Exited channel", t)
  <2>1. ask(c, r, text) /\ type_command(c) /\ text \in ReciptTexts
    BY <1>3, TextTypes DEF Exit
  <2>2. Sends(c, r) /\ Asks(c, text) /\ link[c] = "up" /\ UNCHANGED link
    BY <1>1, <2>1, AskMeans
  <2>3. Fits(r, text)
    BY <1>1 DEF Fits, Request
  <2> QED
    BY <1>1, <1>3, <2>1, <2>2, <2>3 DEF Asking
<1>4. CASE Report(c, t)
  <2> DEFINE r == Request("SEND", t, NoId)
             text == Text("report works!", NoTopic)
  <2>1. ask(c, r, text) /\ type_command(c) /\ text \in ReciptTexts
    BY <1>4, TextTypes DEF Report
  <2>2. Sends(c, r) /\ Asks(c, text) /\ link[c] = "up" /\ UNCHANGED link
    BY <1>1, <2>1, AskMeans
  <2>3. Fits(r, text) /\ r.kind = "SEND" /\ text.verb = "report works!"
    BY <1>1 DEF Fits, Request, Text
  <2>4. UNCHANGED <<topic_idByClient_map, drawn, apart>>
    BY <1>4 DEF Report
  <2> QED
    BY <1>1, <2>1, <2>2, <2>3, <2>4 DEF Asking
<1> QED
  BY <1>2, <1>3, <1>4

LEMMA LogoutMeans ==
    ASSUME Typed, NEW c \in Conns, Logout(c)
    PROVE  \E r \in Requests, text \in ReciptTexts : Asking(c, r, text)
<1> DEFINE r == Request("DISCONNECT", NoTopic, NoId)
<1>1. r \in Requests
  BY DEF Request, Requests, RequestKinds
<1>2. ask(c, r, EmptyText) /\ type_command(c) /\ EmptyText \in ReciptTexts
  BY TextTypes DEF Logout
<1>3. Sends(c, r) /\ Asks(c, EmptyText) /\ link[c] = "up" /\ UNCHANGED link
  BY <1>1, <1>2, AskMeans
<1>4. Fits(r, EmptyText) /\ r.kind = "DISCONNECT" /\ EmptyText.verb = ""
  BY DEF Fits, Request, EmptyText
<1>5. UNCHANGED <<topic_idByClient_map, drawn, apart>>
  BY DEF Logout
<1> QED
  BY <1>1, <1>2, <1>3, <1>4, <1>5 DEF Asking

-----------------------------------------------------------------------------
(* What the operations on the topics do to an id.                           *)

LEMMA SubscribeMeans ==
    ASSUME TopicTypeOK, NEW t \in Topics, NEW s \in SubIds, NEW c \in Conns,
           subscribe(t, s, c)
    PROVE  /\ TopicTypeOK'
           /\ user_topic'[s] = t
           /\ user_client_id[t][s] = NoConn => user_client_id'[t][s] = c
           /\ \A x \in SubIds \ {s} :
                /\ user_topic'[x] = user_topic[x]
                /\ \A u \in Topics : user_client_id'[u][x] = user_client_id[u][x]
BY DEF TopicTypeOK, subscribe

\* A connection is no id: the entry that is removed is never there.
LEMMA UnsubscribeMeans ==
    ASSUME TopicTypeOK, NEW s \in SubIds, user_topic[s] \in Topics, unsubscribe(s)
    PROVE  /\ TopicTypeOK'
           /\ \A x \in SubIds \ {s} : user_topic'[x] = user_topic[x]
           /\ user_topic'[s] = NoTopic
           /\ \A u \in Topics, x \in SubIds : user_client_id'[u][x] = user_client_id[u][x]
<1> DEFINE t == user_topic[s]
           key == user_client_id[t][s]
<1>1. key \notin SubIds
  BY IdFacts DEF TopicTypeOK
<1>2. /\ user_topic' = [user_topic EXCEPT ![s] = NoTopic]
      /\ user_client_id' = [user_client_id EXCEPT ![t] = [i \in SubIds |->
             IF i = key THEN NoConn ELSE user_client_id[t][i]]]
      /\ UNCHANGED topic_list
  BY DEF unsubscribe
<1>3. [i \in SubIds |-> IF i = key THEN NoConn ELSE user_client_id[t][i]]
        = [i \in SubIds |-> user_client_id[t][i]]
  BY <1>1
<1>4. \A u \in Topics, x \in SubIds : user_client_id'[u][x] = user_client_id[u][x]
  BY <1>2, <1>3 DEF TopicTypeOK
<1>5. TopicTypeOK'
  BY <1>2, <1>3 DEF TopicTypeOK
<1> QED
  BY <1>2, <1>4, <1>5 DEF TopicTypeOK

LEMMA UnsubscribeUserMeans ==
    ASSUME TopicTypeOK, NEW c \in Conns, unsubscribe_user(c)
    PROVE  /\ TopicTypeOK'
           /\ user_topic' = user_topic
           /\ \A u \in Topics, x \in SubIds :
                user_client_id'[u][x] = IF user_client_id[u][x] = c THEN NoConn
                                        ELSE user_client_id[u][x]
BY DEF TopicTypeOK, unsubscribe_user

-----------------------------------------------------------------------------
(* The steps, by what they do.                                              *)

LEMMA LoginMeans ==
    ASSUME Typed, NEW c \in Conns, Login(c)
    PROVE  /\ Sends(c, Request("CONNECT", NoTopic, NoId))
           /\ link[c] = "new" /\ link' = [link EXCEPT ![c] = "up"]
           /\ UNCHANGED <<topic_idByClient_map, asked, drawn, apart>>
<1>1. Request("CONNECT", NoTopic, NoId) \in Requests
  BY DEF Request, Requests, RequestKinds
<1> QED
  BY <1>1, SendMeans DEF Login

\* The commands of a request are carried out from the left.
Carrying ==
    /\ UNCHANGED <<topicVars, recipt_message, topic_idByClient_map, uplink,
                   second, asked, drawn, apart, serving>>
    /\ ClientMesssageQueues' \in [Conns -> Seq(Frames)]
    /\ \A d \in Conns \ {serving} : ClientMesssageQueues'[d] = ClientMesssageQueues[d]

LEMMA CarryFrameMeans ==
    ASSUME Typed, OneServed, CarryOutFrame
    PROVE  /\ Carrying /\ UNCHANGED <<link>>
           /\ \/ /\ Welcome(serving) /\ Rest(serving)' /\ UNCHANGED <<receipts>>
              \/ \E t \in Topics, text \in ReciptTexts :
                   /\ ClientMesssageQueues[serving]
                        = <<MessageFrame(serving, t), ReciptFrame(serving, text)>>
                   /\ commands' = <<"self">>
                   /\ ClientMesssageQueues'[serving] = <<ReciptFrame(serving, text)>>
                   /\ UNCHANGED <<receipts>>
              \/ \E text \in ReciptTexts :
                   /\ ClientMesssageQueues[serving] = <<ReciptFrame(serving, text)>>
                   /\ Rest(serving)'
                   /\ receipts' = [receipts EXCEPT ![serving] = Append(@, text)]
<1> PICK c \in Conns : c = serving
  BY DEF Typed, ServerTypes
<1>0. /\ ClientMesssageQueues \in [Conns -> Seq(Frames)]
      /\ \A t \in Topics : t # "self" /\ t # "disconnect" /\ t # "Error"
  BY TopicAssumption DEF Typed, ServerTypes, ControlWords
<1>1. /\ commands # <<>> /\ Head(commands) \in {"self"} \cup Topics
      /\ commands' = Tail(commands) /\ serving' = serving
      /\ UNCHANGED <<topicVars, recipt_message, topic_idByClient_map, uplink,
                     second, asked, drawn, apart, serving, link>>
  BY DEF CarryOutFrame, carry_out, no_command, take_command, clientVars
<1>2. /\ ClientMesssageQueues' = [ClientMesssageQueues EXCEPT
             ![c] = IF @ = <<>> THEN @ ELSE Tail(@)]
      /\ receipts' = IF queued_message(c).kind = "RECIPT"
                     THEN [receipts EXCEPT ![c] = Append(@, queued_message(c).text)]
                     ELSE receipts
  BY DEF CarryOutFrame, get_queued_message
<1>3. ClientMesssageQueues[c] \in Seq(Frames)
  BY <1>0
<1>4. ClientMesssageQueues' \in [Conns -> Seq(Frames)]
  <2>1. ClientMesssageQueues[c] # <<>> => Tail(ClientMesssageQueues[c]) \in Seq(Frames)
    BY <1>3
  <2> QED
    BY <1>0, <1>2, <2>1
<1>5. \A d \in Conns \ {c} : ClientMesssageQueues'[d] = ClientMesssageQueues[d]
  BY <1>0, <1>2
<1>6. Carrying
  BY <1>1, <1>4, <1>5 DEF Carrying
<1>7. ASSUME ClientMesssageQueues[c] # <<>>
      PROVE  /\ queued_message(c) = Head(ClientMesssageQueues[c])
             /\ ClientMesssageQueues'[c] = Tail(ClientMesssageQueues[c])
  BY <1>0, <1>2, <1>7 DEF queued_message
<1>8. CASE Welcome(c)
  <2>1. /\ ClientMesssageQueues[c] # <<>> /\ ClientMesssageQueues'[c] = <<>>
        /\ queued_message(c) = Frame("CONNECTED", c) /\ Tail(commands) = <<>>
    BY <1>7, <1>8, ShortSequences DEF Welcome
  <2> QED
    BY <1>1, <1>2, <1>6, <1>8, <2>1, FrameFields DEF Rest
<1>9. CASE Broadcast(c)
  <2> PICK t \in Topics, text \in ReciptTexts :
        /\ commands = <<t, "self">>
        /\ ClientMesssageQueues[c] = <<MessageFrame(c, t), ReciptFrame(c, text)>>
    BY <1>9 DEF Broadcast
  <2>1. /\ ClientMesssageQueues'[c] = <<ReciptFrame(c, text)>>
        /\ queued_message(c) = MessageFrame(c, t) /\ Tail(commands) = <<"self">>
    BY <1>7, ShortSequences
  <2>2. receipts' = receipts
    BY <1>2, <2>1, FrameFields
  <2> QED
    BY <1>1, <1>6, <2>1, <2>2
<1>10. CASE Receipt(c)
  <2> PICK text \in ReciptTexts :
        commands = <<"self">> /\ ClientMesssageQueues[c] = <<ReciptFrame(c, text)>>
    BY <1>10 DEF Receipt
  <2>1. /\ ClientMesssageQueues'[c] = <<>>
        /\ queued_message(c) = ReciptFrame(c, text) /\ Tail(commands) = <<>>
    BY <1>7, ShortSequences
  <2>2. queued_message(c).kind = "RECIPT" /\ queued_message(c).text = text
    BY <2>1, FrameFields
  <2>3. receipts' = [receipts EXCEPT ![c] = Append(@, text)]
    BY <1>2, <2>2
  <2> QED
    BY <1>1, <1>6, <2>1, <2>3 DEF Rest
<1>11. ~Rest(c) /\ ~Farewell(c) /\ ~Refusal(c)
  BY <1>0, <1>1, ShortSequences DEF Rest, Farewell, Refusal
<1> QED
  BY <1>8, <1>9, <1>10, <1>11 DEF OneServed

LEMMA CarryDisconnectMeans ==
    ASSUME Typed, OneServed, CarryOutDisconnect
    PROVE  /\ Carrying /\ link' = [link EXCEPT ![serving] = "down"]
           /\ UNCHANGED <<receipts, ClientMesssageQueues>>
           /\ commands' = <<"self">> /\ Head(commands) = "disconnect"
           /\ \E text \in ReciptTexts :
                ClientMesssageQueues[serving] = <<ReciptFrame(serving, text)>>
<1>1. /\ Head(commands) = "disconnect" /\ commands # <<>> /\ commands' = Tail(commands)
      /\ UNCHANGED <<topicVars, recipt_message, topic_idByClient_map, uplink, second,
                     asked, drawn, apart, serving, receipts, ClientMesssageQueues>>
      /\ link' = [link EXCEPT ![serving] = "down"]
  BY DEF CarryOutDisconnect, carry_out, no_command, take_command, clientVars
<1>2. \A t \in Topics : t # "disconnect"
  BY TopicAssumption DEF ControlWords
<1>3. ~Rest(serving) /\ ~Welcome(serving) /\ ~Broadcast(serving) /\ ~Receipt(serving)
      /\ ~Refusal(serving)
  BY <1>1, <1>2, ShortSequences DEF Rest, Welcome, Broadcast, Receipt, Refusal
<1>4. Farewell(serving)
  BY <1>3 DEF OneServed
<1>5. /\ commands' = <<"self">>
      /\ \E text \in ReciptTexts :
           ClientMesssageQueues[serving] = <<ReciptFrame(serving, text)>>
  BY <1>1, <1>4, ShortSequences DEF Farewell
<1>6. Carrying
  BY <1>1 DEF Carrying, Typed, ServerTypes
<1> QED
  BY <1>1, <1>5, <1>6

LEMMA CarryErrorMeans ==
    ASSUME Typed, OneServed, CarryOutError
    PROVE  /\ Carrying /\ link' = [link EXCEPT ![serving] = "down"]
           /\ UNCHANGED <<receipts>> /\ Rest(serving)' /\ Head(commands) = "Error"
<1> PICK c \in Conns : c = serving
  BY DEF Typed, ServerTypes
<1>0. /\ ClientMesssageQueues \in [Conns -> Seq(Frames)]
      /\ \A t \in Topics : t # "Error"
  BY TopicAssumption DEF Typed, ServerTypes, ControlWords
<1>1. /\ Head(commands) = "Error" /\ commands # <<>> /\ commands' = Tail(commands)
      /\ UNCHANGED <<topicVars, recipt_message, topic_idByClient_map, uplink, second,
                     asked, drawn, apart, serving, receipts>>
      /\ link' = [link EXCEPT ![serving] = "down"]
      /\ ClientMesssageQueues' = [ClientMesssageQueues EXCEPT
             ![c] = IF @ = <<>> THEN @ ELSE Tail(@)]
  BY DEF CarryOutError, carry_out, no_command, take_command, clientVars, get_queued_message
<1>2. ~Rest(c) /\ ~Welcome(c) /\ ~Broadcast(c) /\ ~Receipt(c) /\ ~Farewell(c)
  BY <1>0, <1>1, ShortSequences DEF Rest, Welcome, Broadcast, Receipt, Farewell
<1>3. /\ commands = <<"Error">> /\ ClientMesssageQueues[c] = <<Frame("ERROR", c)>>
      /\ ClientMesssageQueues[c] # <<>>
  BY <1>2, ShortSequences DEF OneServed, Refusal
<1>4. Tail(commands) = <<>> /\ Tail(ClientMesssageQueues[c]) = <<>> /\ <<>> \in Seq(Frames)
  BY <1>3, ShortSequences
<1>5. Rest(c)'
  BY <1>0, <1>1, <1>3, <1>4 DEF Rest
<1>6. Carrying
  BY <1>0, <1>1, <1>3, <1>4 DEF Carrying
<1> QED
  BY <1>1, <1>5, <1>6

-----------------------------------------------------------------------------
(* The invariant holds to begin with.                                       *)

LEMMA InvInitially == Init => ChannelsInv
<1> SUFFICES ASSUME Init
             PROVE  ChannelsInv
  OBVIOUS
<1> USE DEF Init, UserInit, TopicInit, ResponseInit
<1>1. Typed
  <2>1. uplink \in [Conns -> Seq(Requests)] /\ ClientMesssageQueues \in [Conns -> Seq(Frames)]
    OBVIOUS
  <2>2. asked \in [Conns -> Seq(ReciptTexts)] /\ receipts \in [Conns -> Seq(ReciptTexts)]
    OBVIOUS
  <2>3. /\ topic_idByClient_map \in [Conns -> [Topics -> SubIds \cup {NoId}]]
        /\ link \in [Conns -> {"new", "up", "thrown", "down"}]
        /\ second \in Seconds /\ drawn \subseteq SubIds /\ serving \in Conns
    BY IdFacts
  <2>4. TopicTypeOK
    BY DEF TopicTypeOK
  <2> QED
    BY <2>1, <2>2, <2>3, <2>4 DEF Typed, ClientTypes, ServerTypes
<1>2. \A c \in Conns : Len(uplink[c]) = 0 /\ Len(asked[c]) = 0 /\ Len(receipts[c]) = 0
  OBVIOUS
<1>3. OneServed
  BY IdFacts DEF OneServed, Rest
<1>4. Aligned
  BY <1>2 DEF Aligned, handled
<1>5. Mapped
  <2>1. \A c \in Conns : 1 .. Len(asked[c]) = {}
    BY <1>2
  <2> QED
    BY ONLY <2>1 DEF Mapped
<1>6. Told
  BY <1>2 DEF Told, receipt_due, refused, handled
<1>7. NewIdsUnused /\ JoinsOnce /\ ExitsOnce
  BY <1>2 DEF NewIdsUnused, JoinsOnce, ExitsOnce, Unused
<1>8. MapsApart /\ ExitsFit /\ MapsFit
  BY <1>2 DEF MapsApart, ExitsFit, MapsFit
<1> QED
  BY <1>1, <1>3, <1>4, <1>5, <1>6, <1>7, <1>8 DEF ChannelsInv, Served, Apart, IdsApart

-----------------------------------------------------------------------------
(* Types, the request that is served, what the uplinks hold.                *)

\* The clock runs, or nothing happens.
Idle ==
    /\ second' \in Seconds
    /\ UNCHANGED <<topicVars, responseVars, topic_idByClient_map, uplink, asked,
                   drawn, apart, link, serving, receipts>>

LEMMA StepCases ==
    ASSUME Typed, [Next]_vars
    PROVE  \/ \E c \in Conns : Login(c)
           \/ \E c \in Conns, r \in Requests, text \in ReciptTexts : Asking(c, r, text)
           \/ \E c \in Conns : Accept(c) \/ TurnDown(c) \/ CutOff(c)
           \/ CarryOutFrame \/ CarryOutError \/ CarryOutDisconnect
           \/ Idle
<1>1. CASE \E c \in Conns : Client(c)
  BY <1>1, CommandMeans, LogoutMeans DEF Client
<1>2. CASE \E c \in Conns : Server(c)
  BY <1>2 DEF Server
<1>3. CASE CarryOutFrame \/ CarryOutError \/ CarryOutDisconnect
  BY <1>3
<1>4. CASE Tick
  <2>1. second + 1 \in Seconds
    BY <1>4, ChannelAssumption DEF Tick, Seconds, Typed, ClientTypes
  <2> QED
    BY <1>4, <2>1 DEF Tick, Idle, managerVars
<1>5. CASE UNCHANGED vars
  BY <1>5 DEF vars, clientVars, managerVars, Idle, Typed, ClientTypes
<1> QED
  BY <1>1, <1>2, <1>3, <1>4, <1>5 DEF Next

LEMMA AnsweredTypes ==
    ASSUME Typed, NEW c \in Conns, NEW cmds, NEW frames \in Seq(Frames),
           Answered(c, cmds, frames)
    PROVE  /\ ClientMesssageQueues' \in [Conns -> Seq(Frames)]
           /\ ClientMesssageQueues'[c] = frames
           /\ \A d \in Conns \ {c} : ClientMesssageQueues'[d] = ClientMesssageQueues[d]
           /\ recipt_message' = EmptyText /\ commands' = cmds
BY DEF Answered, Typed, ServerTypes

LEMMA AnswerServes ==
    ASSUME Typed, OneServed, NEW c \in Conns, NEW kind, take_request(c, kind),
           NEW cmds, NEW frames \in Seq(Frames), Answered(c, cmds, frames), TopicTypeOK'
    PROVE  /\ serving' = c /\ commands' = cmds /\ ClientMesssageQueues'[c] = frames
           /\ \A d \in Conns \ {c} : ClientMesssageQueues'[d] = <<>>
           /\ ServerTypes'
           /\ Welcome(c)' \/ Broadcast(c)' \/ Receipt(c)' \/ Farewell(c)' \/ Refusal(c)'
              => OneServed'
<1>1. serving' = c /\ \A d \in Conns : ClientMesssageQueues[d] = <<>>
  BY TakeMeans
<1>2. /\ ClientMesssageQueues' \in [Conns -> Seq(Frames)]
      /\ ClientMesssageQueues'[c] = frames
      /\ \A d \in Conns \ {c} : ClientMesssageQueues'[d] = ClientMesssageQueues[d]
      /\ recipt_message' = EmptyText /\ commands' = cmds
  BY AnsweredTypes
<1>3. ServerTypes'
  BY <1>1, <1>2 DEF ServerTypes
<1>4. \A d \in Conns \ {c} : ClientMesssageQueues'[d] = <<>>
  BY <1>1, <1>2
<1> QED
  BY <1>1, <1>2, <1>3, <1>4 DEF OneServed

\* Whatever request of c is handled, one request is served after it.
LEMMA TakeServes ==
    ASSUME Typed, OneServed, Aligned, NEW c \in Conns,
           Accept(c) \/ TurnDown(c) \/ CutOff(c)
    PROVE  /\ \E kind \in RequestKinds : take_request(c, kind)
           /\ OneServed' /\ ServerTypes'
           /\ \/ UNCHANGED link
              \/ link' = [link EXCEPT ![c] = "thrown"]
<1>0. TopicTypeOK /\ (UNCHANGED topicVars => TopicTypeOK')
  BY DEF Typed, ServerTypes, topicVars, TopicTypeOK
<1>1. /\ <<Frame("CONNECTED", c)>> \in Seq(Frames) /\ <<Frame("ERROR", c)>> \in Seq(Frames)
      /\ \A text \in ReciptTexts : /\ <<ReciptFrame(c, text)>> \in Seq(Frames)
                                   /\ \A t \in Topics : <<MessageFrame(c, t), ReciptFrame(c, text)>>
                                                          \in Seq(Frames)
  BY FrameTypes
<1>2. CASE Accept(c)
  <2>1. UNCHANGED <<link>>
    BY <1>2, AcceptMeans
  <2>2. CASE /\ take_request(c, "CONNECT") /\ UNCHANGED topicVars
             /\ Answered(c, <<"self">>, <<Frame("CONNECTED", c)>>)
    <3>1. ServerTypes' /\ (Welcome(c)' => OneServed')
      BY <1>0, <1>1, <2>2, AnswerServes
    <3>2. Welcome(c)'
      BY <1>0, <1>1, <2>2, AnswerServes DEF Welcome
    <3> QED
      BY <2>1, <2>2, <3>1, <3>2 DEF RequestKinds
  <2>3. CASE /\ take_request(c, "SEND") /\ UNCHANGED topicVars
             /\ request(c).topic \in Topics
             /\ Answered(c, <<request(c).topic, "self">>,
                         <<MessageFrame(c, request(c).topic),
                           ReciptFrame(c, Text("report works!", NoTopic))>>)
    <3> PICK t \in Topics, text \in ReciptTexts :
          Answered(c, <<t, "self">>, <<MessageFrame(c, t), ReciptFrame(c, text)>>)
      BY <2>3, TextTypes
    <3>1. ServerTypes' /\ (Broadcast(c)' => OneServed')
      BY <1>0, <1>1, <2>3, AnswerServes
    <3>2. Broadcast(c)'
      BY <1>0, <1>1, <2>3, AnswerServes DEF Broadcast
    <3> QED
      BY <2>1, <2>3, <3>1, <3>2 DEF RequestKinds
  <2>4. CASE \E kind \in {"SUBSCRIBE", "UNSUBSCRIBE"}, text \in ReciptTexts :
               /\ take_request(c, kind) /\ TopicTypeOK'
               /\ Answered(c, <<"self">>, <<ReciptFrame(c, text)>>)
    <3> PICK kind \in {"SUBSCRIBE", "UNSUBSCRIBE"}, text \in ReciptTexts :
               /\ take_request(c, kind) /\ TopicTypeOK'
               /\ Answered(c, <<"self">>, <<ReciptFrame(c, text)>>)
      BY <2>4
    <3>1. ServerTypes' /\ (Receipt(c)' => OneServed')
      BY <1>0, <1>1, AnswerServes
    <3>2. Receipt(c)'
      BY <1>0, <1>1, AnswerServes DEF Receipt
    <3> QED
      BY <2>1, <3>1, <3>2 DEF RequestKinds
  <2>5. CASE /\ take_request(c, "DISCONNECT") /\ unsubscribe_user(c)
             /\ Answered(c, <<"disconnect", "self">>, <<ReciptFrame(c, EmptyText)>>)
    <3>0. TopicTypeOK' /\ EmptyText \in ReciptTexts
      BY <1>0, <2>5, UnsubscribeUserMeans, TextTypes
    <3>1. ServerTypes' /\ (Farewell(c)' => OneServed')
      BY <1>1, <2>5, <3>0, AnswerServes
    <3>2. Farewell(c)'
      BY <1>1, <2>5, <3>0, AnswerServes DEF Farewell
    <3> QED
      BY <2>1, <2>5, <3>1, <3>2 DEF RequestKinds
  <2>6. ASSUME take_request(c, "SUBSCRIBE"),
               request(c).topic \in Topics, request(c).id \in SubIds,
               subscribe(request(c).topic, request(c).id, c)
        PROVE  TopicTypeOK'
    BY <1>0, <2>6, SubscribeMeans
  <2>7. ASSUME request(c).id \in SubIds, user_topic[request(c).id] \in Topics,
               unsubscribe(request(c).id)
        PROVE  TopicTypeOK'
    BY <1>0, <2>7, UnsubscribeMeans
  <2>8. \A t \in Topics : /\ Text("Joined channel", t) \in ReciptTexts
                          /\ Text("Exited channel", t) \in ReciptTexts
    BY TextTypes
  <2> QED
    BY <1>2, <2>2, <2>3, <2>4, <2>5, <2>6, <2>7, <2>8, AcceptMeans
<1>3. CASE TurnDown(c)
  <2> PICK kind \in {"SEND", "UNSUBSCRIBE"} : take_request(c, kind)
    BY <1>3, TurnDownMeans
  <2>1. /\ UNCHANGED <<link>>
        /\ UNCHANGED topicVars \/ unsubscribe_user(c)
        /\ Answered(c, <<"Error">>, <<Frame("ERROR", c)>>)
    BY <1>3, TurnDownMeans
  <2>2. TopicTypeOK'
    BY <1>0, <2>1, UnsubscribeUserMeans
  <2>3. ServerTypes' /\ (Refusal(c)' => OneServed')
    BY <1>1, <2>1, <2>2, AnswerServes
  <2>4. Refusal(c)'
    BY <1>1, <2>1, <2>2, AnswerServes DEF Refusal
  <2>5. kind \in RequestKinds /\ take_request(c, kind)
    BY DEF RequestKinds
  <2>6. UNCHANGED link /\ ServerTypes' /\ OneServed'
    BY <2>1, <2>3, <2>4
  <2> QED
    BY <2>5, <2>6
<1>4. CASE CutOff(c)
  <2>1. /\ take_request(c, "SUBSCRIBE") /\ link' = [link EXCEPT ![c] = "thrown"]
        /\ UNCHANGED <<topicVars, ClientMesssageQueues, commands, recipt_message>>
    BY <1>4, CutOffMeans
  <2>2. serving' = c /\ commands = <<>> /\ \A d \in Conns : ClientMesssageQueues[d] = <<>>
    BY <2>1, TakeMeans
  <2>3. OneServed'
    BY <2>1, <2>2 DEF OneServed, Rest
  <2>4. ServerTypes'
    BY <1>0, <2>1, <2>2 DEF ServerTypes, Typed
  <2> QED
    BY <2>1, <2>3, <2>4 DEF RequestKinds
<1> QED
  BY <1>2, <1>3, <1>4

LEMMA TypesStay ==
    ASSUME Typed, OneServed, Aligned, [Next]_vars
    PROVE  Typed'
<1>0. ClientTypes /\ ServerTypes
  BY DEF Typed
<1>1. ASSUME NEW c \in Conns, Login(c)
      PROVE  Typed'
  <2>1. /\ uplink' \in [Conns -> Seq(Requests)] /\ link' = [link EXCEPT ![c] = "up"]
        /\ UNCHANGED <<managerVars, serving, second, receipts, topic_idByClient_map,
                       asked, drawn>>
    BY <1>1, LoginMeans DEF Sends
  <2>2. ClientTypes'
    BY <1>0, <2>1 DEF ClientTypes
  <2>3. ServerTypes'
    BY <1>0, <2>1 DEF ServerTypes, TopicTypeOK, managerVars, topicVars, responseVars
  <2> QED
    BY <2>2, <2>3 DEF Typed
<1>2. ASSUME NEW c \in Conns, NEW r \in Requests, NEW text \in ReciptTexts,
             Asking(c, r, text)
      PROVE  Typed'
  <2>1. /\ uplink' \in [Conns -> Seq(Requests)] /\ asked' \in [Conns -> Seq(ReciptTexts)]
        /\ UNCHANGED <<managerVars, serving, second, receipts, link>>
    BY <1>2 DEF Asking, Sends, Asks
  <2>2. /\ topic_idByClient_map' \in [Conns -> [Topics -> SubIds \cup {NoId}]]
        /\ drawn' \subseteq SubIds
    <3>1. ASSUME NEW t \in Topics, Join(c, t)
          PROVE  /\ topic_idByClient_map' \in [Conns -> [Topics -> SubIds \cup {NoId}]]
                 /\ drawn' \subseteq SubIds
      <4>1. rand_of(second) \in SubIds
        BY <1>0, IdFacts DEF ClientTypes
      <4> QED
        BY <1>0, <3>1, <4>1 DEF Join, subscribeTopic, ClientTypes
    <3>2. ASSUME NEW t \in Topics, Exit(c, t)
          PROVE  /\ topic_idByClient_map' \in [Conns -> [Topics -> SubIds \cup {NoId}]]
                 /\ drawn' \subseteq SubIds
      BY <1>0, <3>2 DEF Exit, unsubscribeTopic, ClientTypes
    <3> QED
      BY <1>0, <1>2, <3>1, <3>2 DEF Asking, ClientTypes
  <2>3. ClientTypes'
    BY <1>0, <2>1, <2>2 DEF ClientTypes
  <2>4. ServerTypes'
    BY <1>0, <2>1 DEF ServerTypes, TopicTypeOK, managerVars, topicVars, responseVars
  <2> QED
    BY <2>3, <2>4 DEF Typed
<1>3. ASSUME NEW c \in Conns, Accept(c) \/ TurnDown(c) \/ CutOff(c)
      PROVE  Typed'
  <2>1. /\ \E kind \in RequestKinds : take_request(c, kind)
        /\ ServerTypes' /\ (UNCHANGED link \/ link' = [link EXCEPT ![c] = "thrown"])
    BY <1>3, TakeServes
  <2>2. /\ uplink' \in [Conns -> Seq(Requests)]
        /\ UNCHANGED <<topic_idByClient_map, second, asked, receipts, drawn>>
    BY <2>1, TakeMeans
  <2>3. ClientTypes'
    BY <1>0, <2>1, <2>2 DEF ClientTypes
  <2> QED
    BY <2>1, <2>3 DEF Typed
<1>4. CASE CarryOutFrame \/ CarryOutError \/ CarryOutDisconnect
  <2>1. Carrying
    BY <1>4, CarryFrameMeans, CarryErrorMeans, CarryDisconnectMeans
  <2>2. link' \in [Conns -> {"new", "up", "thrown", "down"}]
    <3>1. link' = link \/ link' = [link EXCEPT ![serving] = "down"]
      BY <1>4, CarryFrameMeans, CarryErrorMeans, CarryDisconnectMeans
    <3> QED
      BY <1>0, <3>1 DEF ClientTypes
  <2>3. receipts' \in [Conns -> Seq(ReciptTexts)]
    <3>1. \/ receipts' = receipts
          \/ \E text \in ReciptTexts :
               receipts' = [receipts EXCEPT ![serving] = Append(@, text)]
      BY <1>4, CarryFrameMeans, CarryErrorMeans, CarryDisconnectMeans
    <3>2. serving \in Conns /\ receipts[serving] \in Seq(ReciptTexts)
      BY <1>0 DEF ClientTypes, ServerTypes
    <3>3. \A text \in ReciptTexts : Append(receipts[serving], text) \in Seq(ReciptTexts)
      BY <3>2, AppendProperties
    <3> QED
      BY <1>0, <3>1, <3>2, <3>3 DEF ClientTypes
  <2>4. ClientTypes'
    BY <1>0, <2>1, <2>2, <2>3 DEF ClientTypes, Carrying
  <2>5. ServerTypes'
    BY <1>0, <2>1 DEF ServerTypes, Carrying, TopicTypeOK, topicVars
  <2> QED
    BY <2>4, <2>5 DEF Typed
<1>5. CASE Idle
  BY <1>0, <1>5 DEF Idle, Typed, ClientTypes, ServerTypes, TopicTypeOK, topicVars, responseVars
<1> QED
  BY <1>1, <1>2, <1>3, <1>4, <1>5, StepCases

LEMMA OneServedStays ==
    ASSUME Typed, OneServed, Aligned, [Next]_vars
    PROVE  OneServed'
<1>1. ASSUME UNCHANGED <<ClientMesssageQueues, commands, serving>>
      PROVE  OneServed'
  BY <1>1 DEF OneServed, Rest, Welcome, Broadcast, Receipt, Farewell, Refusal
<1>2. ASSUME NEW c \in Conns, Login(c)
      PROVE  OneServed'
  BY <1>1, <1>2, LoginMeans DEF Sends, managerVars, responseVars
<1>3. ASSUME NEW c \in Conns, NEW r \in Requests, NEW text \in ReciptTexts,
             Asking(c, r, text)
      PROVE  OneServed'
  BY <1>1, <1>3 DEF Asking, Sends, managerVars, responseVars
<1>4. ASSUME Carrying, Rest(serving)' \/ Receipt(serving)'
      PROVE  OneServed'
  <2>1. serving' = serving /\ \A c \in Conns \ {serving} : ClientMesssageQueues'[c] = <<>>
    BY <1>4 DEF OneServed, Carrying
  <2> QED
    BY <1>4, <2>1 DEF OneServed
<1>5. CASE CarryOutFrame
  <2>1. Rest(serving)' \/ Receipt(serving)'
    BY <1>5, CarryFrameMeans DEF Receipt, Carrying
  <2> QED
    BY <1>4, <1>5, <2>1, CarryFrameMeans
<1>6. CASE CarryOutError
  BY <1>4, <1>6, CarryErrorMeans
<1>7. CASE CarryOutDisconnect
  <2>1. Receipt(serving)'
    BY <1>7, CarryDisconnectMeans DEF Receipt, Carrying
  <2> QED
    BY <1>4, <1>7, <2>1, CarryDisconnectMeans
<1>8. CASE Idle
  BY <1>1, <1>8 DEF Idle, responseVars
<1> QED
  BY <1>2, <1>3, <1>5, <1>6, <1>7, <1>8, StepCases, TakeServes

LEMMA Lengths ==
    ASSUME Typed
    PROVE  \A c \in Conns :
             /\ Len(uplink[c]) \in Nat /\ Len(asked[c]) \in Nat /\ Len(receipts[c]) \in Nat
             /\ handled(c) \in Int /\ handled(c) + Len(uplink[c]) = Len(asked[c])
<1>1. \A c \in Conns : /\ Len(uplink[c]) \in Nat /\ Len(asked[c]) \in Nat
                       /\ Len(receipts[c]) \in Nat
  BY LenProperties DEF Typed, ClientTypes
<1> QED
  BY <1>1 DEF handled

\* How far the requests of the clients are, in each kind of step.
LEMMA LoginCounts ==
    ASSUME Typed, Aligned, NEW c \in Conns, Login(c)
    PROVE  /\ uplink[c] = <<>> /\ asked[c] = <<>> /\ Len(uplink[c]) = 0 /\ Len(asked[c]) = 0
           /\ Len(uplink'[c]) = 1 /\ uplink'[c][1] = Request("CONNECT", NoTopic, NoId)
           /\ handled(c)' = -1 /\ handled(c) = 0
           /\ \A d \in Conns \ {c} : handled(d)' = handled(d)
<1>1. uplink[c] = <<>> /\ asked[c] = <<>>
  BY LoginMeans DEF Aligned
<1>2. Len(uplink[c]) = 0 /\ Len(asked[c]) = 0
  BY <1>1
<1> DEFINE r == Request("CONNECT", NoTopic, NoId)
<1> HIDE DEF r
<1>3. /\ Len(uplink'[c]) = Len(uplink[c]) + 1 /\ uplink'[c][Len(uplink[c]) + 1] = r
      /\ asked' = asked /\ \A d \in Conns \ {c} : uplink'[d] = uplink[d]
  BY LoginMeans DEF Sends, r
<1>4. Len(uplink'[c]) = 1 /\ uplink'[c][1] = r
  BY <1>2, <1>3
<1>5. handled(c)' = -1 /\ handled(c) = 0
  BY <1>2, <1>3, <1>4 DEF handled
<1>6. \A d \in Conns \ {c} : handled(d)' = handled(d)
  BY <1>3 DEF handled
<1> QED
  BY <1>1, <1>2, <1>4, <1>5, <1>6 DEF r

LEMMA AskingCounts ==
    ASSUME Typed, NEW c \in Conns, NEW r \in Requests, NEW text \in ReciptTexts,
           Asking(c, r, text)
    PROVE  \A d \in Conns : handled(d)' = handled(d)
<1>1. /\ Len(uplink'[c]) = Len(uplink[c]) + 1 /\ Len(asked'[c]) = Len(asked[c]) + 1
      /\ \A d \in Conns \ {c} : uplink'[d] = uplink[d] /\ asked'[d] = asked[d]
  BY DEF Asking, Sends, Asks
<1>2. Len(uplink[c]) \in Nat /\ Len(asked[c]) \in Nat
  BY Lengths
<1>3. handled(c)' = handled(c)
  BY <1>1, <1>2 DEF handled
<1>4. \A d \in Conns \ {c} : handled(d)' = handled(d)
  BY <1>1 DEF handled
<1> QED
  BY <1>3, <1>4

LEMMA TakeCounts ==
    ASSUME Typed, OneServed, NEW c \in Conns, NEW kind, take_request(c, kind)
    PROVE  /\ handled(c)' = handled(c) + 1
           /\ \A d \in Conns \ {c} : handled(d)' = handled(d)
<1>1. /\ Len(uplink'[c]) = Len(uplink[c]) - 1 /\ asked' = asked
      /\ \A d \in Conns \ {c} : uplink'[d] = uplink[d]
  BY TakeMeans
<1>2. Len(uplink[c]) \in Nat /\ Len(asked[c]) \in Nat
  BY Lengths
<1>3. handled(c)' = handled(c) + 1
  BY <1>1, <1>2 DEF handled
<1>4. \A d \in Conns \ {c} : handled(d)' = handled(d)
  BY <1>1 DEF handled
<1> QED
  BY <1>3, <1>4

LEMMA AlignedStays ==
    ASSUME Typed, OneServed, Aligned, [Next]_vars
    PROVE  Aligned'
<1> DEFINE Up(d) == \A i \in 1 .. Len(uplink[d]) :
               \/ handled(d) + i = 0 /\ uplink[d][i].kind = "CONNECT"
               \/ handled(d) + i > 0 /\ Fits(uplink[d][i], asked[d][handled(d) + i])
           Good(d) == /\ handled(d) >= -1 /\ Up(d)
                      /\ link[d] = "new" => uplink[d] = <<>> /\ asked[d] = <<>>
<1>0. \A d \in Conns : Good(d)
  BY DEF Aligned
<1>1. ASSUME NEW d \in Conns, uplink'[d] = uplink[d], asked'[d] = asked[d],
             link'[d] = "new" => link[d] = "new"
      PROVE  Good(d)'
  BY <1>0, <1>1 DEF handled
<1>2. ASSUME NEW c \in Conns, Login(c), NEW d \in Conns
      PROVE  Good(d)'
  <2>1. CASE d = c
    <3>1. /\ handled(c)' = -1 /\ Len(uplink'[c]) = 1 /\ link'[c] = "up"
          /\ uplink'[c][1] = Request("CONNECT", NoTopic, NoId)
      BY <1>2, LoginCounts, LoginMeans DEF Typed, ClientTypes
    <3>2. \A i \in 1 .. Len(uplink'[c]) : i = 1
      BY <3>1
    <3>3. Request("CONNECT", NoTopic, NoId).kind = "CONNECT"
      BY DEF Request
    <3>4. Up(c)'
      BY <3>1, <3>2, <3>3
    <3> QED
      BY <2>1, <3>1, <3>4
  <2>2. CASE d # c
    BY <1>1, <1>2, <2>2, LoginMeans DEF Sends, Typed, ClientTypes
  <2> QED
    BY <2>1, <2>2
<1>3. ASSUME NEW c \in Conns, NEW r \in Requests, NEW text \in ReciptTexts,
             Asking(c, r, text), NEW d \in Conns
      PROVE  Good(d)'
  <2>1. CASE d = c
    <3>1. /\ handled(c)' = handled(c) /\ handled(c) >= -1 /\ link[c] = "up" /\ link' = link
          /\ Len(uplink'[c]) = Len(uplink[c]) + 1 /\ uplink'[c][Len(uplink[c]) + 1] = r
          /\ Fits(r, text)
      BY <1>0, <1>3, AskingCounts DEF Asking, Sends
    <3>2. /\ Len(uplink[c]) \in Nat /\ Len(asked[c]) \in Nat
          /\ handled(c) \in Int /\ handled(c) + Len(uplink[c]) = Len(asked[c])
      BY Lengths
    <3>3. asked'[c][Len(asked[c]) + 1] = text
      BY <1>3 DEF Asking, Asks
    <3>4. ASSUME NEW i \in 1 .. Len(uplink[c])
          PROVE  \/ handled(c) + i = 0 /\ uplink'[c][i].kind = "CONNECT"
                 \/ handled(c) + i > 0 /\ Fits(uplink'[c][i], asked'[c][handled(c) + i])
      <4>1. uplink'[c][i] = uplink[c][i]
        BY <1>3 DEF Asking, Sends
      <4>2. handled(c) + i > 0 => handled(c) + i \in 1 .. Len(asked[c])
        BY <3>2
      <4>3. handled(c) + i > 0 => asked'[c][handled(c) + i] = asked[c][handled(c) + i]
        BY <1>3, <4>2 DEF Asking, Asks
      <4> QED
        BY <1>0, <4>1, <4>3
    <3>5. LET i == Len(uplink[c]) + 1 IN
          handled(c) + i > 0 /\ Fits(uplink'[c][i], asked'[c][handled(c) + i])
      <4>1. handled(c) + (Len(uplink[c]) + 1) = Len(asked[c]) + 1
        BY <3>2
      <4> QED
        BY <3>1, <3>2, <3>3, <4>1
    <3>6. \A i \in 1 .. Len(uplink'[c]) :
            i \in 1 .. Len(uplink[c]) \/ i = Len(uplink[c]) + 1
      BY <3>1, <3>2
    <3>7. Up(c)'
      BY <3>1, <3>4, <3>5, <3>6
    <3> QED
      BY <2>1, <3>1, <3>7
  <2>2. CASE d # c
    BY <1>1, <1>3, <2>2 DEF Asking, Sends, Asks
  <2> QED
    BY <2>1, <2>2
<1>4. ASSUME NEW c \in Conns, NEW kind \in RequestKinds, take_request(c, kind),
             UNCHANGED link \/ link' = [link EXCEPT ![c] = "thrown"], NEW d \in Conns
      PROVE  Good(d)'
  <2>1. CASE d = c
    <3>1. /\ handled(c)' = handled(c) + 1 /\ handled(c) >= -1 /\ handled(c) \in Int
          /\ link[c] = "up" /\ link'[c] # "new" /\ asked' = asked
          /\ Len(uplink[c]) \in Nat /\ Len(uplink'[c]) = Len(uplink[c]) - 1
      BY <1>0, <1>4, TakeCounts, TakeMeans, Lengths DEF Typed, ClientTypes
    <3>2. ASSUME NEW i \in 1 .. Len(uplink'[c])
          PROVE  \/ handled(c)' + i = 0 /\ uplink'[c][i].kind = "CONNECT"
                 \/ handled(c)' + i > 0 /\ Fits(uplink'[c][i], asked'[c][handled(c)' + i])
      <4>1. /\ i + 1 \in 1 .. Len(uplink[c]) /\ handled(c)' + i = handled(c) + (i + 1)
        BY <3>1
      <4>2. uplink'[c][i] = uplink[c][i + 1]
        BY <1>4, TakeMeans
      <4>3. \/ handled(c) + (i + 1) = 0 /\ uplink[c][i + 1].kind = "CONNECT"
            \/ handled(c) + (i + 1) > 0
               /\ Fits(uplink[c][i + 1], asked[c][handled(c) + (i + 1)])
        BY <1>0, <4>1
      <4> QED
        BY <3>1, <4>1, <4>2, <4>3
    <3> QED
      BY <2>1, <3>1, <3>2
  <2>2. CASE d # c
    <3>1. /\ uplink'[d] = uplink[d] /\ asked' = asked
          /\ link'[d] = link[d]
      BY <1>4, <2>2, TakeMeans DEF Typed, ClientTypes
    <3> QED
      BY <1>1, <3>1
  <2> QED
    BY <2>1, <2>2
<1>5. ASSUME CarryOutFrame \/ CarryOutError \/ CarryOutDisconnect, NEW d \in Conns
      PROVE  Good(d)'
  <2>1. UNCHANGED <<uplink, asked>>
    BY <1>5, CarryFrameMeans, CarryErrorMeans, CarryDisconnectMeans DEF Carrying
  <2>2. link' = link \/ link' = [link EXCEPT ![serving] = "down"]
    BY <1>5, CarryFrameMeans, CarryErrorMeans, CarryDisconnectMeans
  <2> QED
    BY <1>1, <2>1, <2>2 DEF Typed, ClientTypes
<1>6. ASSUME Idle, NEW d \in Conns
      PROVE  Good(d)'
  BY <1>1, <1>6 DEF Idle
<1>7. \A d \in Conns : Good(d)'
  BY <1>2, <1>3, <1>4, <1>5, <1>6, StepCases, TakeServes
<1> QED
  BY <1>7 DEF Aligned

-----------------------------------------------------------------------------
(* The clients' maps.                                                       *)

LEMMA TextsDiffer ==
    \A t, u : /\ Text("Joined channel", t) # Text("Exited channel", u)
              /\ Text("Joined channel", t) = Text("Joined channel", u) => t = u
              /\ Text("Exited channel", t) = Text("Exited channel", u) => t = u
              /\ Text("Joined channel", t).verb = "Joined channel"
              /\ Text("Exited channel", t).verb = "Exited channel"
BY DEF Text

LEMMA JoinMeans ==
    ASSUME Typed, NEW c \in Conns, NEW t \in Topics, Join(c, t)
    PROVE  /\ rand_of(second) \in SubIds /\ rand_of(second) # NoId
           /\ \A d \in Conns \ {c} : topic_idByClient_map'[d] = topic_idByClient_map[d]
           /\ \A u \in Topics \ {t} :
                topic_idByClient_map'[c][u] = topic_idByClient_map[c][u]
           /\ topic_idByClient_map[c][t] = NoId =>
                topic_idByClient_map'[c][t] = rand_of(second)
           /\ topic_idByClient_map[c][t] # NoId =>
                topic_idByClient_map'[c][t] = topic_idByClient_map[c][t]
           /\ drawn' = drawn \cup {rand_of(second)}
           /\ apart' => apart /\ rand_of(second) \notin drawn
<1>1. rand_of(second) \in SubIds /\ NoId \notin SubIds
  BY IdFacts DEF Typed, ClientTypes
<1>2. /\ subscribeTopic(c, t, rand_of(second)) /\ drawn' = drawn \cup {rand_of(second)}
      /\ apart' = (apart /\ rand_of(second) \notin drawn)
  BY DEF Join
<1>3. topic_idByClient_map \in [Conns -> [Topics -> SubIds \cup {NoId}]]
  BY DEF Typed, ClientTypes
<1>4. apart' => apart /\ rand_of(second) \notin drawn
  BY <1>2
<1> HIDE DEF NoId
<1>5. /\ \A d \in Conns \ {c} : topic_idByClient_map'[d] = topic_idByClient_map[d]
      /\ \A u \in Topics \ {t} : topic_idByClient_map'[c][u] = topic_idByClient_map[c][u]
      /\ topic_idByClient_map[c][t] = NoId => topic_idByClient_map'[c][t] = rand_of(second)
      /\ topic_idByClient_map[c][t] # NoId =>
           topic_idByClient_map'[c][t] = topic_idByClient_map[c][t]
  BY <1>2, <1>3 DEF subscribeTopic
<1> QED
  BY <1>1, <1>2, <1>4, <1>5

LEMMA ExitMeans ==
    ASSUME Typed, NEW c \in Conns, NEW t \in Topics, Exit(c, t)
    PROVE  /\ \A d \in Conns \ {c} : topic_idByClient_map'[d] = topic_idByClient_map[d]
           /\ \A u \in Topics \ {t} :
                topic_idByClient_map'[c][u] = topic_idByClient_map[c][u]
           /\ topic_idByClient_map'[c][t] = NoId
           /\ UNCHANGED <<drawn, apart>>
BY DEF Typed, ClientTypes, Exit, unsubscribeTopic

LEMMA MappedStays ==
    ASSUME Typed, OneServed, Aligned, Mapped, [Next]_vars
    PROVE  Mapped'
<1> DEFINE Joined(d, t) == \E i \in 1 .. Len(asked[d]) :
               /\ asked[d][i] = Text("Joined channel", t)
               /\ \A j \in i + 1 .. Len(asked[d]) : asked[d][j] # Text("Exited channel", t)
<1>0. \A d \in Conns, t \in Topics : Joined(d, t) => topic_idByClient_map[d][t] # NoId
  BY DEF Mapped
<1>1. ASSUME NEW d \in Conns, NEW t \in Topics, asked'[d] = asked[d],
             topic_idByClient_map'[d][t] = topic_idByClient_map[d][t]
      PROVE  Joined(d, t)' => topic_idByClient_map'[d][t] # NoId
  BY <1>0, <1>1
<1>2. ASSUME NEW c \in Conns, NEW r \in Requests, NEW text \in ReciptTexts,
             Asking(c, r, text), NEW d \in Conns, NEW t \in Topics, Joined(d, t)'
      PROVE  topic_idByClient_map'[d][t] # NoId
  <2>0. \/ \E u \in Topics : Join(c, u) /\ text = Text("Joined channel", u)
        \/ \E u \in Topics : Exit(c, u) /\ text = Text("Exited channel", u)
        \/ /\ text.verb # "Joined channel" /\ text.verb # "Exited channel"
           /\ UNCHANGED <<topic_idByClient_map>>
    BY <1>2 DEF Asking
  <2>1. CASE d # c
    <3>1. asked'[d] = asked[d]
      BY <1>2, <2>1 DEF Asking, Asks
    <3>2. ASSUME NEW u \in Topics, Join(c, u) \/ Exit(c, u)
          PROVE  topic_idByClient_map'[d][t] = topic_idByClient_map[d][t]
      <4>1. CASE Join(c, u)
        BY <2>1, <4>1, JoinMeans
      <4>2. CASE Exit(c, u)
        BY <2>1, <4>2, ExitMeans
      <4> QED
        BY <3>2, <4>1, <4>2
    <3>3. topic_idByClient_map'[d][t] = topic_idByClient_map[d][t]
      BY <2>0, <3>2
    <3> QED
      BY <1>1, <1>2, <3>1, <3>3
  <2>2. CASE d = c
    <3>1. Len(asked'[c]) = Len(asked[c]) + 1 /\ Len(asked[c]) \in Nat
      BY <1>2, Lengths DEF Asking, Asks
    <3> PICK n \in Nat : n = Len(asked[c])
      BY <3>1
    <3>2. /\ asked'[c][n + 1] = text
          /\ \A k \in 1 .. n : asked'[c][k] = asked[c][k]
      BY <1>2 DEF Asking, Asks
    <3>3. /\ \A i \in 1 .. n + 1 : i # n + 1 => i \in 1 .. n /\ n + 1 \in i + 1 .. n + 1
          /\ \A i \in 1 .. n : \A j \in i + 1 .. n : j \in i + 1 .. n + 1 /\ j \in 1 .. n
      OBVIOUS
    <3> PICK i \in 1 .. n + 1 :
          /\ asked'[c][i] = Text("Joined channel", t)
          /\ \A j \in i + 1 .. n + 1 : asked'[c][j] # Text("Exited channel", t)
      BY <1>2, <2>2, <3>1
    <3>4. CASE i = n + 1
      <4>1. text = Text("Joined channel", t)
        BY <3>2, <3>4
      <4>2. Join(c, t)
        <5>1. text.verb = "Joined channel" /\ \A u : text # Text("Exited channel", u)
          BY <4>1, TextsDiffer
        <5>2. PICK u \in Topics : Join(c, u) /\ text = Text("Joined channel", u)
          BY <2>0, <5>1
        <5> QED
          BY <4>1, <5>2, TextsDiffer
      <4>3. CASE topic_idByClient_map[c][t] = NoId
        <5>1. topic_idByClient_map'[c][t] = rand_of(second) /\ rand_of(second) # NoId
          BY <4>2, <4>3, JoinMeans
        <5> QED
          BY <2>2, <5>1
      <4>4. CASE topic_idByClient_map[c][t] # NoId
        BY <2>2, <4>2, <4>4, JoinMeans
      <4> QED
        BY <4>3, <4>4
    <3>5. CASE i # n + 1
      <4>1. i \in 1 .. n /\ n + 1 \in i + 1 .. n + 1
        BY ONLY <3>3, <3>5, i \in 1 .. n + 1
      <4>2. text # Text("Exited channel", t)
        BY <3>2, <4>1
      <4>3. asked[c][i] = Text("Joined channel", t)
        BY <3>2, <4>1
      <4>4. ASSUME NEW j \in i + 1 .. n
            PROVE  asked[c][j] # Text("Exited channel", t)
        <5>1. j \in i + 1 .. n + 1 /\ j \in 1 .. n
          BY ONLY <3>3, <4>1, j \in i + 1 .. n
        <5> QED
          BY <3>2, <5>1
      <4>5. topic_idByClient_map[c][t] # NoId
        BY <1>0, <4>1, <4>3, <4>4
      <4>6. ASSUME NEW u \in Topics, Join(c, u)
            PROVE  topic_idByClient_map'[c][t] = topic_idByClient_map[c][t]
        BY <4>5, <4>6, JoinMeans
      <4>7. ASSUME NEW u \in Topics, Exit(c, u), text = Text("Exited channel", u)
            PROVE  topic_idByClient_map'[c][t] = topic_idByClient_map[c][t]
        <5>1. t \in Topics \ {u}
          BY <4>2, <4>7
        <5> QED
          BY <4>7, <5>1, ExitMeans
      <4>8. topic_idByClient_map'[c][t] = topic_idByClient_map[c][t]
        BY <2>0, <4>6, <4>7
      <4> QED
        BY <2>2, <4>5, <4>8
    <3> QED
      BY <3>4, <3>5
  <2> QED
    BY <2>1, <2>2
<1>3. ASSUME UNCHANGED <<asked, topic_idByClient_map>>
      PROVE  Mapped'
  BY <1>1, <1>3 DEF Mapped
<1>4. ASSUME NEW c \in Conns, Accept(c) \/ TurnDown(c) \/ CutOff(c)
      PROVE  Mapped'
  BY <1>3, <1>4, TakeServes, TakeMeans
<1>5. ASSUME NEW c \in Conns, Login(c)
      PROVE  Mapped'
  BY <1>3, <1>5, LoginMeans
<1>6. CASE CarryOutFrame \/ CarryOutError \/ CarryOutDisconnect
  BY <1>3, <1>6, CarryFrameMeans, CarryErrorMeans, CarryDisconnectMeans DEF Carrying
<1>7. CASE Idle
  BY <1>3, <1>7 DEF Idle
<1>8. ASSUME NEW c \in Conns, NEW r \in Requests, NEW text \in ReciptTexts,
             Asking(c, r, text)
      PROVE  Mapped'
  BY <1>2, <1>8 DEF Mapped
<1> QED
  BY <1>4, <1>5, <1>6, <1>7, <1>8, StepCases

-----------------------------------------------------------------------------
(* The receipts.                                                            *)

LEMMA LastFrames ==
    ASSUME NEW c \in Conns
    PROVE  \A q :
             /\ q = <<Frame("CONNECTED", c)>> => q # <<>> /\ Last(q).kind = "CONNECTED"
             /\ q = <<Frame("ERROR", c)>> => q # <<>> /\ Last(q).kind = "ERROR"
             /\ \A text : q = <<ReciptFrame(c, text)>> =>
                  q # <<>> /\ Last(q).kind = "RECIPT" /\ Last(q).text = text
             /\ \A t, text : q = <<MessageFrame(c, t), ReciptFrame(c, text)>> =>
                  q # <<>> /\ Last(q).kind = "RECIPT" /\ Last(q).text = text
<1>1. /\ <<Frame("CONNECTED", c)>> # <<>> /\ <<Frame("ERROR", c)>> # <<>>
      /\ Last(<<Frame("CONNECTED", c)>>) = Frame("CONNECTED", c)
      /\ Last(<<Frame("ERROR", c)>>) = Frame("ERROR", c)
  BY ShortSequences
<1>2. ASSUME NEW text
      PROVE  <<ReciptFrame(c, text)>> # <<>> /\ Last(<<ReciptFrame(c, text)>>) = ReciptFrame(c, text)
  BY ShortSequences
<1>3. ASSUME NEW t, NEW text
      PROVE  /\ <<MessageFrame(c, t), ReciptFrame(c, text)>> # <<>>
             /\ Last(<<MessageFrame(c, t), ReciptFrame(c, text)>>) = ReciptFrame(c, text)
  BY ShortSequences
<1> QED
  BY <1>1, <1>2, <1>3, FrameFields

\* What a client is told when its request is handled is what it asked for.
LEMMA AnswerIsAsked ==
    ASSUME Typed, OneServed, Aligned, ExitsFit, NEW c \in Conns, Accept(c)
    PROVE  \/ /\ handled(c) = -1
              /\ ClientMesssageQueues'[c] = <<Frame("CONNECTED", c)>>
           \/ /\ handled(c) >= 0 /\ ClientMesssageQueues'[c] # <<>>
              /\ Last(ClientMesssageQueues'[c]).kind = "RECIPT"
              /\ Last(ClientMesssageQueues'[c]).text = asked[c][handled(c) + 1]
<1>0. ASSUME NEW kind, take_request(c, kind)
      PROVE  /\ \/ kind = "CONNECT" /\ handled(c) = -1
                \/ handled(c) >= 0 /\ Fits(request(c), asked[c][handled(c) + 1])
             /\ request(c).kind = kind /\ request(c) = uplink[c][1]
             /\ Len(uplink[c]) \in Nat \ {0} /\ commands = <<>> /\ link[c] = "up"
  BY <1>0, TakenFits, TakeMeans
<1>1. ASSUME NEW cmds, NEW frames \in Seq(Frames), Answered(c, cmds, frames)
      PROVE  ClientMesssageQueues'[c] = frames
  BY <1>1, AnsweredTypes
<1>2. /\ <<Frame("CONNECTED", c)>> \in Seq(Frames)
      /\ \A text \in ReciptTexts : /\ <<ReciptFrame(c, text)>> \in Seq(Frames)
                                   /\ \A t \in Topics : <<MessageFrame(c, t), ReciptFrame(c, text)>>
                                                          \in Seq(Frames)
  BY FrameTypes
<1>3. ASSUME NEW kind, take_request(c, kind), kind # "CONNECT",
             NEW cmds, NEW text \in ReciptTexts,
             \/ Answered(c, cmds, <<ReciptFrame(c, text)>>)
             \/ \E t \in Topics : Answered(c, cmds, <<MessageFrame(c, t), ReciptFrame(c, text)>>),
             handled(c) >= 0 /\ Fits(request(c), asked[c][handled(c) + 1]) /\ request(c).kind = kind
               => asked[c][handled(c) + 1] = text
      PROVE  /\ handled(c) >= 0 /\ ClientMesssageQueues'[c] # <<>>
             /\ Last(ClientMesssageQueues'[c]).kind = "RECIPT"
             /\ Last(ClientMesssageQueues'[c]).text = asked[c][handled(c) + 1]
  <2>1. handled(c) >= 0 /\ asked[c][handled(c) + 1] = text
    BY <1>0, <1>3
  <2>2. CASE Answered(c, cmds, <<ReciptFrame(c, text)>>)
    <3>1. ClientMesssageQueues'[c] = <<ReciptFrame(c, text)>>
      BY <1>1, <1>2, <2>2
    <3>2. /\ ClientMesssageQueues'[c] # <<>>
          /\ Last(ClientMesssageQueues'[c]).kind = "RECIPT"
          /\ Last(ClientMesssageQueues'[c]).text = text
      BY <3>1, LastFrames
    <3> QED
      BY <2>1, <3>2
  <2>3. ASSUME NEW t \in Topics, Answered(c, cmds, <<MessageFrame(c, t), ReciptFrame(c, text)>>)
        PROVE  /\ ClientMesssageQueues'[c] # <<>>
               /\ Last(ClientMesssageQueues'[c]).kind = "RECIPT"
               /\ Last(ClientMesssageQueues'[c]).text = text
    <3>1. ClientMesssageQueues'[c] = <<MessageFrame(c, t), ReciptFrame(c, text)>>
      BY <1>1, <1>2, <2>3
    <3> QED
      BY <3>1, LastFrames
  <2> QED
    BY <1>3, <2>1, <2>2, <2>3
<1>4. CASE /\ take_request(c, "CONNECT")
           /\ Answered(c, <<"self">>, <<Frame("CONNECTED", c)>>)
  <2>0. take_request(c, "CONNECT")
    BY <1>4
  <2>1. request(c).kind = "CONNECT"
    BY <1>0, <2>0
  <2>2. ~Fits(request(c), asked[c][handled(c) + 1])
    BY <2>1 DEF Fits
  <2>3. handled(c) = -1
    BY <1>0, <2>0, <2>2
  <2> QED
    BY <1>1, <1>2, <1>4, <2>3
<1>5. CASE /\ take_request(c, "SEND")
           /\ request(c).topic \in Topics
           /\ Answered(c, <<request(c).topic, "self">>,
                       <<MessageFrame(c, request(c).topic),
                         ReciptFrame(c, Text("report works!", NoTopic))>>)
  <2>1. Fits(request(c), asked[c][handled(c) + 1]) /\ request(c).kind = "SEND"
          => asked[c][handled(c) + 1] = Text("report works!", NoTopic)
    BY DEF Fits
  <2> QED
    BY <1>3, <1>5, <2>1, TextTypes
<1>6. CASE /\ take_request(c, "SUBSCRIBE")
           /\ request(c).topic \in Topics
           /\ Answered(c, <<"self">>,
                <<ReciptFrame(c, Text("Joined channel", request(c).topic))>>)
  <2>1. Fits(request(c), asked[c][handled(c) + 1]) /\ request(c).kind = "SUBSCRIBE"
          => asked[c][handled(c) + 1] = Text("Joined channel", request(c).topic)
    BY DEF Fits
  <2> QED
    BY <1>3, <1>6, <2>1, TextTypes
<1>7. CASE /\ take_request(c, "UNSUBSCRIBE")
           /\ request(c).id \in SubIds /\ user_topic[request(c).id] \in Topics
           /\ Answered(c, <<"self">>,
                <<ReciptFrame(c, Text("Exited channel", user_topic[request(c).id]))>>)
  <2>0. take_request(c, "UNSUBSCRIBE")
    BY <1>7
  <2>1. /\ request(c).kind = "UNSUBSCRIBE" /\ request(c) = uplink[c][1]
        /\ 1 \in 1 .. Len(uplink[c]) /\ commands = <<>> /\ link[c] = "up"
        /\ handled(c) >= 0
    BY <1>0, <2>0
  <2>2. exiting(c, 1) /\ staying(c)
    BY <1>7, <2>1, IdFacts DEF exiting, staying
  <2>3. PICK t \in Topics :
          /\ asked[c][handled(c) + 1] = Text("Exited channel", t)
          /\ \/ user_topic[uplink[c][1].id] = t
             \/ on_its_way(c, t, uplink[c][1].id, 1 - 1)
    BY <2>1, <2>2 DEF ExitsFit, ExitFits
  <2>4. ~on_its_way(c, t, uplink[c][1].id, 1 - 1)
    BY DEF on_its_way
  <2>5. asked[c][handled(c) + 1] = Text("Exited channel", user_topic[request(c).id])
    BY <2>1, <2>3, <2>4
  <2>6. Text("Exited channel", user_topic[request(c).id]) \in ReciptTexts
    BY <1>7, TextTypes
  <2> QED
    BY <1>3, <1>7, <2>5, <2>6
<1>8. CASE /\ take_request(c, "DISCONNECT")
           /\ Answered(c, <<"disconnect", "self">>, <<ReciptFrame(c, EmptyText)>>)
  <2>1. Fits(request(c), asked[c][handled(c) + 1]) /\ request(c).kind = "DISCONNECT"
          => asked[c][handled(c) + 1] = EmptyText
    BY DEF Fits
  <2> QED
    BY <1>3, <1>8, <2>1, TextTypes
<1> QED
  BY <1>4, <1>5, <1>6, <1>7, <1>8, AcceptMeans

LEMMA ToldStays ==
    ASSUME Typed, OneServed, Aligned, Told, ExitsFit, [Next]_vars
    PROVE  Told'
<1> DEFINE Good(d) ==
      /\ Len(receipts[d]) <= Len(asked[d])
      /\ \A i \in 1 .. Len(receipts[d]) : receipts[d][i] = asked[d][i]
      /\ receipt_due(d) => /\ Len(receipts[d]) + 1 = handled(d)
                           /\ asked[d][handled(d)] = Last(ClientMesssageQueues[d]).text
      /\ refused(d) => Len(receipts[d]) + 1 = handled(d)
      /\ link[d] = "up" /\ ~receipt_due(d) /\ ~refused(d) =>
            \/ Len(receipts[d]) = handled(d)
            \/ handled(d) = -1 /\ receipts[d] = <<>>
      /\ link[d] = "new" => receipts[d] = <<>> /\ ClientMesssageQueues[d] = <<>>
<1>0. \A d \in Conns : Good(d)
  BY DEF Told
<1>1. ASSUME NEW d \in Conns, uplink'[d] = uplink[d], asked'[d] = asked[d],
             receipts'[d] = receipts[d], link'[d] = link[d],
             ClientMesssageQueues'[d] = ClientMesssageQueues[d]
      PROVE  Good(d)'
  BY <1>0, <1>1 DEF handled, receipt_due, refused
<1>2. ASSUME NEW c \in Conns, Login(c)
      PROVE  Good(c)'
  <2>1. /\ link[c] = "new" /\ link' = [link EXCEPT ![c] = "up"]
        /\ UNCHANGED <<asked, receipts, ClientMesssageQueues>>
    BY <1>2, LoginMeans DEF Sends, managerVars, responseVars
  <2>2. receipts[c] = <<>> /\ ClientMesssageQueues[c] = <<>>
    BY <1>0, <2>1
  <2>3. handled(c)' = -1 /\ Len(asked[c]) = 0
    BY <1>2, LoginCounts
  <2>4. Len(receipts[c]) = 0
    BY <2>2
  <2>5. ~receipt_due(c)' /\ ~refused(c)' /\ link'[c] = "up"
    BY <2>1, <2>2 DEF receipt_due, refused, Typed, ClientTypes
  <2> QED
    BY <2>1, <2>2, <2>3, <2>4, <2>5
<1>3. ASSUME NEW c \in Conns, NEW r \in Requests, NEW text \in ReciptTexts,
             Asking(c, r, text)
      PROVE  Good(c)'
  <2>1. /\ link[c] = "up" /\ UNCHANGED <<receipts, ClientMesssageQueues, link>>
        /\ Len(asked'[c]) = Len(asked[c]) + 1 /\ handled(c)' = handled(c)
    BY <1>3, AskingCounts DEF Asking, Sends, Asks, managerVars, responseVars
  <2>2. /\ Len(receipts[c]) \in Nat /\ Len(asked[c]) \in Nat /\ Len(uplink[c]) \in Nat
        /\ handled(c) \in Int /\ handled(c) + Len(uplink[c]) = Len(asked[c])
    BY Lengths
  <2>3. \A i \in 1 .. Len(asked[c]) : asked'[c][i] = asked[c][i]
    BY <1>3 DEF Asking, Asks
  <2>4. Len(receipts'[c]) <= Len(asked'[c])
    BY <1>0, <2>1, <2>2
  <2>5. \A i \in 1 .. Len(receipts'[c]) : receipts'[c][i] = asked'[c][i]
    <3>1. \A i \in 1 .. Len(receipts[c]) : i \in 1 .. Len(asked[c])
      BY <1>0, <2>2
    <3> QED
      BY <1>0, <2>1, <2>3, <3>1
  <2>6. receipt_due(c)' = receipt_due(c) /\ refused(c)' = refused(c)
    BY <2>1 DEF receipt_due, refused
  <2>7. receipt_due(c) => asked'[c][handled(c)] = asked[c][handled(c)]
    <3>1. receipt_due(c) => handled(c) \in 1 .. Len(asked[c])
      BY <1>0, <2>2
    <3> QED
      BY <2>3, <3>1
  <2> QED
    BY <1>0, <2>1, <2>4, <2>5, <2>6, <2>7
<1>4. ASSUME NEW c \in Conns, NEW kind, take_request(c, kind)
      PROVE  /\ handled(c)' = handled(c) + 1 /\ UNCHANGED <<asked, receipts>>
             /\ link[c] = "up" /\ ClientMesssageQueues[c] = <<>>
             /\ handled(c) \in Int /\ Len(receipts[c]) \in Nat
             /\ \/ Len(receipts[c]) = handled(c)
                \/ handled(c) = -1 /\ receipts[c] = <<>> /\ Len(receipts[c]) = 0
             /\ Len(receipts[c]) <= Len(asked[c])
             /\ \A i \in 1 .. Len(receipts[c]) : receipts[c][i] = asked[c][i]
  <2>1. /\ handled(c)' = handled(c) + 1 /\ UNCHANGED <<asked, receipts>>
        /\ link[c] = "up" /\ ClientMesssageQueues[c] = <<>>
    BY <1>4, TakeMeans, TakeCounts
  <2>2. ~receipt_due(c) /\ ~refused(c)
    BY <2>1 DEF receipt_due, refused
  <2>3. receipts[c] = <<>> => Len(receipts[c]) = 0
    OBVIOUS
  <2> QED
    BY <1>0, <2>1, <2>2, <2>3, Lengths
<1>5. ASSUME NEW c \in Conns, Accept(c)
      PROVE  Good(c)'
  <2> PICK kind : take_request(c, kind)
    BY <1>5, TakeServes
  <2>1. UNCHANGED <<link>>
    BY <1>5, AcceptMeans
  <2>2. CASE handled(c) = -1 /\ ClientMesssageQueues'[c] = <<Frame("CONNECTED", c)>>
    <3>1. ~receipt_due(c)' /\ ~refused(c)'
      BY <2>2, LastFrames DEF receipt_due, refused
    <3>2. Len(receipts[c]) = handled(c)' /\ link'[c] # "new"
      BY <1>4, <2>1, <2>2
    <3> QED
      BY <1>4, <3>1, <3>2
  <2>3. CASE /\ handled(c) >= 0 /\ ClientMesssageQueues'[c] # <<>>
             /\ Last(ClientMesssageQueues'[c]).kind = "RECIPT"
             /\ Last(ClientMesssageQueues'[c]).text = asked[c][handled(c) + 1]
    <3>1. receipt_due(c)' /\ ~refused(c)'
      BY <2>3 DEF receipt_due, refused
    <3>2. Len(receipts[c]) + 1 = handled(c)' /\ link'[c] # "new"
      BY <1>4, <2>1, <2>3
    <3> QED
      BY <1>4, <2>3, <3>1, <3>2
  <2> QED
    BY <1>5, <2>2, <2>3, AnswerIsAsked
<1>6. ASSUME NEW c \in Conns, TurnDown(c)
      PROVE  Good(c)'
  <2> PICK kind \in {"SEND", "UNSUBSCRIBE"} : take_request(c, kind)
    BY <1>6, TurnDownMeans
  <2>1. UNCHANGED <<link>> /\ ClientMesssageQueues'[c] = <<Frame("ERROR", c)>>
    <3>1. Answered(c, <<"Error">>, <<Frame("ERROR", c)>>) /\ UNCHANGED <<link>>
      BY <1>6, TurnDownMeans
    <3>2. <<Frame("ERROR", c)>> \in Seq(Frames)
      BY FrameTypes
    <3> QED
      BY <3>1, <3>2, AnsweredTypes
  <2>2. ~receipt_due(c)' /\ refused(c)'
    BY <2>1, LastFrames DEF receipt_due, refused
  <2>3. handled(c) >= 0
    BY TakenFits
  <2>4. Len(receipts[c]) + 1 = handled(c)' /\ link'[c] # "new"
    BY <1>4, <2>1, <2>3
  <2> QED
    BY <1>4, <2>2, <2>4
<1>7. ASSUME NEW c \in Conns, CutOff(c)
      PROVE  Good(c)'
  <2>1. /\ take_request(c, "SUBSCRIBE") /\ link' = [link EXCEPT ![c] = "thrown"]
        /\ UNCHANGED <<ClientMesssageQueues>>
    BY <1>7, CutOffMeans
  <2>2. ~receipt_due(c)' /\ ~refused(c)' /\ link'[c] = "thrown"
    BY <1>4, <2>1 DEF receipt_due, refused, Typed, ClientTypes
  <2> QED
    BY <1>4, <2>1, <2>2
\* The others are as they were.
<1>8. ASSUME NEW c \in Conns, Login(c), NEW d \in Conns \ {c}
      PROVE  Good(d)'
  BY <1>1, <1>8, LoginMeans DEF Sends, managerVars, responseVars, Typed, ClientTypes
<1>9. ASSUME NEW c \in Conns, NEW r \in Requests, NEW text \in ReciptTexts,
             Asking(c, r, text), NEW d \in Conns \ {c}
      PROVE  Good(d)'
  BY <1>1, <1>9 DEF Asking, Sends, Asks, managerVars, responseVars
<1>10. ASSUME NEW c \in Conns, Accept(c) \/ TurnDown(c) \/ CutOff(c), NEW d \in Conns \ {c}
       PROVE  Good(d)'
  <2>1. ClientMesssageQueues'[d] = <<>>
    <3>1. OneServed' /\ serving' = c
      BY <1>10, TakeServes, TakeMeans
    <3> QED
      BY <3>1 DEF OneServed
  <2>2. ClientMesssageQueues[d] = <<>> /\ uplink'[d] = uplink[d] /\ UNCHANGED <<asked, receipts>>
    BY <1>10, TakeServes, TakeMeans
  <2>3. link'[d] = link[d]
    BY <1>10, TakeServes DEF Typed, ClientTypes
  <2> QED
    BY <1>1, <2>1, <2>2, <2>3
<1>11. ASSUME CarryOutFrame \/ CarryOutError \/ CarryOutDisconnect, NEW d \in Conns \ {serving}
       PROVE  Good(d)'
  <2>1. Carrying
    BY <1>11, CarryFrameMeans, CarryErrorMeans, CarryDisconnectMeans
  <2>2. link' = link \/ link' = [link EXCEPT ![serving] = "down"]
    BY <1>11, CarryFrameMeans, CarryErrorMeans, CarryDisconnectMeans
  <2>3. receipts' = receipts \/ \E text : receipts' = [receipts EXCEPT ![serving] = Append(@, text)]
    <3>1. CASE CarryOutFrame
      BY <3>1, CarryFrameMeans
    <3>2. CASE CarryOutError \/ CarryOutDisconnect
      BY <3>2, CarryErrorMeans, CarryDisconnectMeans
    <3> QED
      BY <1>11, <3>1, <3>2
  <2>4. link'[d] = link[d] /\ receipts'[d] = receipts[d]
    BY <2>2, <2>3 DEF Typed, ClientTypes
  <2> QED
    BY <1>1, <2>1, <2>4 DEF Carrying
<1>12. CASE Idle
  BY <1>1, <1>12 DEF Idle, Told, responseVars
\* The client whose commands are carried out.
<1> PICK c \in Conns : c = serving
  BY DEF Typed, ServerTypes
<1>13. /\ Len(receipts[c]) \in Nat /\ Len(asked[c]) \in Nat /\ Len(uplink[c]) \in Nat
       /\ handled(c) \in Int /\ handled(c) + Len(uplink[c]) = Len(asked[c])
  BY Lengths
<1>14. Carrying => handled(c)' = handled(c) /\ UNCHANGED <<uplink, asked>>
  BY DEF Carrying, handled
<1>15. ASSUME CarryOutFrame
       PROVE  Good(c)'
  <2>1. Carrying /\ UNCHANGED <<link>>
    BY <1>15, CarryFrameMeans
  <2>2. CASE Welcome(c) /\ Rest(c)' /\ UNCHANGED <<receipts>>
    <3>1. /\ ~receipt_due(c) /\ ~refused(c) /\ ~receipt_due(c)' /\ ~refused(c)'
          /\ link[c] # "new"
      BY <1>0, <2>2, LastFrames DEF Welcome, Rest, receipt_due, refused
    <3> QED
      BY <1>0, <1>14, <2>1, <2>2, <3>1
  <2>3. ASSUME NEW t \in Topics, NEW text \in ReciptTexts,
               ClientMesssageQueues[c] = <<MessageFrame(c, t), ReciptFrame(c, text)>>,
               ClientMesssageQueues'[c] = <<ReciptFrame(c, text)>>,
               UNCHANGED <<receipts>>
        PROVE  Good(c)'
    <3>1. /\ receipt_due(c) /\ ~refused(c) /\ receipt_due(c)' /\ ~refused(c)'
          /\ link[c] # "new"
          /\ Last(ClientMesssageQueues'[c]).text = Last(ClientMesssageQueues[c]).text
      BY <1>0, <2>3, LastFrames DEF receipt_due, refused
    <3> QED
      BY <1>0, <1>14, <2>1, <2>3, <3>1
  <2>4. ASSUME NEW text \in ReciptTexts,
               ClientMesssageQueues[c] = <<ReciptFrame(c, text)>>, Rest(c)',
               receipts' = [receipts EXCEPT ![c] = Append(@, text)]
        PROVE  Good(c)'
    <3>1. /\ receipt_due(c) /\ link[c] # "new" /\ Last(ClientMesssageQueues[c]).text = text
          /\ ~receipt_due(c)' /\ ~refused(c)'
      BY <1>0, <2>4, LastFrames DEF receipt_due, refused, Rest
    <3>2. Len(receipts[c]) + 1 = handled(c) /\ asked[c][handled(c)] = text
      BY <1>0, <3>1
    <3>3. /\ Len(receipts'[c]) = Len(receipts[c]) + 1
          /\ \A i \in 1 .. Len(receipts[c]) : receipts'[c][i] = receipts[c][i]
          /\ receipts'[c][Len(receipts[c]) + 1] = text
      <4>1. receipts[c] \in Seq(ReciptTexts) /\ receipts'[c] = Append(receipts[c], text)
        BY <2>4 DEF Typed, ClientTypes
      <4> QED
        BY <4>1, AppendProperties
    <3>4. Len(receipts'[c]) = handled(c)' /\ Len(receipts'[c]) <= Len(asked'[c])
      BY <1>13, <1>14, <2>1, <3>2, <3>3
    <3>5. ASSUME NEW i \in 1 .. Len(receipts'[c])
          PROVE  receipts'[c][i] = asked'[c][i]
      <4>1. i \in 1 .. Len(receipts[c]) \/ i = Len(receipts[c]) + 1
        BY <1>13, <3>3
      <4>2. CASE i \in 1 .. Len(receipts[c])
        BY <1>0, <1>14, <2>1, <3>3, <4>2
      <4>3. CASE i = Len(receipts[c]) + 1
        BY <1>14, <2>1, <3>2, <3>3, <4>3
      <4> QED
        BY <4>1, <4>2, <4>3
    <3> QED
      BY <2>1, <3>1, <3>4, <3>5
  <2>5. serving' = c
    BY <2>1 DEF Carrying
  <2> QED
    BY <1>15, <2>2, <2>3, <2>4, <2>5, CarryFrameMeans DEF Rest
<1>16. ASSUME CarryOutDisconnect
       PROVE  Good(c)'
  <2>1. /\ Carrying /\ link' = [link EXCEPT ![c] = "down"]
        /\ UNCHANGED <<receipts, ClientMesssageQueues>>
    BY <1>16, CarryDisconnectMeans
  <2>2. link'[c] = "down" /\ receipt_due(c)' = receipt_due(c) /\ refused(c)' = refused(c)
    BY <2>1 DEF receipt_due, refused, Typed, ClientTypes
  <2> QED
    BY <1>0, <1>14, <2>1, <2>2
<1>17. ASSUME CarryOutError
       PROVE  Good(c)'
  <2>1. /\ Carrying /\ link' = [link EXCEPT ![c] = "down"] /\ Rest(c)'
        /\ UNCHANGED <<receipts>>
    BY <1>17, CarryErrorMeans DEF Carrying, Rest
  <2>2. link'[c] = "down" /\ ~receipt_due(c)' /\ ~refused(c)'
    BY <2>1 DEF receipt_due, refused, Typed, ClientTypes, Rest
  <2> QED
    BY <1>0, <1>14, <2>1, <2>2
<1>18. CASE CarryOutFrame \/ CarryOutError \/ CarryOutDisconnect
  BY <1>11, <1>15, <1>16, <1>17, <1>18 DEF Told
<1>19. ASSUME NEW b \in Conns, Accept(b) \/ TurnDown(b) \/ CutOff(b)
       PROVE  Told'
  BY <1>5, <1>6, <1>7, <1>10, <1>19 DEF Told
<1>20. ASSUME NEW b \in Conns, Login(b)
       PROVE  Told'
  BY <1>2, <1>8, <1>20 DEF Told
<1>21. ASSUME NEW b \in Conns, NEW r \in Requests, NEW text \in ReciptTexts,
              Asking(b, r, text)
       PROVE  Told'
  BY <1>3, <1>9, <1>21 DEF Told
<1> QED
  BY <1>12, <1>18, <1>19, <1>20, <1>21, StepCases

-----------------------------------------------------------------------------
(* The ids stay apart.                                                      *)

\* The joins and exits in the uplinks were there before, perhaps one place
\* further back.
Shifted(shift) ==
    \A d \in Conns : \A i \in 1 .. Len(uplink'[d]) :
      subscribing(d, i)' \/ exiting(d, i)' =>
      /\ i + shift[d] \in 1 .. Len(uplink[d])
      /\ uplink'[d][i] = uplink[d][i + shift[d]]

LEMMA ShiftedIds ==
    ASSUME NEW shift \in [Conns -> 0 .. 1], Shifted(shift),
           UNCHANGED <<drawn, topic_idByClient_map>>
    PROVE  /\ ExitsOnce => ExitsOnce'
           /\ MapsApart => MapsApart'
           /\ JoinsOnce /\ (\A c \in Conns : \A i \in 1 .. Len(uplink'[c]) :
                 subscribing(c, i)' /\ Unused(uplink'[c][i].id) => Unused(uplink[c][i].id)')
              => JoinsOnce'
<1>1. ASSUME NEW d \in Conns, NEW i \in 1 .. Len(uplink'[d]),
             subscribing(d, i)' \/ exiting(d, i)'
      PROVE  /\ i + shift[d] \in 1 .. Len(uplink[d])
             /\ uplink'[d][i] = uplink[d][i + shift[d]]
             /\ subscribing(d, i)' = subscribing(d, i + shift[d])
             /\ exiting(d, i)' = exiting(d, i + shift[d])
  <2>1. /\ i + shift[d] \in 1 .. Len(uplink[d])
        /\ uplink'[d][i] = uplink[d][i + shift[d]]
    BY <1>1 DEF Shifted
  <2> QED
    BY <2>1 DEF subscribing, exiting
<1>2. ASSUME NEW d \in Conns, NEW i \in 1 .. Len(uplink'[d]), NEW j \in 1 .. Len(uplink'[d]),
             i + shift[d] = j + shift[d]
      PROVE  i = j
  BY <1>2
<1>3. ASSUME ExitsOnce
      PROVE  ExitsOnce'
  <2>1. ASSUME NEW c \in Conns, NEW i \in 1 .. Len(uplink'[c]), exiting(c, i)'
        PROVE  uplink'[c][i].id \in drawn'
    BY <1>1, <1>3, <2>1 DEF ExitsOnce
  <2>2. ASSUME NEW c \in Conns, NEW i \in 1 .. Len(uplink'[c]), exiting(c, i)',
               NEW d \in Conns, NEW j \in 1 .. Len(uplink'[d]), exiting(d, j)',
               uplink'[d][j].id = uplink'[c][i].id
        PROVE  d = c /\ j = i
    <3>1. /\ exiting(c, i + shift[c]) /\ exiting(d, j + shift[d])
          /\ i + shift[c] \in 1 .. Len(uplink[c]) /\ j + shift[d] \in 1 .. Len(uplink[d])
          /\ uplink[d][j + shift[d]].id = uplink[c][i + shift[c]].id
      BY <1>1, <2>2
    <3>2. d = c /\ j + shift[d] = i + shift[c]
      BY <1>3, <3>1 DEF ExitsOnce
    <3> QED
      BY <1>2, <3>2
  <2> QED
    BY <2>1, <2>2 DEF ExitsOnce
<1>4. ASSUME MapsApart
      PROVE  MapsApart'
  <2>1. ASSUME NEW c \in Conns, NEW t \in Topics, topic_idByClient_map[c][t] # NoId,
               NEW d \in Conns, NEW i \in 1 .. Len(uplink'[d]), exiting(d, i)'
        PROVE  uplink'[d][i].id # topic_idByClient_map[c][t]
    BY <1>1, <1>4, <2>1 DEF MapsApart
  <2> QED
    BY <1>4, <2>1 DEF MapsApart
<1>5. ASSUME JoinsOnce, \A c \in Conns : \A i \in 1 .. Len(uplink'[c]) :
                 subscribing(c, i)' /\ Unused(uplink'[c][i].id) => Unused(uplink[c][i].id)'
      PROVE  JoinsOnce'
  <2>1. ASSUME NEW c \in Conns, NEW i \in 1 .. Len(uplink'[c]), subscribing(c, i)'
        PROVE  uplink'[c][i].id \in drawn' /\ Unused(uplink[c][i].id)'
    BY <1>1, <1>5, <2>1 DEF JoinsOnce
  <2>2. ASSUME NEW c \in Conns, NEW i \in 1 .. Len(uplink'[c]), subscribing(c, i)',
               NEW d \in Conns, NEW j \in 1 .. Len(uplink'[d]), subscribing(d, j)',
               uplink'[d][j].id = uplink'[c][i].id
        PROVE  d = c /\ j = i
    <3>1. /\ subscribing(c, i + shift[c]) /\ subscribing(d, j + shift[d])
          /\ i + shift[c] \in 1 .. Len(uplink[c]) /\ j + shift[d] \in 1 .. Len(uplink[d])
          /\ uplink[d][j + shift[d]].id = uplink[c][i + shift[c]].id
      BY <1>1, <2>2
    <3>2. d = c /\ j + shift[d] = i + shift[c]
      BY <1>5, <3>1 DEF JoinsOnce
    <3> QED
      BY <1>2, <3>2
  <2> QED
    BY <2>1, <2>2 DEF JoinsOnce
<1> QED
  BY <1>3, <1>4, <1>5

\* A request that is neither a join nor an exit changes nothing either.
LEMMA OtherRequests ==
    ASSUME Typed, NEW c \in Conns, NEW r \in Requests, Sends(c, r),
           r.kind \notin {"SUBSCRIBE", "UNSUBSCRIBE"},
           UNCHANGED <<drawn, topic_idByClient_map>>, IdsApart
    PROVE  IdsApart'
<1>1. PICK shift \in [Conns -> 0 .. 1] : \A d \in Conns : shift[d] = 0
  <2> WITNESS [d \in Conns |-> 0] \in [Conns -> 0 .. 1]
  <2> QED
    OBVIOUS
<1>2. ASSUME NEW d \in Conns, NEW i \in 1 .. Len(uplink'[d]),
             subscribing(d, i)' \/ exiting(d, i)'
      PROVE  i \in 1 .. Len(uplink[d]) /\ uplink'[d][i] = uplink[d][i]
  <2>1. CASE d # c
    BY <2>1 DEF Sends
  <2>2. CASE d = c
    <3>1. i # Len(uplink[c]) + 1
      BY <1>2, <2>2 DEF Sends, subscribing, exiting
    <3>2. i \in 1 .. Len(uplink[c])
      BY <2>2, <3>1, Lengths DEF Sends
    <3> QED
      BY <2>2, <3>2 DEF Sends
  <2> QED
    BY <2>1, <2>2
<1>3. Shifted(shift)
  BY <1>1, <1>2 DEF Shifted
<1>4. UNCHANGED topicVars
  BY DEF Sends, managerVars
<1>5. NewIdsUnused'
  BY <1>4 DEF IdsApart, NewIdsUnused, Unused, topicVars
<1>6. \A d \in Conns : \A i \in 1 .. Len(uplink'[d]) :
        Unused(uplink'[d][i].id) => Unused(uplink[d][i].id)'
  BY <1>4 DEF Unused, topicVars
<1> QED
  BY <1>3, <1>5, <1>6, ShiftedIds DEF IdsApart

LEMMA ExitIds ==
    ASSUME Typed, IdsApart, NEW c \in Conns, NEW t \in Topics, Exit(c, t),
           Sends(c, Request("UNSUBSCRIBE", NoTopic, topic_idByClient_map[c][t]))
    PROVE  IdsApart'
<1> DEFINE m == topic_idByClient_map[c][t]
<1>0. PICK n \in Nat : n = Len(uplink[c])
  BY Lengths
<1>1. /\ \A d \in Conns \ {c} : topic_idByClient_map'[d] = topic_idByClient_map[d]
      /\ \A u \in Topics \ {t} : topic_idByClient_map'[c][u] = topic_idByClient_map[c][u]
      /\ topic_idByClient_map'[c][t] = NoId /\ UNCHANGED <<drawn>>
  BY ExitMeans
<1>2. UNCHANGED topicVars
  BY DEF Sends, managerVars
<1>3. /\ Len(uplink'[c]) = n + 1
      /\ uplink'[c][n + 1].kind = "UNSUBSCRIBE" /\ uplink'[c][n + 1].id = m
      /\ \A i \in 1 .. n : uplink'[c][i] = uplink[c][i]
      /\ \A d \in Conns \ {c} : uplink'[d] = uplink[d]
  BY <1>0 DEF Sends, Request
<1> HIDE DEF m
<1>4. ASSUME NEW d \in Conns, NEW i \in 1 .. Len(uplink'[d])
      PROVE  \/ d = c /\ i = n + 1 /\ ~subscribing(d, i)'
             \/ /\ i \in 1 .. Len(uplink[d]) /\ uplink'[d][i] = uplink[d][i]
                /\ subscribing(d, i)' = subscribing(d, i)
                /\ exiting(d, i)' = exiting(d, i)
  <2>1. CASE d # c
    BY <1>3, <2>1 DEF subscribing, exiting
  <2>2. CASE d = c /\ i = n + 1
    BY <1>3, <2>2 DEF subscribing
  <2>3. CASE d = c /\ i # n + 1
    <3>1. i \in 1 .. n /\ i \in 1 .. Len(uplink[d])
      BY <1>0, <1>3, <2>3
    <3>2. uplink'[d][i] = uplink[d][i]
      BY <1>3, <2>3, <3>1
    <3> QED
      BY <3>1, <3>2 DEF subscribing, exiting
  <2> QED
    BY <2>1, <2>2, <2>3
<1>5. NewIdsUnused'
  BY <1>1, <1>2 DEF IdsApart, NewIdsUnused, Unused, topicVars
<1>6. JoinsOnce'
  <2>1. ASSUME NEW d \in Conns, NEW i \in 1 .. Len(uplink'[d]), subscribing(d, i)'
        PROVE  i \in 1 .. Len(uplink[d]) /\ uplink'[d][i] = uplink[d][i] /\ subscribing(d, i)
    BY <1>4, <2>1
  <2>3. ASSUME NEW d \in Conns, NEW i \in 1 .. Len(uplink'[d]), subscribing(d, i)'
        PROVE  uplink'[d][i].id \in drawn' /\ Unused(uplink[d][i].id)'
    BY <1>1, <1>2, <2>1, <2>3 DEF IdsApart, JoinsOnce, Unused, topicVars
  <2>4. ASSUME NEW a \in Conns, NEW i \in 1 .. Len(uplink'[a]), subscribing(a, i)',
               NEW d \in Conns, NEW j \in 1 .. Len(uplink'[d]), subscribing(d, j)',
               uplink'[d][j].id = uplink'[a][i].id
        PROVE  d = a /\ j = i
    <3>1. /\ subscribing(a, i) /\ subscribing(d, j) /\ uplink[d][j].id = uplink[a][i].id
          /\ i \in 1 .. Len(uplink[a]) /\ j \in 1 .. Len(uplink[d])
      BY <2>1, <2>4
    <3> QED
      BY <3>1 DEF IdsApart, JoinsOnce
  <2> QED
    BY <2>3, <2>4 DEF JoinsOnce
<1>7. m # NoId => /\ m \in drawn
                  /\ \A d \in Conns : \A i \in 1 .. Len(uplink[d]) :
                        exiting(d, i) => uplink[d][i].id # m
                  /\ \A d \in Conns, u \in Topics :
                        topic_idByClient_map[d][u] = m => d = c /\ u = t
  BY DEF IdsApart, MapsApart, m
<1>8. ExitsOnce'
  <2>1. ASSUME NEW d \in Conns, NEW i \in 1 .. Len(uplink'[d]), exiting(d, i)'
        PROVE  \/ d = c /\ i = n + 1 /\ uplink'[d][i].id = m /\ m # NoId
               \/ /\ i \in 1 .. Len(uplink[d]) /\ uplink'[d][i] = uplink[d][i] /\ exiting(d, i)
                  /\ uplink'[d][i].id \in drawn
                  /\ m # NoId => uplink'[d][i].id # m
    <3>1. CASE d = c /\ i = n + 1
      BY <1>3, <2>1, <3>1 DEF exiting
    <3>2. CASE ~(d = c /\ i = n + 1)
      BY <1>4, <1>7, <2>1, <3>2 DEF IdsApart, ExitsOnce
    <3> QED
      BY <3>1, <3>2
  <2>2. ASSUME NEW d \in Conns, NEW i \in 1 .. Len(uplink'[d]), exiting(d, i)'
        PROVE  uplink'[d][i].id \in drawn'
    BY <1>1, <1>7, <2>1, <2>2
  <2>3. ASSUME NEW a \in Conns, NEW i \in 1 .. Len(uplink'[a]), exiting(a, i)',
               NEW d \in Conns, NEW j \in 1 .. Len(uplink'[d]), exiting(d, j)',
               uplink'[d][j].id = uplink'[a][i].id
        PROVE  d = a /\ j = i
    <3>1. \/ a = c /\ i = n + 1 /\ d = c /\ j = n + 1
          \/ /\ exiting(a, i) /\ exiting(d, j) /\ uplink[d][j].id = uplink[a][i].id
             /\ i \in 1 .. Len(uplink[a]) /\ j \in 1 .. Len(uplink[d])
      BY <2>1, <2>3
    <3> QED
      BY <3>1 DEF IdsApart, ExitsOnce
  <2> QED
    BY <2>2, <2>3 DEF ExitsOnce
<1>9. MapsApart'
  <2>1. ASSUME NEW d \in Conns, NEW u \in Topics, topic_idByClient_map'[d][u] # NoId
        PROVE  /\ topic_idByClient_map'[d][u] = topic_idByClient_map[d][u]
               /\ topic_idByClient_map[d][u] # m
    <3>1. ~(d = c /\ u = t)
      BY <1>1, <2>1
    <3>2. topic_idByClient_map'[d][u] = topic_idByClient_map[d][u]
      BY <1>1, <3>1
    <3> QED
      BY <1>7, <2>1, <3>1, <3>2
  <2>2. ASSUME NEW a \in Conns, NEW u \in Topics, topic_idByClient_map'[a][u] # NoId,
               NEW d \in Conns, NEW i \in 1 .. Len(uplink'[d]), exiting(d, i)'
        PROVE  uplink'[d][i].id # topic_idByClient_map'[a][u]
    <3>1. CASE d = c /\ i = n + 1
      BY <1>3, <2>1, <2>2, <3>1
    <3>2. CASE ~(d = c /\ i = n + 1)
      <4>1. exiting(d, i) /\ uplink'[d][i] = uplink[d][i] /\ i \in 1 .. Len(uplink[d])
        BY <1>4, <2>2, <3>2
      <4> QED
        BY <2>1, <2>2, <4>1 DEF IdsApart, MapsApart
    <3> QED
      BY <3>1, <3>2
  <2>3. ASSUME NEW a \in Conns, NEW u \in Topics, topic_idByClient_map'[a][u] # NoId
        PROVE  /\ topic_idByClient_map'[a][u] \in drawn'
               /\ \A d \in Conns, v \in Topics :
                    topic_idByClient_map'[d][v] = topic_idByClient_map'[a][u] => d = a /\ v = u
    BY <1>1, <2>1, <2>3 DEF IdsApart, MapsApart
  <2> QED
    BY <2>2, <2>3 DEF MapsApart
<1> QED
  BY <1>5, <1>6, <1>8, <1>9 DEF IdsApart

\* The id that is drawn is new, as long as no id is drawn twice.
LEMMA JoinIds ==
    ASSUME Typed, IdsApart, NEW c \in Conns, NEW t \in Topics, Join(c, t), apart',
           Sends(c, Request("SUBSCRIBE", t, rand_of(second)))
    PROVE  IdsApart'
<1>0. PICK n \in Nat : n = Len(uplink[c])
  BY Lengths
<1>1. PICK s \in SubIds : s = rand_of(second) /\ s # NoId /\ s \notin drawn
  BY JoinMeans
<1>2. /\ \A d \in Conns \ {c} : topic_idByClient_map'[d] = topic_idByClient_map[d]
      /\ \A u \in Topics \ {t} : topic_idByClient_map'[c][u] = topic_idByClient_map[c][u]
      /\ topic_idByClient_map[c][t] = NoId => topic_idByClient_map'[c][t] = s
      /\ topic_idByClient_map[c][t] # NoId =>
           topic_idByClient_map'[c][t] = topic_idByClient_map[c][t]
      /\ drawn' = drawn \cup {s}
  BY <1>1, JoinMeans
<1>3. UNCHANGED topicVars
  BY DEF Sends, managerVars
<1>4. /\ Len(uplink'[c]) = n + 1
      /\ uplink'[c][n + 1].kind = "SUBSCRIBE" /\ uplink'[c][n + 1].id = s
      /\ \A i \in 1 .. n : uplink'[c][i] = uplink[c][i]
      /\ \A d \in Conns \ {c} : uplink'[d] = uplink[d]
  BY <1>0, <1>1 DEF Sends, Request
<1>5. ASSUME NEW d \in Conns, NEW i \in 1 .. Len(uplink'[d])
      PROVE  \/ d = c /\ i = n + 1 /\ ~exiting(d, i)'
             \/ /\ i \in 1 .. Len(uplink[d]) /\ uplink'[d][i] = uplink[d][i]
                /\ subscribing(d, i)' = subscribing(d, i)
                /\ exiting(d, i)' = exiting(d, i)
  <2>1. CASE d # c
    BY <1>4, <2>1 DEF subscribing, exiting
  <2>2. CASE d = c /\ i = n + 1
    BY <1>4, <2>2 DEF exiting
  <2>3. CASE d = c /\ i # n + 1
    <3>1. i \in 1 .. n /\ i \in 1 .. Len(uplink[d])
      BY <1>0, <1>4, <2>3
    <3>2. uplink'[d][i] = uplink[d][i]
      BY <1>4, <2>3, <3>1
    <3> QED
      BY <3>1, <3>2 DEF subscribing, exiting
  <2> QED
    BY <2>1, <2>2, <2>3
<1>6. \A x : Unused(x)' = Unused(x)
  BY <1>3 DEF Unused, topicVars
<1>7. NewIdsUnused' /\ Unused(s)
  BY <1>2, <1>6, <1>1 DEF IdsApart, NewIdsUnused
<1>8. /\ \A d \in Conns : \A i \in 1 .. Len(uplink[d]) :
           subscribing(d, i) \/ exiting(d, i) => uplink[d][i].id \in drawn
      /\ \A d \in Conns, u \in Topics : topic_idByClient_map[d][u] # NoId
                                          => topic_idByClient_map[d][u] \in drawn
  BY DEF IdsApart, JoinsOnce, ExitsOnce, MapsApart
<1>9. JoinsOnce'
  <2>1. ASSUME NEW d \in Conns, NEW i \in 1 .. Len(uplink'[d]), subscribing(d, i)'
        PROVE  \/ d = c /\ i = n + 1 /\ uplink'[d][i].id = s
               \/ /\ i \in 1 .. Len(uplink[d]) /\ uplink'[d][i] = uplink[d][i] /\ subscribing(d, i)
                  /\ uplink'[d][i].id \in drawn /\ Unused(uplink'[d][i].id)
    <3>1. CASE d = c /\ i = n + 1
      BY <1>4, <3>1
    <3>2. CASE ~(d = c /\ i = n + 1)
      BY <1>5, <2>1, <3>2 DEF IdsApart, JoinsOnce
    <3> QED
      BY <3>1, <3>2
  <2>2. ASSUME NEW d \in Conns, NEW i \in 1 .. Len(uplink'[d]), subscribing(d, i)'
        PROVE  uplink'[d][i].id \in drawn' /\ Unused(uplink[d][i].id)'
    <3>1. uplink'[d][i].id \in drawn' /\ Unused(uplink'[d][i].id)
      BY <1>2, <1>7, <2>1, <2>2
    <3> QED
      BY <1>3, <3>1 DEF Unused, topicVars
  <2>3. ASSUME NEW a \in Conns, NEW i \in 1 .. Len(uplink'[a]), subscribing(a, i)',
               NEW d \in Conns, NEW j \in 1 .. Len(uplink'[d]), subscribing(d, j)',
               uplink'[d][j].id = uplink'[a][i].id
        PROVE  d = a /\ j = i
    <3>1. \/ a = c /\ i = n + 1 /\ d = c /\ j = n + 1
          \/ /\ subscribing(a, i) /\ subscribing(d, j) /\ uplink[d][j].id = uplink[a][i].id
             /\ i \in 1 .. Len(uplink[a]) /\ j \in 1 .. Len(uplink[d])
      BY <1>1, <2>1, <2>3
    <3> QED
      BY <3>1 DEF IdsApart, JoinsOnce
  <2> QED
    BY <2>2, <2>3 DEF JoinsOnce
<1>10. ASSUME NEW d \in Conns, NEW i \in 1 .. Len(uplink'[d]), exiting(d, i)'
      PROVE  /\ i \in 1 .. Len(uplink[d]) /\ uplink'[d][i] = uplink[d][i] /\ exiting(d, i)
             /\ uplink'[d][i].id \in drawn'
  BY <1>2, <1>5, <1>8, <1>10
<1>11. ExitsOnce'
  <2>1. ASSUME NEW a \in Conns, NEW i \in 1 .. Len(uplink'[a]), exiting(a, i)',
               NEW d \in Conns, NEW j \in 1 .. Len(uplink'[d]), exiting(d, j)',
               uplink'[d][j].id = uplink'[a][i].id
        PROVE  d = a /\ j = i
    <3>1. /\ exiting(a, i) /\ exiting(d, j) /\ uplink[d][j].id = uplink[a][i].id
          /\ i \in 1 .. Len(uplink[a]) /\ j \in 1 .. Len(uplink[d])
      BY <1>10, <2>1
    <3> QED
      BY <3>1 DEF IdsApart, ExitsOnce
  <2> QED
    BY <1>10, <2>1 DEF ExitsOnce
<1>12. MapsApart'
  <2>1. ASSUME NEW d \in Conns, NEW u \in Topics
        PROVE  \/ d = c /\ u = t /\ topic_idByClient_map'[d][u] = s
               \/ /\ topic_idByClient_map'[d][u] = topic_idByClient_map[d][u]
                  /\ topic_idByClient_map[d][u] # s
    <3>1. topic_idByClient_map[d][u] # s
      BY <1>8, <1>1
    <3>2. CASE d = c /\ u = t
      BY <1>2, <3>1, <3>2
    <3>3. CASE ~(d = c /\ u = t)
      BY <1>2, <3>1, <3>3
    <3> QED
      BY <3>2, <3>3
  <2>2. ASSUME NEW a \in Conns, NEW u \in Topics, topic_idByClient_map'[a][u] # NoId,
               NEW d \in Conns, NEW i \in 1 .. Len(uplink'[d]), exiting(d, i)'
        PROVE  uplink'[d][i].id # topic_idByClient_map'[a][u]
    <3>1. exiting(d, i) /\ uplink'[d][i] = uplink[d][i] /\ i \in 1 .. Len(uplink[d])
      BY <1>10, <2>2
    <3>2. uplink[d][i].id # s
      BY <1>8, <1>1, <3>1
    <3> QED
      BY <2>1, <2>2, <3>1, <3>2 DEF IdsApart, MapsApart
  <2>3. ASSUME NEW a \in Conns, NEW u \in Topics, topic_idByClient_map'[a][u] # NoId
        PROVE  /\ topic_idByClient_map'[a][u] \in drawn'
               /\ \A d \in Conns, v \in Topics :
                    topic_idByClient_map'[d][v] = topic_idByClient_map'[a][u] => d = a /\ v = u
    <3>1. topic_idByClient_map'[a][u] \in drawn'
      BY <1>2, <1>8, <2>1, <2>3
    <3>2. ASSUME NEW d \in Conns, NEW v \in Topics,
                 topic_idByClient_map'[d][v] = topic_idByClient_map'[a][u]
          PROVE  d = a /\ v = u
      <4>1. \/ a = c /\ u = t /\ d = c /\ v = t
            \/ /\ topic_idByClient_map[d][v] = topic_idByClient_map[a][u]
               /\ topic_idByClient_map[a][u] # NoId
        BY <2>1, <2>3, <3>2
      <4> QED
        BY <4>1 DEF IdsApart, MapsApart
    <3> QED
      BY <3>1, <3>2
  <2> QED
    BY <2>2, <2>3 DEF MapsApart
<1> QED
  BY <1>7, <1>9, <1>11, <1>12 DEF IdsApart

\* What handling a request does to the ids that the server did not know.
LEMMA UnusedStays ==
    ASSUME Typed, OneServed, Aligned, NEW c \in Conns,
           Accept(c) \/ TurnDown(c) \/ CutOff(c), NEW x \in SubIds, Unused(x)
    PROVE  Unused(x)' \/ (subscribing(c, 1) /\ x = uplink[c][1].id)
<1>0. TopicTypeOK
  BY DEF Typed, ServerTypes
<1>1. ASSUME UNCHANGED topicVars
      PROVE  Unused(x)'
  BY <1>1 DEF Unused, topicVars
<1>2. ASSUME unsubscribe_user(c)
      PROVE  Unused(x)'
  BY <1>0, <1>2, UnsubscribeUserMeans DEF Unused
<1>3. ASSUME NEW s \in SubIds, user_topic[s] \in Topics, unsubscribe(s)
      PROVE  Unused(x)'
  <2>1. x # s
    BY <1>3, NullAssumption DEF Unused
  <2> QED
    BY <1>0, <1>3, <2>1, UnsubscribeMeans DEF Unused
<1>4. ASSUME take_request(c, "SUBSCRIBE"), request(c).topic \in Topics, request(c).id \in SubIds,
             subscribe(request(c).topic, request(c).id, c)
      PROVE  Unused(x)' \/ (subscribing(c, 1) /\ x = uplink[c][1].id)
  <2>1. subscribing(c, 1) /\ request(c) = uplink[c][1]
    BY <1>4, TakeMeans DEF subscribing
  <2>2. x # request(c).id => Unused(x)'
    BY <1>0, <1>4, SubscribeMeans DEF Unused
  <2> QED
    BY <2>1, <2>2
<1>5. CASE Accept(c)
  BY <1>1, <1>2, <1>3, <1>4, <1>5, AcceptMeans
<1>6. CASE TurnDown(c)
  BY <1>1, <1>2, <1>6, TurnDownMeans
<1>7. CASE CutOff(c)
  BY <1>1, <1>7, CutOffMeans DEF topicVars
<1> QED
  BY <1>5, <1>6, <1>7

LEMMA TakeIds ==
    ASSUME Typed, OneServed, Aligned, IdsApart, NEW c \in Conns,
           Accept(c) \/ TurnDown(c) \/ CutOff(c)
    PROVE  IdsApart'
<1>0. PICK kind \in RequestKinds : take_request(c, kind)
  BY TakeServes
<1>1. /\ UNCHANGED <<drawn, topic_idByClient_map>>
      /\ Len(uplink[c]) \in Nat \ {0} /\ Len(uplink'[c]) = Len(uplink[c]) - 1
      /\ \A i \in 1 .. Len(uplink'[c]) : uplink'[c][i] = uplink[c][i + 1]
      /\ \A d \in Conns \ {c} : uplink'[d] = uplink[d]
  BY <1>0, TakeMeans
<1>2. PICK shift \in [Conns -> 0 .. 1] : \A d \in Conns : shift[d] = IF d = c THEN 1 ELSE 0
  <2> WITNESS [d \in Conns |-> IF d = c THEN 1 ELSE 0] \in [Conns -> 0 .. 1]
  <2> QED
    OBVIOUS
<1>3. ASSUME NEW d \in Conns, NEW i \in 1 .. Len(uplink'[d])
      PROVE  /\ i + shift[d] \in 1 .. Len(uplink[d])
             /\ uplink'[d][i] = uplink[d][i + shift[d]]
             /\ ~(d = c /\ i + shift[d] = 1)
  <2>1. CASE d = c
    <3>1. i + 1 \in 1 .. Len(uplink[c]) /\ i + 1 # 1 /\ shift[d] = 1
      BY <1>1, <1>2, <2>1
    <3> QED
      BY <1>1, <2>1, <3>1
  <2>2. CASE d # c
    <3>1. i + 0 = i /\ shift[d] = 0 /\ uplink'[d] = uplink[d]
      BY <1>1, <1>2, <2>2
    <3> QED
      BY <2>2, <3>1
  <2> QED
    BY <2>1, <2>2
<1>4. Shifted(shift)
  BY <1>3 DEF Shifted
<1>5. drawn \subseteq SubIds /\ 1 \in 1 .. Len(uplink[c])
  BY <1>1 DEF Typed, ClientTypes
<1>6. NewIdsUnused'
  <2>1. ASSUME NEW s \in SubIds, s \notin drawn'
        PROVE  Unused(s)'
    <3>1. Unused(s) /\ (subscribing(c, 1) => uplink[c][1].id # s)
      BY <1>1, <1>5, <2>1 DEF IdsApart, NewIdsUnused, JoinsOnce
    <3> QED
      BY <3>1, UnusedStays
  <2> QED
    BY <2>1 DEF NewIdsUnused
<1>7. ASSUME NEW d \in Conns, NEW i \in 1 .. Len(uplink'[d]), subscribing(d, i)'
      PROVE  Unused(uplink[d][i].id)'
  <2> PICK j \in 1 .. Len(uplink[d]) :
        j = i + shift[d] /\ uplink'[d][i] = uplink[d][j] /\ ~(d = c /\ j = 1)
    BY <1>3
  <2>1. subscribing(d, j)
    BY <1>7 DEF subscribing
  <2>2. uplink[d][j].id \in SubIds /\ Unused(uplink[d][j].id)
    BY <1>5, <2>1 DEF IdsApart, JoinsOnce
  <2>3. ~(subscribing(c, 1) /\ uplink[d][j].id = uplink[c][1].id)
    BY <1>5, <2>1 DEF IdsApart, JoinsOnce
  <2> PICK s \in SubIds : s = uplink[d][j].id
    BY <2>2
  <2>4. Unused(s)'
    BY <2>2, <2>3, UnusedStays
  <2>5. uplink'[d][i].id = s
    OBVIOUS
  <2> QED
    BY <2>4, <2>5 DEF Unused
<1> QED
  BY <1>1, <1>4, <1>6, <1>7, ShiftedIds DEF IdsApart

LEMMA IdsStayApart ==
    ASSUME Typed, OneServed, Aligned, IdsApart, [Next]_vars, apart'
    PROVE  IdsApart'
<1>1. ASSUME UNCHANGED <<topicVars, uplink, drawn, topic_idByClient_map>>
      PROVE  IdsApart'
  BY <1>1 DEF IdsApart, NewIdsUnused, JoinsOnce, ExitsOnce, MapsApart, Unused, subscribing,
              exiting, topicVars
<1>2. ASSUME NEW c \in Conns, Login(c)
      PROVE  IdsApart'
  <2>1. /\ Request("CONNECT", NoTopic, NoId) \in Requests
        /\ Request("CONNECT", NoTopic, NoId).kind = "CONNECT"
    BY DEF Request, Requests, RequestKinds
  <2> QED
    BY <1>2, <2>1, LoginMeans, OtherRequests
<1>3. ASSUME NEW c \in Conns, NEW r \in Requests, NEW text \in ReciptTexts,
             Asking(c, r, text)
      PROVE  IdsApart'
  BY <1>3, JoinIds, ExitIds, OtherRequests DEF Asking
<1>4. CASE CarryOutFrame \/ CarryOutError \/ CarryOutDisconnect
  BY <1>1, <1>4, CarryFrameMeans, CarryErrorMeans, CarryDisconnectMeans DEF Carrying
<1>5. CASE Idle
  BY <1>1, <1>5 DEF Idle
<1> QED
  BY <1>2, <1>3, <1>4, <1>5, StepCases, TakeIds

-----------------------------------------------------------------------------
(* What the ids stand for.                                                  *)

\* Handling a request, and an id that stands for a channel: it still does,
\* unless the request is the exit with that id.
LEMMA KnownStays ==
    ASSUME Typed, OneServed, Aligned, IdsApart, NEW c \in Conns,
           Accept(c) \/ TurnDown(c) \/ CutOff(c),
           NEW x \in SubIds, user_topic[x] \in Topics,
           exiting(c, 1) => uplink[c][1].id # x
    PROVE  /\ user_topic'[x] = user_topic[x]
           /\ \A t \in Topics :
                \/ user_client_id'[t][x] = user_client_id[t][x]
                \/ user_client_id[t][x] = c /\ ~staying(c)'
<1> DEFINE Kept == /\ user_topic'[x] = user_topic[x]
                   /\ \A t \in Topics : user_client_id'[t][x] = user_client_id[t][x]
           KeptByOthers == /\ user_topic'[x] = user_topic[x]
                           /\ \A t \in Topics :
                                \/ user_client_id'[t][x] = user_client_id[t][x]
                                \/ user_client_id[t][x] = c
<1>0. TopicTypeOK
  BY DEF Typed, ServerTypes
<1>1. ASSUME UNCHANGED topicVars
      PROVE  Kept
  BY <1>1 DEF topicVars
<1>2. ASSUME unsubscribe_user(c)
      PROVE  KeptByOthers
  BY <1>0, <1>2, UnsubscribeUserMeans
<1>3. ASSUME take_request(c, "UNSUBSCRIBE"), request(c).id \in SubIds,
             user_topic[request(c).id] \in Topics, unsubscribe(request(c).id)
      PROVE  Kept
  <2>1. request(c) = uplink[c][1] /\ request(c).kind = "UNSUBSCRIBE"
    BY <1>3, TakeMeans
  <2>2. x # request(c).id
    BY <1>3, <2>1, IdFacts DEF exiting
  <2> QED
    BY <1>0, <1>3, <2>2, UnsubscribeMeans
<1>4. ASSUME take_request(c, "SUBSCRIBE"), request(c).topic \in Topics, request(c).id \in SubIds,
             subscribe(request(c).topic, request(c).id, c)
      PROVE  Kept
  <2>1. /\ request(c) = uplink[c][1] /\ request(c).kind = "SUBSCRIBE"
        /\ 1 \in 1 .. Len(uplink[c])
    BY <1>4, TakeMeans
  <2>2. Unused(request(c).id)
    BY <2>1 DEF IdsApart, JoinsOnce, subscribing
  <2>3. x # request(c).id
    BY <2>2, NullAssumption DEF Unused
  <2> QED
    BY <1>0, <1>4, <2>3, SubscribeMeans
<1>5. ASSUME serving' = c, \/ commands' = <<"Error">> \/ commands' = <<"disconnect", "self">>
      PROVE  ~staying(c)'
  <2>1. commands' # <<>> /\ Head(commands') \in {"disconnect", "Error"}
    BY <1>5, ShortSequences
  <2> QED
    BY <1>5, <2>1 DEF staying
<1> HIDE DEF Kept, KeptByOthers
<1>6. CASE Accept(c)
  <2>1. serving' = c
    BY <1>6, TakeServes, TakeMeans
  <2>2. Answered(c, <<"disconnect", "self">>, <<ReciptFrame(c, EmptyText)>>) => ~staying(c)'
    BY <1>5, <2>1 DEF Answered
  <2>3. Kept \/ (KeptByOthers /\ ~staying(c)')
    BY <1>1, <1>2, <1>3, <1>4, <1>6, <2>2, AcceptMeans
  <2> QED
    BY <2>3 DEF Kept, KeptByOthers
<1>7. CASE TurnDown(c)
  <2>1. serving' = c /\ commands' = <<"Error">>
    BY <1>7, TurnDownMeans, TakeMeans DEF Answered
  <2>2. UNCHANGED topicVars \/ unsubscribe_user(c)
    BY <1>7, TurnDownMeans
  <2>3. Kept \/ (KeptByOthers /\ ~staying(c)')
    BY <1>1, <1>2, <1>5, <2>1, <2>2
  <2> QED
    BY <2>3 DEF Kept, KeptByOthers
<1>8. CASE CutOff(c)
  <2>1. Kept
    BY <1>1, <1>8, CutOffMeans DEF topicVars
  <2> QED
    BY <2>1 DEF Kept
<1> QED
  BY <1>6, <1>7, <1>8

\* A join that is handled makes its id stand for the channel.
LEMMA JoinIsEntered ==
    ASSUME Typed, OneServed, Aligned, IdsApart, NEW c \in Conns,
           Accept(c) \/ TurnDown(c) \/ CutOff(c), staying(c)',
           NEW t \in Topics, NEW s \in SubIds, uplink[c][1] = Request("SUBSCRIBE", t, s)
    PROVE  user_topic'[s] = t /\ user_client_id'[t][s] = c
<1>0. TopicTypeOK
  BY DEF Typed, ServerTypes
<1>1. ASSUME NEW kind, take_request(c, kind)
      PROVE  kind = "SUBSCRIBE" /\ 1 \in 1 .. Len(uplink[c]) /\ request(c) = uplink[c][1]
  BY <1>1, TakeMeans DEF Request
<1>2. ~TurnDown(c)
  BY <1>1, TurnDownMeans
<1>3. ~CutOff(c)
  <2>1. ASSUME CutOff(c)
        PROVE  FALSE
    <3>1. link'[c] = "thrown"
      BY <2>1, CutOffMeans DEF Typed, ClientTypes
    <3> QED
      BY <3>1 DEF staying
  <2> QED
    BY <2>1
<1>4. /\ ~take_request(c, "CONNECT") /\ ~take_request(c, "SEND")
      /\ ~take_request(c, "UNSUBSCRIBE") /\ ~take_request(c, "DISCONNECT")
  BY <1>1
<1>5. take_request(c, "SUBSCRIBE") /\ subscribe(request(c).topic, request(c).id, c)
  BY <1>4, <1>2, <1>3, AcceptMeans
<1>6. subscribe(t, s, c)
  BY <1>1, <1>5 DEF Request
<1>7. user_client_id[t][s] = NoConn
  <2>1. subscribing(c, 1) /\ uplink[c][1].id = s /\ 1 \in 1 .. Len(uplink[c])
    BY <1>1, <1>5 DEF subscribing, Request
  <2> QED
    BY <2>1 DEF IdsApart, JoinsOnce, Unused
<1> QED
  BY <1>0, <1>6, <1>7, SubscribeMeans

\* Whoever is staying after a request has been handled was staying before,
\* and what is on its way to join is on its way still, or has joined.
LEMMA StayingOn ==
    ASSUME Typed, OneServed, NEW c \in Conns, Accept(c) \/ TurnDown(c) \/ CutOff(c), Aligned,
           NEW d \in Conns, staying(d)'
    PROVE  staying(d)
<1>1. commands = <<>> /\ link[c] = "up"
  BY TakeServes, TakeMeans
<1>2. d # c => link'[d] = link[d]
  BY TakeServes DEF Typed, ClientTypes
<1> QED
  BY <1>1, <1>2 DEF staying

LEMMA WaysShorten ==
    ASSUME Typed, OneServed, Aligned, IdsApart, NEW c \in Conns,
           Accept(c) \/ TurnDown(c) \/ CutOff(c),
           NEW t \in Topics, NEW s \in SubIds, NEW n \in Nat, n + 1 <= Len(uplink[c]),
           on_its_way(c, t, s, n + 1), staying(c)'
    PROVE  on_its_way(c, t, s, n)' \/ (user_topic'[s] = t /\ user_client_id'[t][s] = c)
<1>1. PICK k \in 1 .. n + 1 : uplink[c][k] = Request("SUBSCRIBE", t, s)
  BY DEF on_its_way
<1>2. CASE k = 1
  BY <1>1, <1>2, JoinIsEntered
<1>3. CASE k # 1
  <2>1. /\ Len(uplink[c]) \in Nat \ {0} /\ Len(uplink'[c]) = Len(uplink[c]) - 1
        /\ \A i \in 1 .. Len(uplink'[c]) : uplink'[c][i] = uplink[c][i + 1]
    BY TakeServes, TakeMeans
  <2>2. k - 1 \in 1 .. Len(uplink'[c]) /\ k - 1 \in 1 .. n /\ (k - 1) + 1 = k
    BY <1>3, <2>1
  <2>3. uplink'[c][k - 1] = Request("SUBSCRIBE", t, s)
    BY <1>1, <2>1, <2>2
  <2> QED
    BY <2>2, <2>3 DEF on_its_way
<1> QED
  BY <1>2, <1>3

\* The client whose commands are carried out stays as long as it did, or not
\* at all.
LEMMA CarryingOn ==
    ASSUME Typed, OneServed, CarryOutFrame \/ CarryOutError \/ CarryOutDisconnect,
           NEW d \in Conns, staying(d)'
    PROVE  /\ staying(d)
           /\ UNCHANGED <<topicVars, topic_idByClient_map, uplink, asked, drawn>>
<1>1. /\ serving \in Conns /\ serving' = serving
      /\ UNCHANGED <<topicVars, topic_idByClient_map, uplink, asked, drawn>>
  BY CarryFrameMeans, CarryErrorMeans, CarryDisconnectMeans
     DEF Carrying, Typed, ServerTypes
<1>2. CASE CarryOutFrame
  <2>1. Head(commands) \in {"self"} \cup Topics /\ UNCHANGED <<link>>
    BY <1>2, CarryFrameMeans DEF CarryOutFrame, carry_out
  <2>2. \A t \in Topics : t # "disconnect" /\ t # "Error"
    BY TopicAssumption DEF ControlWords
  <2>3. Head(commands) \notin {"disconnect", "Error"}
    BY <2>1, <2>2
  <2> QED
    BY <1>1, <2>1, <2>3 DEF staying
<1>3. CASE CarryOutError \/ CarryOutDisconnect
  <2>1. link' = [link EXCEPT ![serving] = "down"]
    BY <1>3, CarryErrorMeans, CarryDisconnectMeans
  <2>2. d # serving /\ link'[d] = link[d]
    BY <1>1, <2>1 DEF staying, Typed, ClientTypes
  <2> QED
    BY <1>1, <2>2 DEF staying
<1> QED
  BY <1>2, <1>3

\* Nothing has happened to what the map and the exits of a client stand for.
LEMMA FitUnchanged ==
    ASSUME NEW d \in Conns, ExitsFit, MapsFit, staying(d)' => staying(d),
           uplink'[d] = uplink[d], asked'[d] = asked[d],
           topic_idByClient_map'[d] = topic_idByClient_map[d], UNCHANGED topicVars, staying(d)'
    PROVE  /\ \A i \in 1 .. Len(uplink'[d]) : exiting(d, i)' => ExitFits(d, i)'
           /\ \A t \in Topics : topic_idByClient_map'[d][t] # NoId => EntryFits(d, t)'
<1>1. user_topic' = user_topic /\ user_client_id' = user_client_id
  BY DEF topicVars
<1>2. \A t, s, n : on_its_way(d, t, s, n)' = on_its_way(d, t, s, n)
  BY DEF on_its_way
<1>3. handled(d)' = handled(d) /\ uplink'[d] = uplink[d] /\ asked'[d] = asked[d]
  BY DEF handled
<1>4. \A i : exiting(d, i)' = exiting(d, i)
  BY DEF exiting
<1>5. \A i : ExitFits(d, i) => ExitFits(d, i)'
  BY <1>1, <1>2, <1>3 DEF ExitFits
<1>6. \A i \in 1 .. Len(uplink'[d]) : exiting(d, i)' => ExitFits(d, i)'
  BY <1>4, <1>5 DEF ExitsFit
<1>7. \A t : EntryFits(d, t)' = EntryFits(d, t)
  BY <1>1, <1>2 DEF EntryFits
<1> QED
  BY <1>6, <1>7 DEF ExitsFit, MapsFit

\* A client types something.
LEMMA AskingFits ==
    ASSUME Typed, Aligned, ExitsFit, MapsFit, NEW c \in Conns, NEW r \in Requests,
           NEW text \in ReciptTexts, Asking(c, r, text), staying(c)'
    PROVE  /\ \A i \in 1 .. Len(uplink'[c]) : exiting(c, i)' => ExitFits(c, i)'
           /\ \A t \in Topics : topic_idByClient_map'[c][t] # NoId => EntryFits(c, t)'
<1>0. PICK n \in Nat, a \in Nat : n = Len(uplink[c]) /\ a = Len(asked[c])
  BY Lengths
<1>1. /\ link' = link /\ UNCHANGED <<topicVars, commands, serving>> /\ handled(c)' = handled(c)
      /\ handled(c) \in Int /\ handled(c) + n = a
  BY <1>0, Lengths, AskingCounts DEF Asking, Sends, managerVars, responseVars
<1>2. staying(c)
  BY <1>1 DEF staying
<1>3. /\ Len(uplink'[c]) = n + 1 /\ uplink'[c][n + 1] = r
      /\ \A i \in 1 .. n : uplink'[c][i] = uplink[c][i]
  BY <1>0 DEF Asking, Sends
<1>4. /\ asked'[c][a + 1] = text
      /\ \A i \in 1 .. a : asked'[c][i] = asked[c][i]
  BY <1>0 DEF Asking, Asks
<1>5. user_topic' = user_topic /\ user_client_id' = user_client_id
  BY <1>1 DEF topicVars
<1>6. ASSUME NEW t, NEW s, NEW k \in Nat, k <= n, on_its_way(c, t, s, k)
      PROVE  on_its_way(c, t, s, k)' /\ on_its_way(c, t, s, n + 1)'
  <2> PICK i \in 1 .. k : uplink[c][i] = Request("SUBSCRIBE", t, s)
    BY <1>6 DEF on_its_way
  <2>1. i \in 1 .. n /\ i \in 1 .. n + 1
    BY <1>6
  <2> QED
    BY <1>3, <2>1 DEF on_its_way
<1>7. ASSUME NEW i \in 1 .. n, exiting(c, i)'
      PROVE  ExitFits(c, i)'
  <2>1. exiting(c, i) /\ uplink'[c][i] = uplink[c][i] /\ i \in 1 .. Len(uplink[c])
    BY <1>0, <1>3, <1>7 DEF exiting
  <2>4. i - 1 \in Nat /\ i - 1 <= n
    OBVIOUS
  <2>2. handled(c) + i \in 1 .. a
    <3>1. uplink[c][i].kind # "CONNECT"
      BY <2>1 DEF exiting
    <3>2. handled(c) + i > 0
      BY <2>1, <3>1 DEF Aligned
    <3>3. handled(c) + i <= handled(c) + n /\ handled(c) + i \in Int
      BY <1>1
    <3> QED
      BY <1>1, <3>2, <3>3
  <2> PICK t \in Topics :
        /\ asked[c][handled(c) + i] = Text("Exited channel", t)
        /\ \/ user_topic[uplink[c][i].id] = t
           \/ on_its_way(c, t, uplink[c][i].id, i - 1)
    BY <1>2, <2>1 DEF ExitsFit, ExitFits
  <2>3. asked'[c][handled(c)' + i] = Text("Exited channel", t)
    BY <1>1, <1>4, <2>2
  <2>5. \/ user_topic'[uplink'[c][i].id] = t
        \/ on_its_way(c, t, uplink[c][i].id, i - 1)'
    BY <1>5, <1>6, <2>1, <2>4
  <2> QED
    BY <2>1, <2>3, <2>5 DEF ExitFits, on_its_way
<1>8. ASSUME exiting(c, n + 1)'
      PROVE  ExitFits(c, n + 1)'
  <2>1. \A h \in Int : h + (n + 1) = (h + n) + 1
    OBVIOUS
  <2>2. handled(c)' + (n + 1) = a + 1
    BY <1>1, <2>1
  <2>3. (n + 1) - 1 = n /\ n <= n
    OBVIOUS
  <2>4. handled(c)' + (n + 1) = a + 1 /\ (n + 1) - 1 = n /\ n <= n
    BY <2>2, <2>3
  <2>5. r.kind = "UNSUBSCRIBE" /\ r.id # NoId
    BY <1>3, <1>8 DEF exiting
  <2>6. /\ r.kind \notin {"SEND", "DISCONNECT"}
        /\ \A u, s : r # Request("SUBSCRIBE", u, s)
    BY <2>5 DEF Request
  <2> PICK t \in Topics :
        /\ Exit(c, t) /\ text = Text("Exited channel", t)
        /\ r = Request("UNSUBSCRIBE", NoTopic, topic_idByClient_map[c][t])
    BY <1>8, <2>6 DEF Asking
  <2>7. r.id = topic_idByClient_map[c][t]
    BY DEF Request
  <2>8. EntryFits(c, t)
    BY <1>2, <2>5, <2>7 DEF MapsFit
  <2>9. user_topic[r.id] = t \/ on_its_way(c, t, r.id, n)
    BY <1>0, <2>7, <2>8 DEF EntryFits
  <2>10. \/ user_topic'[uplink'[c][n + 1].id] = t
        \/ on_its_way(c, t, r.id, n)'
    BY <1>3, <1>5, <1>6, <2>9, <2>4
  <2>11. asked'[c][handled(c)' + (n + 1)] = Text("Exited channel", t)
    BY <1>4, <2>4
  <2> QED
    BY <1>3, <2>4, <2>10, <2>11 DEF ExitFits, on_its_way
<1>9. ASSUME NEW t \in Topics, topic_idByClient_map[c][t] # NoId,
             topic_idByClient_map'[c][t] = topic_idByClient_map[c][t]
      PROVE  EntryFits(c, t)'
  <2>1. EntryFits(c, t)
    BY <1>2, <1>9 DEF MapsFit
  <2>2. \/ /\ user_topic[topic_idByClient_map[c][t]] = t
           /\ user_client_id[t][topic_idByClient_map[c][t]] = c
        \/ on_its_way(c, t, topic_idByClient_map[c][t], n)
    BY <1>0, <2>1 DEF EntryFits
  <2>3. on_its_way(c, t, topic_idByClient_map[c][t], n)
          => on_its_way(c, t, topic_idByClient_map[c][t], Len(uplink[c]))'
    <3>1. ASSUME on_its_way(c, t, topic_idByClient_map[c][t], n)
          PROVE  \E i \in 1 .. n + 1 :
                   uplink'[c][i] = Request("SUBSCRIBE", t, topic_idByClient_map[c][t])
      <4> PICK i \in 1 .. n : uplink[c][i] = Request("SUBSCRIBE", t, topic_idByClient_map[c][t])
        BY <3>1 DEF on_its_way
      <4>1. i \in 1 .. n + 1
        OBVIOUS
      <4> QED
        BY <1>3, <4>1
    <3> QED
      BY <1>3, <1>9, <3>1 DEF on_its_way
  <2> QED
    BY <1>5, <1>9, <2>2, <2>3 DEF EntryFits, on_its_way
<1>10. ASSUME NEW t \in Topics, topic_idByClient_map'[c][t] # NoId
       PROVE  EntryFits(c, t)'
  <2>1. ASSUME NEW u \in Topics, Join(c, u), r = Request("SUBSCRIBE", u, rand_of(second)),
               topic_idByClient_map'[c][t] # topic_idByClient_map[c][t]
        PROVE  EntryFits(c, t)'
    <3>1. u = t /\ topic_idByClient_map'[c][t] = rand_of(second)
      BY <2>1, JoinMeans
    <3>2. uplink'[c][n + 1] = Request("SUBSCRIBE", t, topic_idByClient_map'[c][t])
      BY <1>3, <2>1, <3>1
    <3>3. n + 1 \in 1 .. Len(uplink'[c])
      BY <1>3
    <3> QED
      BY <3>2, <3>3 DEF EntryFits, on_its_way
  <2>2. ASSUME NEW u \in Topics, Exit(c, u)
        PROVE  topic_idByClient_map'[c][t] = topic_idByClient_map[c][t]
    <3>1. u # t
      BY <1>10, <2>2, ExitMeans
    <3> QED
      BY <2>2, <3>1, ExitMeans
  <2>3. CASE topic_idByClient_map'[c][t] = topic_idByClient_map[c][t]
    BY <1>9, <1>10, <2>3
  <2> QED
    BY <2>1, <2>2, <2>3 DEF Asking
<1>11. \A i \in 1 .. Len(uplink'[c]) : i \in 1 .. n \/ i = n + 1
  BY <1>3
<1> QED
  BY <1>7, <1>8, <1>10, <1>11

\* Handling a request of c, and the ids of c.
LEMMA TakerFits ==
    ASSUME Typed, OneServed, Aligned, IdsApart, ExitsFit, MapsFit, NEW c \in Conns,
           Accept(c) \/ TurnDown(c) \/ CutOff(c), staying(c)'
    PROVE  /\ \A i \in 1 .. Len(uplink'[c]) : exiting(c, i)' => ExitFits(c, i)'
           /\ \A t \in Topics : topic_idByClient_map'[c][t] # NoId => EntryFits(c, t)'
<1>0. PICK kind : take_request(c, kind)
  BY TakeServes
<1>1. /\ UNCHANGED <<asked, topic_idByClient_map>> /\ uplink[c] \in Seq(Requests)
      /\ Len(uplink[c]) \in Nat \ {0} /\ Len(uplink'[c]) = Len(uplink[c]) - 1
      /\ \A i \in 1 .. Len(uplink'[c]) : uplink'[c][i] = uplink[c][i + 1]
  BY <1>0, TakeMeans
<1>2. staying(c) /\ handled(c)' = handled(c) + 1 /\ handled(c) \in Int
  BY <1>0, StayingOn, TakeCounts, Lengths
<1>3. ASSUME NEW i \in 1 .. Len(uplink'[c]), exiting(c, i)'
      PROVE  ExitFits(c, i)'
  <2>1. i \in Nat \ {0} /\ i <= Len(uplink'[c])
    BY <1>1
  <2>2. /\ i + 1 \in 1 .. Len(uplink[c]) /\ 1 \in 1 .. Len(uplink[c])
        /\ i + 1 # 1 /\ (i + 1) - 1 = i /\ i <= Len(uplink[c])
    BY <1>1, <2>1
  <2>3. handled(c)' + i = handled(c) + (i + 1)
    BY <1>2, <2>1
  <2> PICK n \in Nat : n = i - 1 /\ n + 1 = i
    BY <2>1
  <2>4. /\ i + 1 \in 1 .. Len(uplink[c]) /\ 1 \in 1 .. Len(uplink[c])
        /\ i + 1 # 1 /\ (i + 1) - 1 = i /\ n + 1 <= Len(uplink[c])
        /\ handled(c)' + i = handled(c) + (i + 1)
    BY <2>2, <2>3
  <2>5. exiting(c, i + 1) /\ uplink'[c][i] = uplink[c][i + 1]
    BY <1>1, <1>3 DEF exiting
  <2> PICK s \in SubIds : s = uplink[c][i + 1].id
    BY <2>4, <2>5 DEF IdsApart, ExitsOnce, Typed, ClientTypes
  <2> PICK t \in Topics :
        /\ asked[c][handled(c) + (i + 1)] = Text("Exited channel", t)
        /\ user_topic[s] = t \/ on_its_way(c, t, s, i)
    BY <1>2, <2>4, <2>5 DEF ExitsFit, ExitFits
  <2>6. asked'[c][handled(c)' + i] = Text("Exited channel", t)
    BY <1>1, <2>4
  <2>7. user_topic'[s] = t \/ on_its_way(c, t, s, i - 1)'
    <3>1. CASE user_topic[s] = t
      <4>1. exiting(c, 1) => uplink[c][1].id # s
        BY <2>4, <2>5 DEF IdsApart, ExitsOnce
      <4> QED
        BY <3>1, <4>1, KnownStays
    <3>2. CASE on_its_way(c, t, s, i)
      <4>0. on_its_way(c, t, s, n + 1)
        BY <3>2
      <4>1. on_its_way(c, t, s, n)' \/ (user_topic'[s] = t /\ user_client_id'[t][s] = c)
        BY <2>4, <4>0, WaysShorten
      <4> QED
        BY <4>1
    <3> QED
      BY <3>1, <3>2
  <2> QED
    BY <2>5, <2>6, <2>7 DEF ExitFits, on_its_way
<1>4. ASSUME NEW t \in Topics, topic_idByClient_map'[c][t] # NoId
      PROVE  EntryFits(c, t)'
  <2> PICK s \in SubIds : s = topic_idByClient_map[c][t] /\ topic_idByClient_map'[c][t] = s
    BY <1>1, <1>4 DEF Typed, ClientTypes
  <2>1. \/ user_topic[s] = t /\ user_client_id[t][s] = c
        \/ on_its_way(c, t, s, Len(uplink[c]))
    BY <1>1, <1>2, <1>4 DEF MapsFit, EntryFits
  <2>2. \/ user_topic'[s] = t /\ user_client_id'[t][s] = c
        \/ on_its_way(c, t, s, Len(uplink[c]))'
    <3>1. CASE user_topic[s] = t /\ user_client_id[t][s] = c
      <4>1. exiting(c, 1) => uplink[c][1].id # s
        BY <1>1, <1>4 DEF IdsApart, MapsApart
      <4> QED
        BY <3>1, <4>1, KnownStays
    <3>2. CASE on_its_way(c, t, s, Len(uplink[c]))
      <4>1. PICK n \in Nat : n = Len(uplink'[c]) /\ n + 1 = Len(uplink[c]) /\ n + 1 <= Len(uplink[c])
        BY <1>1
      <4>2. on_its_way(c, t, s, n)' \/ (user_topic'[s] = t /\ user_client_id'[t][s] = c)
        BY <3>2, <4>1, WaysShorten
      <4> QED
        BY <4>1, <4>2 DEF on_its_way
    <3> QED
      BY <2>1, <3>1, <3>2
  <2> QED
    BY <2>2 DEF EntryFits, on_its_way
<1> QED
  BY <1>3, <1>4

\* And the ids of the other clients.
LEMMA OthersFit ==
    ASSUME Typed, OneServed, Aligned, IdsApart, ExitsFit, MapsFit, NEW c \in Conns,
           Accept(c) \/ TurnDown(c) \/ CutOff(c), NEW d \in Conns \ {c}, staying(d)'
    PROVE  /\ \A i \in 1 .. Len(uplink'[d]) : exiting(d, i)' => ExitFits(d, i)'
           /\ \A t \in Topics : topic_idByClient_map'[d][t] # NoId => EntryFits(d, t)'
<1>0. PICK kind : take_request(c, kind)
  BY TakeServes
<1>1. /\ UNCHANGED <<asked, topic_idByClient_map>> /\ uplink'[d] = uplink[d]
      /\ uplink[d] \in Seq(Requests) /\ 1 \in 1 .. Len(uplink[c])
  BY <1>0, TakeMeans DEF Typed, ClientTypes
<1>2. staying(d) /\ handled(d)' = handled(d)
  BY <1>0, StayingOn, TakeCounts
<1>3. \A t, s, n : on_its_way(d, t, s, n)' = on_its_way(d, t, s, n)
  BY <1>1 DEF on_its_way
<1>4. ASSUME NEW i \in 1 .. Len(uplink'[d]), exiting(d, i)'
      PROVE  ExitFits(d, i)'
  <2>1. exiting(d, i) /\ i \in 1 .. Len(uplink[d])
    BY <1>1, <1>4 DEF exiting
  <2> PICK s \in SubIds : s = uplink[d][i].id
    BY <2>1 DEF IdsApart, ExitsOnce, Typed, ClientTypes
  <2> PICK t \in Topics :
        /\ asked[d][handled(d) + i] = Text("Exited channel", t)
        /\ user_topic[s] = t \/ on_its_way(d, t, s, i - 1)
    BY <1>2, <2>1 DEF ExitsFit, ExitFits
  <2>2. user_topic[s] = t => user_topic'[s] = t
    <3>1. exiting(c, 1) => uplink[c][1].id # s
      BY <1>1, <2>1 DEF IdsApart, ExitsOnce
    <3> QED
      BY <3>1, KnownStays
  <2> QED
    BY <1>1, <1>2, <1>3, <2>2 DEF ExitFits
<1>5. ASSUME NEW t \in Topics, topic_idByClient_map'[d][t] # NoId
      PROVE  EntryFits(d, t)'
  <2> PICK s \in SubIds : s = topic_idByClient_map[d][t] /\ topic_idByClient_map'[d][t] = s
    BY <1>1, <1>5 DEF Typed, ClientTypes
  <2>1. \/ user_topic[s] = t /\ user_client_id[t][s] = d
        \/ on_its_way(d, t, s, Len(uplink[d]))
    BY <1>1, <1>2, <1>5 DEF MapsFit, EntryFits
  <2>2. user_topic[s] = t /\ user_client_id[t][s] = d
          => user_topic'[s] = t /\ user_client_id'[t][s] = d
    <3>1. exiting(c, 1) => uplink[c][1].id # s
      BY <1>1, <1>5 DEF IdsApart, MapsApart
    <3> QED
      BY <3>1, KnownStays
  <2> QED
    BY <1>1, <1>3, <2>1, <2>2 DEF EntryFits
<1> QED
  BY <1>4, <1>5

LEMMA FitsStay ==
    ASSUME Typed, OneServed, Aligned, IdsApart, ExitsFit, MapsFit, [Next]_vars
    PROVE  ExitsFit' /\ MapsFit'
<1> DEFINE Good(d) ==
      staying(d) => /\ \A i \in 1 .. Len(uplink[d]) : exiting(d, i) => ExitFits(d, i)
                    /\ \A t \in Topics : topic_idByClient_map[d][t] # NoId => EntryFits(d, t)
<1>1. ASSUME NEW d \in Conns, staying(d)' => staying(d),
             uplink'[d] = uplink[d], asked'[d] = asked[d],
             topic_idByClient_map'[d] = topic_idByClient_map[d], UNCHANGED topicVars
      PROVE  Good(d)'
  BY <1>1, FitUnchanged
<1>2. ASSUME NEW c \in Conns, Login(c), NEW d \in Conns
      PROVE  Good(d)'
  <2>1. /\ UNCHANGED <<topicVars, asked, topic_idByClient_map, commands, serving>>
        /\ link[c] = "new"
        /\ \A b \in Conns \ {c} : link'[b] = link[b] /\ uplink'[b] = uplink[b]
    BY <1>2, LoginMeans DEF Sends, managerVars, responseVars, Typed, ClientTypes
  <2>2. staying(d)' => staying(d)
    <3>1. CASE d = c
      BY <2>1, <3>1 DEF staying
    <3>2. CASE d # c
      BY <2>1, <3>2 DEF staying
    <3> QED
      BY <3>1, <3>2
  <2>3. CASE d # c
    BY <1>1, <2>1, <2>2, <2>3
  <2>4. CASE d = c
    <3>1. /\ Len(uplink'[c]) = 1 /\ uplink'[c][1] = Request("CONNECT", NoTopic, NoId)
          /\ Len(uplink[c]) = 0
      BY <1>2, LoginCounts
    <3>2. \A i \in 1 .. Len(uplink'[c]) : ~exiting(c, i)'
      BY <3>1 DEF exiting, Request
    <3>3. ASSUME NEW t \in Topics, topic_idByClient_map'[c][t] # NoId, staying(c)'
          PROVE  EntryFits(c, t)'
      <4>1. EntryFits(c, t)
        BY <2>1, <2>2, <2>4, <3>3 DEF MapsFit
      <4>2. \A s : ~on_its_way(c, t, s, 0)
        BY DEF on_its_way
      <4>3. /\ user_topic[topic_idByClient_map[c][t]] = t
            /\ user_client_id[t][topic_idByClient_map[c][t]] = c
        BY <3>1, <4>1, <4>2 DEF EntryFits
      <4> QED
        BY <2>1, <4>3 DEF EntryFits, topicVars
    <3> QED
      BY <2>4, <3>2, <3>3
  <2> QED
    BY <2>3, <2>4
<1>3. ASSUME NEW c \in Conns, NEW r \in Requests, NEW text \in ReciptTexts,
             Asking(c, r, text), NEW d \in Conns
      PROVE  Good(d)'
  <2>1. CASE d = c
    BY <1>3, <2>1, AskingFits
  <2>2. CASE d # c
    <3>1. /\ UNCHANGED <<topicVars, commands, serving, link>>
          /\ uplink'[d] = uplink[d] /\ asked'[d] = asked[d]
      BY <1>3, <2>2 DEF Asking, Sends, Asks, managerVars, responseVars
    <3>2. topic_idByClient_map'[d] = topic_idByClient_map[d]
      BY <1>3, <2>2, JoinMeans, ExitMeans DEF Asking
    <3>3. staying(d)' => staying(d)
      BY <3>1 DEF staying
    <3> QED
      BY <1>1, <3>1, <3>2, <3>3
  <2> QED
    BY <2>1, <2>2
<1>4. ASSUME NEW c \in Conns, Accept(c) \/ TurnDown(c) \/ CutOff(c), NEW d \in Conns
      PROVE  Good(d)'
  BY <1>4, TakerFits, OthersFit
<1>5. ASSUME CarryOutFrame \/ CarryOutError \/ CarryOutDisconnect, NEW d \in Conns
      PROVE  Good(d)'
  BY <1>1, <1>5, CarryingOn
<1>6. ASSUME Idle, NEW d \in Conns
      PROVE  Good(d)'
  <2>1. staying(d)' => staying(d)
    BY <1>6 DEF Idle, responseVars, staying
  <2> QED
    BY <1>1, <1>6, <2>1 DEF Idle
<1>7. \A d \in Conns : Good(d)'
  BY <1>2, <1>3, <1>4, <1>5, <1>6, StepCases
<1> QED
  BY <1>7 DEF ExitsFit, MapsFit

-----------------------------------------------------------------------------
(* What the clients can rely on.                                            *)

LEMMA ApartBefore ==
    ASSUME Typed, [Next]_vars, apart'
    PROVE  apart
<1>1. ASSUME NEW c \in Conns, NEW r \in Requests, NEW text \in ReciptTexts, Asking(c, r, text)
      PROVE  apart
  BY <1>1, JoinMeans, ExitMeans DEF Asking
<1>2. CASE CarryOutFrame \/ CarryOutError \/ CarryOutDisconnect
  BY <1>2 DEF CarryOutFrame, CarryOutError, CarryOutDisconnect, carry_out, clientVars
<1>3. ASSUME NEW c \in Conns, Accept(c) \/ TurnDown(c) \/ CutOff(c)
      PROVE  apart
  BY <1>3 DEF Accept, TurnDown, CutOff, take_request
<1>4. ASSUME NEW c \in Conns, Login(c)
      PROVE  apart
  BY <1>4, LoginMeans
<1> QED
  BY <1>1, <1>2, <1>3, <1>4, StepCases DEF Idle

LEMMA InvStays == ChannelsInv /\ [Next]_vars => ChannelsInv'
<1> SUFFICES ASSUME ChannelsInv, [Next]_vars
             PROVE  ChannelsInv'
  OBVIOUS
<1>1. Typed /\ OneServed /\ Aligned /\ Mapped /\ (apart => Apart)
  BY DEF ChannelsInv, Served
<1>2. Typed' /\ OneServed' /\ Aligned' /\ Mapped'
  BY <1>1, TypesStay, OneServedStays, AlignedStays, MappedStays
<1>3. ASSUME apart'
      PROVE  Apart'
  <2>1. Told /\ IdsApart /\ ExitsFit /\ MapsFit
    BY <1>1, <1>3, ApartBefore DEF Apart
  <2> QED
    BY <1>1, <1>3, <2>1, ToldStays, IdsStayApart, FitsStay DEF Apart
<1> QED
  BY <1>2, <1>3 DEF ChannelsInv, Served

THEOREM ChannelsInvariant == Spec => []ChannelsInv
BY InvInitially, InvStays, PTL DEF Spec

\* Where no id was drawn twice, the receipts of a client are those that its
\* requests ask for, in order: the text that generateResponse keeps in
\* recipt_message is always the one of the request at hand.
THEOREM ReceiptsAreOwn == Spec => []OwnReceipts
<1>1. ChannelsInv => OwnReceipts
  <2> SUFFICES ASSUME ChannelsInv, apart, NEW c \in Conns
               PROVE  IsPrefix(receipts[c], asked[c])
    BY DEF OwnReceipts
  <2>1. /\ receipts[c] \in Seq(ReciptTexts) /\ asked[c] \in Seq(ReciptTexts)
        /\ Len(receipts[c]) <= Len(asked[c])
        /\ \A i \in 1 .. Len(receipts[c]) : receipts[c][i] = asked[c][i]
    BY DEF ChannelsInv, Typed, ClientTypes, Apart, Told
  <2> QED
    BY <2>1, PrefixMeans
<1> QED
  BY <1>1, ChannelsInvariant, PTL

\* A client that has an answer to all it asked for, and is not refused: what it
\* was told about its channels stands in its map and at the server.
LEMMA SettledMeans ==
    ASSUME ChannelsInv, apart, NEW c \in Conns, settled(c), NEW t \in member_of(c)
    PROVE  /\ t \in Topics /\ topic_idByClient_map[c][t] \in SubIds
           /\ user_topic[topic_idByClient_map[c][t]] = t
           /\ user_client_id[t][topic_idByClient_map[c][t]] = c
<1>0. Typed /\ OneServed /\ Aligned /\ Mapped /\ Told /\ MapsFit
  BY DEF ChannelsInv, Served, Apart
<1>1. link[c] = "up" /\ receipts[c] = asked[c]
  BY DEF settled
<1>2. /\ t \in Topics
      /\ \E i \in 1 .. Len(asked[c]) :
           /\ asked[c][i] = Text("Joined channel", t)
           /\ \A j \in i + 1 .. Len(asked[c]) : asked[c][j] # Text("Exited channel", t)
  <2>1. DOMAIN asked[c] = 1 .. Len(asked[c])
    BY <1>0 DEF Typed, ClientTypes
  <2> QED
    BY <1>1, <2>1 DEF member_of
<1>3. topic_idByClient_map[c][t] # NoId /\ topic_idByClient_map[c][t] \in SubIds
  BY <1>0, <1>2 DEF Mapped, Typed, ClientTypes
<1>4. /\ Len(asked[c]) \in Nat \ {0} /\ Len(uplink[c]) \in Nat /\ handled(c) \in Int
      /\ handled(c) + Len(uplink[c]) = Len(asked[c])
  <2>1. /\ Len(asked[c]) \in Nat /\ Len(uplink[c]) \in Nat /\ handled(c) \in Int
        /\ handled(c) + Len(uplink[c]) = Len(asked[c])
    BY <1>0, Lengths
  <2>2. Len(asked[c]) # 0
    <3>1. PICK i \in 1 .. Len(asked[c]) : TRUE
      BY <1>2
    <3> QED
      BY <2>1, <3>1
  <2> QED
    BY <2>1, <2>2
<1>5. ~receipt_due(c) /\ ~refused(c)
  <2>1. Len(receipts[c]) + 1 # handled(c)
    BY <1>1, <1>4
  <2> QED
    BY <1>0, <2>1 DEF Told
<1>6. Len(uplink[c]) = 0
  <2>1. \/ Len(receipts[c]) = handled(c)
        \/ handled(c) = -1 /\ receipts[c] = <<>>
    BY <1>0, <1>1, <1>5 DEF Told
  <2>2. receipts[c] # <<>>
    BY <1>1, <1>4
  <2> QED
    BY <1>1, <1>4, <2>1, <2>2
<1>7. staying(c)
  <2>1. CASE serving = c
    <3>1. Rest(c) \/ Welcome(c)
      <4>1. ~Broadcast(c)
        BY <1>5, LastFrames DEF Broadcast, receipt_due
      <4>2. ~Receipt(c)
        BY <1>5, LastFrames DEF Receipt, receipt_due
      <4>3. ~Farewell(c)
        BY <1>5, LastFrames DEF Farewell, receipt_due
      <4>4. ~Refusal(c)
        BY <1>5, LastFrames DEF Refusal, refused
      <4> QED
        BY <1>0, <2>1, <4>1, <4>2, <4>3, <4>4 DEF OneServed
    <3>2. commands = <<>> \/ commands = <<"self">>
      BY <3>1 DEF Rest, Welcome
    <3> QED
      BY <1>1, <3>2, ShortSequences DEF staying
  <2>2. CASE serving # c
    BY <1>1, <2>2 DEF staying
  <2> QED
    BY <2>1, <2>2
<1>8. EntryFits(c, t)
  BY <1>0, <1>2, <1>3, <1>7 DEF MapsFit
<1>9. ~on_its_way(c, t, topic_idByClient_map[c][t], Len(uplink[c]))
  BY <1>6 DEF on_its_way
<1> QED
  BY <1>2, <1>3, <1>8, <1>9 DEF EntryFits

\* Where no id was drawn twice, a client that has been told it joined a
\* channel, and not that it left, is one of its subscribers (Topic.subscribe,
\* TopicManager.unsubscribe): no other client's exit takes it out.
THEOREM MembersSubscribed == Spec => []ApartMembersSubscribed
<1>1. ChannelsInv => ApartMembersSubscribed
  <2> SUFFICES ASSUME ChannelsInv, apart, NEW c \in Conns, settled(c), NEW t \in member_of(c)
               PROVE  c \in subscribers(t)
    BY DEF ApartMembersSubscribed, member_of
  <2>1. /\ topic_idByClient_map[c][t] \in SubIds
        /\ user_client_id[t][topic_idByClient_map[c][t]] = c
    BY SettledMeans
  <2> QED
    BY <2>1, IdFacts DEF subscribers, get_list_of_users_subscribed_to_topic
<1> QED
  BY <1>1, ChannelsInvariant, PTL

\* And the id in the client's own map stands for that channel at the server,
\* so that its exit leaves the channel it names (User.unsubscribeTopic,
\* TopicManager.unsubscribe).
THEOREM ExitsKnown == Spec => []ExitsAreKnown
<1>1. ChannelsInv => ExitsAreKnown
  BY SettledMeans DEF ExitsAreKnown
<1> QED
  BY <1>1, ChannelsInvariant, PTL
=============================================================================
