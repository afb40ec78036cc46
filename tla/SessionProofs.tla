---------------------------- MODULE SessionProofs ----------------------------
(***************************************************************************)
(* Proofs about ClientSession, for any number of commands, events and      *)
(* reports of others and whatever may go wrong: the counter of expected    *)
(* frames is short by the copies of others' reports until one of the       *)
(* client's own is sent, the socket follows the flags, nothing goes out    *)
(* behind a DISCONNECT, and an orderly logout comes to its end only where  *)
(* no report of another came.                                              *)
(***************************************************************************)
EXTENDS ClientSession, FiniteSetTheorems, FunctionTheorems,
        SequenceTheorems, TLAPS

\* The types; the reader is past its look at the counter only while a frame is
\* expected; and there are ids for as many requests as may still be typed.
SessionTypes ==
    /\ TypeOK
    /\ reader \in {"reading", "holding"} => waiting_message > 0
    /\ recipt_id <= typed * (MaxEvents + 1)

\* The kinds of request that are answered with a receipt, and all that count.
Asking == {"SUBSCRIBE", "UNSUBSCRIBE", "SEND", "DISCONNECT"}
Counted == {"CONNECT"} \cup Asking

\* The flags of the two threads: without a socket there is nothing under way,
\* who is logged in has one, and the keyboard is shut only after a logout.
Flags ==
    /\ socket = "closed" <=> server = "none"
    /\ socket = "closed" => uplink = <<>> /\ downlink = <<>> /\ reader # "holding"
    /\ ~logout => socket = "open"
    /\ waiting_for_logout => logout
    /\ SocketFollowsFlags

\* What has gone wrong stays known.  An orderly server answers errors to nobody
\* and leaves no client that has not logged out.
Orderly ==
    /\ reader = "draining" => thrown
    /\ thrown => ~orderly
    /\ orderly => /\ \A i \in 1 .. Len(downlink) : downlink[i].kind # "ERROR"
                  /\ held.kind # "ERROR"
                  /\ server \in {"leaving", "gone"} => waiting_for_logout

\* A DISCONNECT is the last request and carries the id the client waits for.
LastRequest ==
    /\ NothingAfterDisconnect
    /\ \A i \in 1 .. Len(uplink) : uplink[i].kind = "DISCONNECT" =>
          waiting_for_logout /\ uplink[i].id = disconnect_id

\* A receipt is for a request that was made; its id is below the next one.
KnownIds ==
    /\ \A i \in 1 .. Len(uplink) :
          uplink[i].kind \in Asking => uplink[i].id \in 0 .. recipt_id - 1
    /\ \A i \in 1 .. Len(downlink) :
          downlink[i].kind = "RECIPT" => downlink[i].id \in 0 .. recipt_id - 1
    /\ held.kind = "RECIPT" => held.id \in 0 .. recipt_id - 1

awaited(id) == waiting_for_logout /\ id = disconnect_id

\* The id of the DISCONNECT is no other request's, and its receipt is the last
\* frame there is, behind which the server writes nothing.
LastReceipt ==
    /\ disconnect_id # NoId => waiting_for_logout \/ socket = "closed"
    /\ \A i \in 1 .. Len(uplink) :
          uplink[i].kind \in Asking /\ awaited(uplink[i].id) =>
              uplink[i].kind = "DISCONNECT"
    /\ \A i \in 1 .. Len(downlink) :
          downlink[i].kind = "RECIPT" /\ awaited(downlink[i].id) =>
              i = Len(downlink) /\ uplink = <<>> /\ server \in {"leaving", "gone"}
    /\ held.kind = "RECIPT" /\ awaited(held.id) =>
          downlink = <<>> /\ uplink = <<>> /\ server \in {"leaving", "gone"}

\* What is proved to be kept by every step.
Ways == SessionTypes /\ Flags /\ Orderly /\ LastRequest /\ KnownIds /\ LastReceipt
SessionInv == Ways /\ CounterIsShort
-----------------------------------------------------------------------------
(* Counting the requests of some kinds.                                     *)

places(q, kinds) == {i \in 1 .. Len(q) : q[i].kind \in kinds}

\* There are finitely many, none in an empty queue.
LEMMA PlacesFinite ==
  ASSUME NEW q \in Seq(Requests), NEW kinds
  PROVE  /\ IsFiniteSet(places(q, kinds))
         /\ Cardinality(places(q, kinds)) \in Nat
         /\ q = <<>> => Cardinality(places(q, kinds)) = 0
<1>1. IsFiniteSet(1 .. Len(q)) /\ places(q, kinds) \in SUBSET (1 .. Len(q))
  BY FS_Interval, LenProperties DEF places
<1>2. IsFiniteSet(places(q, kinds))
  BY <1>1, FS_Subset
<1>3. Cardinality(places(q, kinds)) \in Nat
  BY <1>2, FS_CardinalityType
<1>4. q = <<>> => places(q, kinds) = {}
  BY DEF places
<1> QED  BY <1>2, <1>3, <1>4, FS_EmptySet

\* Requests that are all counted add their number, others add nothing.
LEMMA CountConcat ==
  ASSUME NEW q \in Seq(Requests), NEW s \in Seq(Requests), NEW kinds
  PROVE  /\ (\A i \in 1 .. Len(s) : s[i].kind \in kinds) =>
               Cardinality(places(q \o s, kinds))
                 = Cardinality(places(q, kinds)) + Len(s)
         /\ (\A i \in 1 .. Len(s) : s[i].kind \notin kinds) =>
               Cardinality(places(q \o s, kinds)) = Cardinality(places(q, kinds))
<1> DEFINE new == Len(q) + 1 .. Len(q) + Len(s)
<1>0. /\ Len(q) \in Nat /\ Len(s) \in Nat /\ Len(q \o s) = Len(q) + Len(s)
      /\ \A i \in 1 .. Len(q) : (q \o s)[i] = q[i]
      /\ \A i \in new : i - Len(q) \in 1 .. Len(s) /\ (q \o s)[i] = s[i - Len(q)]
  BY ConcatProperties, LenProperties
<1>1. ASSUME \A i \in 1 .. Len(s) : s[i].kind \in kinds
      PROVE  Cardinality(places(q \o s, kinds)) = Cardinality(places(q, kinds)) + Len(s)
  <2>1. places(q \o s, kinds) = places(q, kinds) \cup new
    BY <1>0, <1>1 DEF places
  <2>2. places(q, kinds) \cap new = {}
    BY <1>0 DEF places
  <2>3. IsFiniteSet(new) /\ Cardinality(new) = Len(s)
    <3>1. Len(q) + 1 \in Int /\ Len(q) + Len(s) \in Int
      BY <1>0
    <3> DEFINE a == Len(q) + 1
               b == Len(q) + Len(s)
    <3>2. a \in Int /\ b \in Int /\ new = a .. b
      BY <3>1
    <3> HIDE DEF a, b, new
    <3>3. IsFiniteSet(new) /\ Cardinality(new) = IF a > b THEN 0 ELSE b - a + 1
      BY <3>2, FS_Interval
    <3>4. a = Len(q) + 1 /\ b = Len(q) + Len(s)
      BY DEF a, b
    <3> QED  BY <1>0, <3>3, <3>4
  <2>4. Cardinality(places(q, kinds)) \in Nat /\ IsFiniteSet(places(q, kinds))
    BY PlacesFinite
  <2>5. Cardinality(places(q \o s, kinds))
          = Cardinality(places(q, kinds)) + Cardinality(new) - Cardinality({})
    BY <2>1, <2>2, <2>3, <2>4, FS_Union
  <2> QED  BY <1>0, <2>3, <2>4, <2>5, FS_EmptySet
<1>2. ASSUME \A i \in 1 .. Len(s) : s[i].kind \notin kinds
      PROVE  places(q \o s, kinds) = places(q, kinds)
  BY <1>0, <1>2 DEF places
<1> QED  BY <1>1, <1>2

\* Taking the first request takes it off the count.
LEMMA CountTail ==
  ASSUME NEW q \in Seq(Requests), q # <<>>, NEW kinds
  PROVE  Cardinality(places(Tail(q), kinds))
           = Cardinality(places(q, kinds)) - (IF Head(q).kind \in kinds THEN 1 ELSE 0)
<1> DEFINE rest == places(q, kinds) \ {1}
           shift == [i \in places(Tail(q), kinds) |-> i + 1]
<1>0. /\ Len(q) \in Nat \ {0} /\ Len(Tail(q)) = Len(q) - 1
      /\ \A i \in 1 .. Len(q) - 1 : Tail(q)[i] = q[i + 1]
      /\ Head(q) = q[1] /\ Tail(q) \in Seq(Requests)
  BY HeadTailProperties, EmptySeq
<1>1. shift \in Bijection(places(Tail(q), kinds), rest)
  <2>1. shift \in [places(Tail(q), kinds) -> rest]
    BY <1>0 DEF places
  <2>2. \A i, j \in places(Tail(q), kinds) : shift[i] = shift[j] => i = j
    BY DEF places
  <2>3. \A k \in rest : \E i \in places(Tail(q), kinds) : shift[i] = k
    <3> TAKE k \in rest
    <3>1. k - 1 \in places(Tail(q), kinds)
      BY <1>0 DEF places
    <3> WITNESS k - 1 \in places(Tail(q), kinds)
    <3> QED  BY <3>1 DEF places
  <2> QED  BY <2>1, <2>2, <2>3, Fun_IsBij
<1>2. IsFiniteSet(places(q, kinds)) /\ Cardinality(places(q, kinds)) \in Nat
  BY PlacesFinite
<1>3. /\ IsFiniteSet(rest)
      /\ Cardinality(rest) = Cardinality(places(q, kinds))
                               - (IF 1 \in places(q, kinds) THEN 1 ELSE 0)
  BY <1>2, FS_RemoveElement
<1>4. Cardinality(places(Tail(q), kinds)) = Cardinality(rest)
  <2>1. ExistsBijection(places(Tail(q), kinds), rest)
    BY <1>1 DEF ExistsBijection
  <2> QED  BY <1>0, <2>1, FS_Bijection, PlacesFinite
<1>5. 1 \in places(q, kinds) <=> Head(q).kind \in kinds
  BY <1>0 DEF places
<1> QED  BY <1>3, <1>4, <1>5
-----------------------------------------------------------------------------
(* What the steps do to the queues.                                         *)

\* A request that is sent goes to the end, or is given up.
LEMMA SendEffect ==
  ASSUME uplink \in Seq(Requests), NEW s \in Seq(Requests), send(s)
  PROVE  /\ uplink' \in Seq(Requests)
         /\ \/ uplink' = uplink /\ ~(socket' = "open" /\ server' # "gone")
            \/ /\ socket' = "open" /\ server' # "gone"
               /\ uplink' = uplink \o s
               /\ Len(uplink') = Len(uplink) + Len(s)
               /\ \A i \in 1 .. Len(uplink') :
                     \/ i \in 1 .. Len(uplink) /\ uplink'[i] = uplink[i]
                     \/ /\ i - Len(uplink) \in 1 .. Len(s)
                        /\ uplink'[i] = s[i - Len(uplink)]
<1>1. /\ uplink \o s \in Seq(Requests)
      /\ Len(uplink \o s) = Len(uplink) + Len(s)
      /\ Len(uplink) \in Nat /\ Len(s) \in Nat
      /\ \A i \in 1 .. Len(uplink) + Len(s) :
            (uplink \o s)[i] = IF i <= Len(uplink) THEN uplink[i]
                                                  ELSE s[i - Len(uplink)]
  BY ConcatProperties, LenProperties
<1>2. CASE socket' = "open" /\ server' # "gone"
  <2>1. uplink' = uplink \o s
    BY <1>2 DEF send
  <2>2. \A i \in 1 .. Len(uplink) + Len(s) :
           i \notin 1 .. Len(uplink) => i - Len(uplink) \in 1 .. Len(s)
    BY <1>1
  <2> QED  BY <1>1, <1>2, <2>1, <2>2
<1>3. CASE ~(socket' = "open" /\ server' # "gone")
  BY <1>3 DEF send
<1> QED  BY <1>2, <1>3

\* So each request was on its way before, or is one of those sent.
LEMMA SentOnes ==
  ASSUME uplink \in Seq(Requests), NEW s \in Seq(Requests), send(s)
  PROVE  \A i \in 1 .. Len(uplink') :
            \/ i \in 1 .. Len(uplink) /\ uplink'[i] = uplink[i]
            \/ \E j \in 1 .. Len(s) :
                  uplink'[i] = s[j] /\ (j = Len(s) => i = Len(uplink'))
<1>1. Len(uplink) \in Nat /\ Len(s) \in Nat
  BY LenProperties
<1>2. CASE uplink' = uplink
  BY <1>2
<1>3. CASE /\ Len(uplink') = Len(uplink) + Len(s)
           /\ \A i \in 1 .. Len(uplink') :
                 \/ i \in 1 .. Len(uplink) /\ uplink'[i] = uplink[i]
                 \/ /\ i - Len(uplink) \in 1 .. Len(s)
                    /\ uplink'[i] = s[i - Len(uplink)]
  <2> TAKE i \in 1 .. Len(uplink')
  <2>1. CASE i \in 1 .. Len(uplink) /\ uplink'[i] = uplink[i]
    BY <2>1
  <2>2. CASE i - Len(uplink) \in 1 .. Len(s) /\ uplink'[i] = s[i - Len(uplink)]
    <3>1. i - Len(uplink) = Len(s) => i = Len(uplink')
      BY <1>1, <1>3
    <3> QED  BY <2>2, <3>1
  <2> QED  BY <1>3, <2>1, <2>2
<1>4. \/ uplink' = uplink
      \/ /\ Len(uplink') = Len(uplink) + Len(s)
         /\ \A i \in 1 .. Len(uplink') :
               \/ i \in 1 .. Len(uplink) /\ uplink'[i] = uplink[i]
               \/ /\ i - Len(uplink) \in 1 .. Len(s)
                  /\ uplink'[i] = s[i - Len(uplink)]
  BY SendEffect
<1> QED  BY <1>2, <1>3, <1>4

\* What a command of a logged in user does, whichever it is.
Command(s) ==
    /\ s \in Seq(Requests)
    /\ logged_in_line
    /\ send(s)
    /\ recipt_id' \in Ids /\ recipt_id <= recipt_id'
    /\ recipt_id' <= typed' * (MaxEvents + 1)
    /\ waiting_message' \in Nat /\ waiting_message <= waiting_message'
    /\ \A i \in 1 .. Len(s) :
          s[i].kind \in Asking => s[i].id \in recipt_id .. recipt_id' - 1
    /\ \/ /\ UNCHANGED <<logout, waiting_for_logout, disconnect_id>>
          /\ \A i \in 1 .. Len(s) : s[i].kind # "DISCONNECT"
       \/ /\ logout' /\ waiting_for_logout'
          /\ disconnect_id' = recipt_id
          /\ s = <<Request("DISCONNECT", recipt_id)>>

\* A factor and a product grow together.
LEMMA Product ==
  ASSUME NEW a \in Nat, NEW b \in Nat, NEW e \in Nat
  PROVE  /\ a * e \in Nat
         /\ (a + 1) * e = a * e + e
         /\ a <= b => a * e <= b * e
  BY Z3

\* Ids are natural numbers.
LEMMA IdsAreNat == MaxId \in Nat /\ Ids \subseteq Nat
<1>1. MaxCommands \in Nat /\ MaxEvents + 1 \in Nat
  BY SessionAssumption
<1>2. MaxId \in Nat
  BY <1>1, Product DEF MaxId
<1> QED  BY <1>2 DEF Ids

\* One more command leaves room for the ids of its requests.
LEMMA IdsLast ==
  ASSUME SessionTypes, type_line, NEW n \in 0 .. MaxEvents + 1
  PROVE  /\ recipt_id + n \in Ids
         /\ recipt_id + n <= typed' * (MaxEvents + 1)
<1>1. /\ typed \in Nat /\ typed' = typed + 1 /\ typed + 1 <= MaxCommands
      /\ MaxCommands \in Nat /\ MaxEvents + 1 \in Nat /\ recipt_id \in Nat
      /\ recipt_id <= typed * (MaxEvents + 1)
  BY SessionAssumption DEF SessionTypes, TypeOK, type_line, Ids
<1>2. /\ typed * (MaxEvents + 1) \in Nat
      /\ (typed + 1) * (MaxEvents + 1) = typed * (MaxEvents + 1) + (MaxEvents + 1)
  BY <1>1, Product
<1>3. (typed + 1) * (MaxEvents + 1) <= MaxId
  BY <1>1, Product DEF MaxId
<1>4. MaxId \in Nat
  BY <1>1, Product DEF MaxId
<1>5. recipt_id + n <= (typed + 1) * (MaxEvents + 1)
  BY <1>1, <1>2
<1> QED  BY <1>1, <1>2, <1>3, <1>4, <1>5 DEF Ids

\* The commands are such commands.
LEMMA CommandEffect ==
  ASSUME SessionTypes, JoinOrExit \/ Report \/ Complain \/ Logout
  PROVE  \E s : Command(s)
<1>0. /\ type_line /\ waiting_message \in Nat /\ recipt_id \in Nat /\ MaxEvents \in Nat
      /\ recipt_id \in Ids
  BY SessionAssumption, IdsAreNat DEF JoinOrExit, join_or_exit, Report, Complain, Logout,
        logged_in_line, SessionTypes, TypeOK
<1>1. CASE JoinOrExit
  <2>1. PICK kind \in {"SUBSCRIBE", "UNSUBSCRIBE"} : send(<<Request(kind, recipt_id)>>)
    BY <1>1 DEF JoinOrExit, join_or_exit
  <2>2. <<Request(kind, recipt_id)>> \in Seq(Requests)
    BY <1>0 DEF Request, Requests
  <2>3. recipt_id' = recipt_id + 1 /\ recipt_id' \in Ids
        /\ recipt_id' <= typed' * (MaxEvents + 1)
    BY <1>0, <1>1, IdsLast DEF JoinOrExit, join_or_exit
  <2>4. Command(<<Request(kind, recipt_id)>>)
    BY <1>0, <1>1, <2>1, <2>2, <2>3
       DEF JoinOrExit, join_or_exit, Command, Request, more_waiting
  <2> QED  BY <2>4
<1>2. CASE Report
  <2>1. PICK n \in 1 .. MaxEvents :
           /\ logged_in_line
           /\ more_waiting(2 * n)
           /\ send([i \in 1 .. n |-> Request("SEND", recipt_id + i - 1)])
           /\ recipt_id' = recipt_id + n
           /\ UNCHANGED <<logout, waiting_for_logout, disconnect_id>>
    BY <1>2 DEF Report
  <2> DEFINE s == [i \in 1 .. n |-> Request("SEND", recipt_id + i - 1)]
  <2>2. recipt_id' = recipt_id + n /\ recipt_id' \in Ids
        /\ recipt_id' <= typed' * (MaxEvents + 1)
    BY <1>0, <2>1, IdsLast
  <2>3. \A i \in 1 .. n : recipt_id + i - 1 \in recipt_id .. recipt_id + n - 1
                          /\ recipt_id + i - 1 \in Ids
    BY <1>0, <2>2, IdsAreNat DEF Ids
  <2>4. s \in Seq(Requests) /\ Len(s) = n
        /\ \A i \in 1 .. n : s[i].kind = "SEND" /\ s[i].id = recipt_id + i - 1
    BY <1>0, <2>3 DEF Request, Requests
  <2>5. waiting_message' \in Nat /\ waiting_message <= waiting_message'
    BY <1>0, <2>1 DEF more_waiting
  <2>6. Command(s)
    <3>1. send(s)
      BY <2>1
    <3> HIDE DEF s
    <3> QED  BY <1>0, <2>1, <2>2, <2>3, <2>4, <2>5, <3>1 DEF Command
  <2> QED  BY <2>6
<1>3. CASE Complain
  <2>1. <<Request("junk", NoId)>> \in Seq(Requests)
    BY DEF Request, Requests
  <2>2. recipt_id' = recipt_id /\ recipt_id + 0 <= typed' * (MaxEvents + 1)
    BY <1>0, <1>3, IdsLast DEF Complain
  <2>3. Command(<<Request("junk", NoId)>>)
    BY <1>0, <1>3, <2>1, <2>2 DEF Complain, Command, Request, Asking, stateVars
  <2> QED  BY <2>3
<1>4. CASE Logout
  <2>1. <<Request("DISCONNECT", recipt_id)>> \in Seq(Requests)
    BY <1>0 DEF Request, Requests
  <2>2. recipt_id' = recipt_id + 1 /\ recipt_id' \in Ids
        /\ recipt_id' <= typed' * (MaxEvents + 1)
    BY <1>0, <1>4, IdsLast DEF Logout
  <2>3. Command(<<Request("DISCONNECT", recipt_id)>>)
    BY <1>0, <1>4, <2>1, <2>2 DEF Logout, Command, Request, more_waiting
  <2> QED  BY <2>3
<1> QED  BY <1>1, <1>2, <1>3, <1>4

\* The first request is taken.
LEMMA TakeEffect ==
  ASSUME TypeOK, take_request
  PROVE  /\ request \in Requests /\ request = uplink[1] /\ 1 \in 1 .. Len(uplink)
         /\ uplink # <<>> /\ uplink' = Tail(uplink)
         /\ uplink' \in Seq(Requests) /\ Len(uplink') = Len(uplink) - 1
         /\ \A i \in 1 .. Len(uplink') :
               i + 1 \in 1 .. Len(uplink) /\ uplink'[i] = uplink[i + 1]
<1>1. uplink \in Seq(Requests) /\ uplink # <<>> /\ uplink' = Tail(uplink)
  BY DEF TypeOK, take_request
<1>2. Len(uplink) \in Nat \ {0} /\ uplink[1] \in Requests /\ request = uplink[1]
  BY <1>1, EmptySeq, ElementOfSeq DEF request
<1> QED  BY <1>1, <1>2, HeadTailProperties

\* Frames that are written go to the end.
LEMMA ReplyEffect ==
  ASSUME TypeOK, NEW fs \in Seq(Frames), downlink' = downlink \o fs
  PROVE  /\ downlink' \in Seq(Frames)
         /\ Len(downlink') = Len(downlink) + Len(fs)
         /\ \A i \in 1 .. Len(downlink') :
               \/ i \in 1 .. Len(downlink) /\ downlink'[i] = downlink[i]
               \/ /\ i - Len(downlink) \in 1 .. Len(fs)
                  /\ downlink'[i] = fs[i - Len(downlink)]
<1>1. downlink \in Seq(Frames)
  BY DEF TypeOK
<1>2. /\ downlink' \in Seq(Frames)
      /\ Len(downlink') = Len(downlink) + Len(fs)
      /\ Len(downlink) \in Nat /\ Len(fs) \in Nat
      /\ \A i \in 1 .. Len(downlink) + Len(fs) :
            downlink'[i] = IF i <= Len(downlink) THEN downlink[i]
                                                ELSE fs[i - Len(downlink)]
  BY <1>1, ConcatProperties, LenProperties
<1>3. \A i \in 1 .. Len(downlink) + Len(fs) :
         i \notin 1 .. Len(downlink) => i - Len(downlink) \in 1 .. Len(fs)
  BY <1>2
<1> QED  BY <1>2, <1>3

\* So each frame was on its way before, or is one of those written.
LEMMA WrittenOnes ==
  ASSUME TypeOK, NEW fs \in Seq(Frames), downlink' = downlink \o fs
  PROVE  \A i \in 1 .. Len(downlink') :
            \/ i \in 1 .. Len(downlink) /\ downlink'[i] = downlink[i]
            \/ \E j \in 1 .. Len(fs) :
                  downlink'[i] = fs[j] /\ (j = Len(fs) => i = Len(downlink'))
<1>1. Len(downlink) \in Nat /\ Len(fs) \in Nat
  BY LenProperties DEF TypeOK
<1>2. /\ Len(downlink') = Len(downlink) + Len(fs)
      /\ \A i \in 1 .. Len(downlink') :
            \/ i \in 1 .. Len(downlink) /\ downlink'[i] = downlink[i]
            \/ /\ i - Len(downlink) \in 1 .. Len(fs)
               /\ downlink'[i] = fs[i - Len(downlink)]
  BY ReplyEffect
<1> QED  BY <1>1, <1>2

\* The first frame is taken.
LEMMA ReadEffect ==
  ASSUME TypeOK, ReadFrame
  PROVE  /\ held' \in Frames /\ held' = downlink[1] /\ 1 \in 1 .. Len(downlink)
         /\ downlink' \in Seq(Frames) /\ Len(downlink') = Len(downlink) - 1
         /\ \A i \in 1 .. Len(downlink') :
               i + 1 \in 1 .. Len(downlink) /\ downlink'[i] = downlink[i + 1]
<1>1. /\ downlink \in Seq(Frames) /\ downlink # <<>>
      /\ held' = Head(downlink) /\ downlink' = Tail(downlink)
  BY DEF TypeOK, ReadFrame
<1>2. Len(downlink) \in Nat \ {0} /\ downlink[1] \in Frames /\ held' = downlink[1]
  BY <1>1, EmptySeq, ElementOfSeq
<1> QED  BY <1>1, <1>2, HeadTailProperties

\* How many frames a request stands for.
weight(r) == IF r.kind \in Counted THEN 1 ELSE 0

\* What the server does with a request, whichever it is.
Served(fs) ==
    /\ fs \in Seq(Frames)
    /\ take_request
    /\ downlink' = downlink \o fs
    /\ server' \in ServerStates \ {"none"} /\ joined' \in Nat
    /\ orderly' \in BOOLEAN /\ (orderly' => orderly)
    /\ \A i \in 1 .. Len(fs) :
          /\ fs[i].kind = "RECIPT" =>
                i = Len(fs) /\ fs[i].id = request.id /\ request.kind \in Asking
          /\ fs[i].kind # "ERROR" \/ ~orderly'
    /\ server' \in {"leaving", "gone"} => ~orderly' \/ request.kind = "DISCONNECT"
    /\ request.kind = "DISCONNECT" => server' \in {"leaving", "gone"}
    /\ Len(fs) <= weight(request)
    /\ orderly' => Len(fs) = weight(request) /\ request.kind # "SEND"

\* Empty queues.
LEMMA EmptyQueues == <<>> \in Seq(Requests) /\ <<>> \in Seq(Frames)
  BY EmptySeq

\* Short sequences of frames.
LEMMA ShortReplies ==
  ASSUME NEW f \in Frames
  PROVE  /\ <<>> \in Seq(Frames) /\ Len(<<>>) = 0
         /\ <<f>> \in Seq(Frames) /\ Len(<<f>>) = 1 /\ <<f>>[1] = f
  OBVIOUS

LEMMA ServedEffect ==
  ASSUME TypeOK, Answer \/ Refuse \/ HangUp
  PROVE  \E fs : Served(fs)
<1>0. /\ take_request /\ request \in Requests /\ downlink \in Seq(Frames)
      /\ server \in {"fresh", "up"} /\ orderly \in BOOLEAN /\ joined \in Nat
  BY TakeEffect DEF Answer, Refuse, HangUp, TypeOK, take_request
<1>1. /\ Frame("CONNECTED", NoId) \in Frames /\ Frame("ERROR", NoId) \in Frames
      /\ Frame("RECIPT", request.id) \in Frames
  BY <1>0 DEF Frame, Frames, Requests
<1>2. CASE HangUp
  <2>1. downlink' = downlink \o <<>>
    BY <1>0, <1>2, ConcatEmptySeq DEF HangUp
  <2>2. weight(request) \in Nat
    BY DEF weight
  <2>3. orderly' = FALSE /\ joined' = 0 /\ server' = "gone"
    BY <1>2 DEF HangUp
  <2>4. <<>> \in Seq(Frames) /\ Len(<<>>) = 0 /\ Len(<<>>) <= weight(request)
    BY <1>1, <2>2, ShortReplies
  <2>5. \A i \in 1 .. Len(<<>>) : FALSE
    BY <2>4
  <2>6. Served(<<>>)
    BY <1>0, <2>1, <2>3, <2>4, <2>5 DEF Served, ServerStates
  <2> QED  BY <2>6
<1>3. CASE Refuse
  <2>1. weight(request) \in Nat /\ weight(request) >= 1 /\ request.kind # "DISCONNECT"
    BY <1>3 DEF Refuse, weight, Counted, Asking
  <2>2. /\ orderly' = FALSE /\ joined' = 0 /\ server' = "leaving"
        /\ downlink' = downlink \o <<Frame("ERROR", NoId)>>
    BY <1>3 DEF Refuse, reply
  <2>3. /\ <<Frame("ERROR", NoId)>> \in Seq(Frames)
        /\ Len(<<Frame("ERROR", NoId)>>) = 1
        /\ \A i \in 1 .. 1 : <<Frame("ERROR", NoId)>>[i].kind = "ERROR"
    BY <1>1, ShortReplies DEF Frame
  <2>4. Served(<<Frame("ERROR", NoId)>>)
    BY <1>0, <2>1, <2>2, <2>3 DEF Served, ServerStates
  <2> QED  BY <2>4
<1>4. CASE Answer /\ request.kind = "CONNECT"
  <2>1. weight(request) = 1
    BY <1>4 DEF weight, Counted
  <2> DEFINE fs == <<Frame("CONNECTED", NoId)>>
  <2>2. /\ orderly' = orderly /\ joined' = joined /\ server' = "up"
        /\ downlink' = downlink \o fs
    BY <1>4 DEF Answer, reply
  <2>3. fs \in Seq(Frames) /\ Len(fs) = 1 /\ fs[1].kind = "CONNECTED"
    BY <1>1, ShortReplies DEF Frame
  <2> HIDE DEF fs
  <2>4. Served(fs)
    BY <1>0, <1>4, <2>1, <2>2, <2>3 DEF Served, ServerStates
  <2> QED  BY <2>4
<1>5. CASE Answer /\ request.kind \in {"SUBSCRIBE", "UNSUBSCRIBE", "DISCONNECT"}
  <2>1. weight(request) = 1
    BY <1>5 DEF weight, Counted, Asking
  <2> DEFINE fs == <<Frame("RECIPT", request.id)>>
  <2>2. /\ orderly' = orderly /\ joined' \in Nat /\ downlink' = downlink \o fs
        /\ server' = IF request.kind = "DISCONNECT" THEN "leaving" ELSE "up"
    BY <1>0, <1>5 DEF Answer, reply
  <2>3. /\ fs \in Seq(Frames) /\ Len(fs) = 1
        /\ fs[1].kind = "RECIPT" /\ fs[1].id = request.id
    BY <1>1, ShortReplies DEF Frame
  <2> HIDE DEF fs
  <2>4. Served(fs)
    BY <1>0, <1>5, <2>1, <2>2, <2>3 DEF Served, ServerStates, Asking
  <2> QED  BY <2>4
<1> QED  BY <1>2, <1>3, <1>4, <1>5 DEF Answer

\* A login sends one request over a socket that is open by then.
LEMMA LoginEffect ==
  ASSUME TypeOK, Login
  PROVE  \E s \in Seq(Requests) :
            /\ send(s) /\ Len(s) = 1 /\ s[1].kind \in {"CONNECT", "junk"}
            /\ orderly' = (orderly /\ server' = "fresh" /\ s[1].kind = "CONNECT")
            /\ socket' = "open" /\ server' \in ServerStates
            /\ \/ /\ socket = "closed" /\ server' \in {"fresh", "gone"}
                  /\ joined' = 0 /\ foreign' = 0
               \/ /\ socket = "open"
                  /\ UNCHANGED <<server, joined, foreign>>
<1>1. PICK kind \in {"CONNECT", "junk"} :
         /\ send(<<Request(kind, NoId)>>)
         /\ orderly' = (orderly /\ server' = "fresh" /\ kind = "CONNECT")
  BY DEF Login
<1>2. /\ <<Request(kind, NoId)>> \in Seq(Requests) /\ Len(<<Request(kind, NoId)>>) = 1
      /\ <<Request(kind, NoId)>>[1].kind = kind
  BY DEF Request, Requests
<1>3. /\ socket' = "open" /\ server' \in ServerStates
      /\ \/ /\ socket = "closed" /\ server' \in {"fresh", "gone"}
            /\ joined' = 0 /\ foreign' = 0
         \/ /\ socket = "open"
            /\ UNCHANGED <<server, joined, foreign>>
  BY DEF Login, connect, TypeOK, ServerStates
<1> QED  BY <1>1, <1>2, <1>3

\* A report of another client is a frame more for each time this one is in the topic.
LEMMA BroadcastEffect ==
  ASSUME TypeOK, Broadcast
  PROVE  \E fs \in Seq(Frames) :
            /\ downlink' = downlink \o fs /\ foreign' = foreign + Len(fs)
            /\ \A j \in 1 .. Len(fs) : fs[j].kind \in {"MESSAGE", "unparsable"}
<1>1. PICK n \in 1 .. joined, kind \in {"MESSAGE", "unparsable"} :
         /\ reply([i \in 1 .. n |-> Frame(kind, NoId)])
         /\ foreign' = foreign + n
  BY DEF Broadcast
<1> DEFINE fs == [i \in 1 .. n |-> Frame(kind, NoId)]
<1>2. Frame(kind, NoId) \in Frames /\ Frame(kind, NoId).kind = kind
  BY DEF Frame, Frames
<1>3. n \in Nat
  BY DEF TypeOK
<1>4. /\ fs \in Seq(Frames) /\ Len(fs) = n
      /\ \A j \in 1 .. n : fs[j].kind = kind
  BY <1>2, <1>3
<1>5. downlink' = downlink \o fs
  BY <1>1 DEF reply
<1> HIDE DEF fs
<1> QED  BY <1>1, <1>4, <1>5

-----------------------------------------------------------------------------
(* The types.                                                               *)

LEMMA SessionInit == Init => SessionInv
<1> SUFFICES ASSUME Init  PROVE SessionInv
  OBVIOUS
<1>1. 0 \in Ids /\ NoFrame \in Frames /\ MaxCommands \in Nat /\ MaxBroadcasts \in Nat
      /\ 0 * (MaxEvents + 1) = 0
  BY IdsAreNat, SessionAssumption, Product DEF Ids, NoFrame, Frame, Frames
<1>2. SessionTypes
  <2>1. TypeOK
    <3>1. /\ logout \in BOOLEAN /\ waiting_for_logout \in BOOLEAN /\ glued \in BOOLEAN
          /\ joined \in Nat /\ orderly \in BOOLEAN /\ thrown \in BOOLEAN
      BY DEF Init
    <3>2. /\ waiting_message \in Nat /\ typed \in 0 .. MaxCommands
          /\ foreign \in Nat /\ broadcasts \in 0 .. MaxBroadcasts
      BY <1>1 DEF Init
    <3>3. /\ reader \in {"poll", "reading", "holding", "draining"}
          /\ socket \in {"open", "closed"} /\ server \in ServerStates
          /\ disconnect_id \in Ids \cup {NoId} /\ recipt_id \in Ids /\ held \in Frames
          /\ uplink \in Seq(Requests) /\ downlink \in Seq(Frames)
      BY <1>1, EmptyQueues DEF Init, ServerStates
    <3> QED  BY <3>1, <3>2, <3>3 DEF TypeOK
  <2>2. recipt_id = 0 /\ typed = 0 /\ reader = "poll"
    BY DEF Init
  <2> QED  BY <1>1, <2>1, <2>2 DEF SessionTypes
<1>3. Flags /\ Orderly /\ LastRequest /\ KnownIds /\ LastReceipt
  BY DEF Init, Flags, SocketFollowsFlags, Orderly, LastRequest, NothingAfterDisconnect,
         requests_of, KnownIds, LastReceipt, awaited, NoFrame, Frame
<1>4. CounterIsShort
  <2>1. owed = 0
    BY FS_EmptySet DEF Init, owed, requests_of
  <2> QED  BY <2>1 DEF Init, CounterIsShort, unread
<1> QED  BY <1>2, <1>3, <1>4 DEF SessionInv, Ways

LEMMA TypesStep ==
  ASSUME SessionTypes, Next
  PROVE  SessionTypes'
<1> USE DEF SessionTypes
<1>0. recipt_id \in Nat /\ Ids \subseteq Nat /\ NoFrame \in Frames
  BY IdsAreNat DEF TypeOK, NoFrame, Frame, Frames
<1>1. CASE Login
  <2>1. PICK s \in Seq(Requests) :
            /\ send(s) /\ socket' = "open" /\ server' \in ServerStates
            /\ \/ joined' = 0 /\ foreign' = 0
               \/ UNCHANGED <<server, joined, foreign>>
    BY <1>1, LoginEffect DEF TypeOK
  <2>2. uplink' \in Seq(Requests)
    BY <2>1, SendEffect DEF TypeOK
  <2>3. /\ typed' \in 0 .. MaxCommands
        /\ recipt_id <= typed' * (MaxEvents + 1)
    <3>1. type_line /\ 0 \in 0 .. MaxEvents + 1
      BY <1>1, SessionAssumption DEF Login
    <3>2. typed' \in 0 .. MaxCommands
      BY <3>1, SessionAssumption DEF type_line, TypeOK
    <3> QED  BY <1>0, <3>1, <3>2, IdsLast
  <2>4. /\ waiting_message' = waiting_message + 1 /\ orderly' \in BOOLEAN
        /\ waiting_message \in Nat
    <3>1. orderly' \in BOOLEAN
      BY <1>1 DEF Login
    <3> QED  BY <1>1, <3>1 DEF Login, more_waiting, TypeOK
  <2>5. foreign' \in Nat /\ joined' \in Nat
    BY <2>1 DEF TypeOK
  <2>6. /\ logout' = FALSE /\ disconnect_id' = NoId
        /\ UNCHANGED <<waiting_for_logout, recipt_id, readerVars, downlink,
                       broadcasts, thrown>>
    BY <1>1 DEF Login
  <2>7. TypeOK'
    <3>1. /\ TypeOK /\ logout' \in BOOLEAN /\ disconnect_id' \in Ids \cup {NoId}
          /\ UNCHANGED <<waiting_for_logout, recipt_id, reader, held, glued, downlink,
                         broadcasts, thrown>>
      BY <2>6 DEF readerVars
    <3>2. waiting_message' \in Nat /\ socket' \in {"open", "closed"}
      BY <2>1, <2>4
    <3> QED  BY <2>1, <2>2, <2>3, <2>4, <2>5, <3>1, <3>2 DEF TypeOK
  <2>8. waiting_message' > 0
    BY <2>4
  <2> QED  BY <2>3, <2>6, <2>7, <2>8
<1>2. CASE JoinOrExit \/ Report \/ Complain \/ Logout
  <2>1. PICK s : Command(s)
    BY <1>2, CommandEffect
  <2>2. uplink' \in Seq(Requests)
    BY <2>1, SendEffect DEF TypeOK, Command
  <2>3. typed' \in 0 .. MaxCommands
    BY <2>1, SessionAssumption DEF Command, logged_in_line, type_line, TypeOK
  <2>4. logout' \in BOOLEAN /\ waiting_for_logout' \in BOOLEAN
        /\ disconnect_id' \in Ids \cup {NoId}
    BY <1>2, <2>1 DEF Command, TypeOK, JoinOrExit, join_or_exit, Report, Complain, Logout,
                      stateVars
  <2> QED  BY <2>1, <2>2, <2>3, <2>4
           DEF Command, logged_in_line, TypeOK, readerVars, historyVars
<1>3. CASE Poll \/ ReadFails \/ Drain
  BY <1>3 DEF Poll, ReadFails, Drain, TypeOK, stateVars, historyVars
<1>4. CASE ReadFrame
  BY <1>4, ReadEffect DEF ReadFrame, TypeOK, stateVars, historyVars
<1>5. CASE ProcessFrame \/ ProcessGlued \/ EndLogout \/ ProcessError
  <2>1. /\ waiting_message' \in Nat /\ reader' = "poll" /\ held' = NoFrame
        /\ glued' = FALSE
        /\ UNCHANGED <<disconnect_id, recipt_id, joined, typed, historyVars>>
    BY <1>5 DEF ProcessFrame, ProcessGlued, EndLogout, ProcessError, process_frame, TypeOK
  <2>2. /\ logout' \in BOOLEAN /\ waiting_for_logout' \in BOOLEAN
        /\ socket' \in {"open", "closed"} /\ server' \in ServerStates
        /\ uplink' \in Seq(Requests) /\ downlink' \in Seq(Frames)
    <3>1. CASE ProcessFrame \/ ProcessGlued
      BY <3>1 DEF ProcessFrame, ProcessGlued, TypeOK
    <3>2. CASE EndLogout \/ ProcessError
      BY <3>2, EmptyQueues DEF EndLogout, ProcessError, close_socket, TypeOK, ServerStates
    <3> QED  BY <1>5, <3>1, <3>2
  <2> QED  BY <1>0, <2>1, <2>2 DEF TypeOK, historyVars
<1>6. CASE Throw
  BY <1>0, <1>6 DEF Throw, TypeOK
<1>7. CASE Answer \/ Refuse \/ HangUp
  <2>1. PICK fs : Served(fs)
    BY <1>7, ServedEffect
  <2>2. uplink' \in Seq(Requests)
    BY <2>1, TakeEffect DEF Served
  <2>3. downlink' \in Seq(Frames)
    BY <2>1, ReplyEffect DEF Served
  <2> QED  BY <2>1, <2>2, <2>3 DEF Served, take_request, TypeOK, stateVars, readerVars
<1>8. CASE Leave
  BY <1>8 DEF Leave, TypeOK, ServerStates, stateVars, readerVars, historyVars
<1>9. CASE Broadcast
  <2>1. downlink' \in Seq(Frames)
    BY <1>9, BroadcastEffect, ReplyEffect
  <2>2. foreign' \in Nat /\ broadcasts' \in 0 .. MaxBroadcasts
    BY <1>9, SessionAssumption, BroadcastEffect, LenProperties DEF Broadcast, TypeOK
  <2> QED  BY <1>9, <2>1, <2>2 DEF Broadcast, TypeOK, stateVars, readerVars
<1> QED  BY <1>1, <1>2, <1>3, <1>4, <1>5, <1>6, <1>7, <1>8, <1>9
         DEF Next, Keyboard, Reader, Server

-----------------------------------------------------------------------------
(* The flags.                                                               *)

LEMMA FlagsStep ==
  ASSUME TypeOK, Flags, Orderly, Next
  PROVE  Flags'
<1> USE DEF Flags, SocketFollowsFlags
<1>1. CASE Login
  <2>1. /\ socket' = "open" /\ logout' = FALSE
        /\ UNCHANGED <<waiting_for_logout, thrown>> /\ ~waiting_for_logout
        /\ \/ server' \in {"fresh", "gone"}
           \/ socket = "open" /\ server' = server
    BY <1>1, LoginEffect DEF Login, type_line
  <2> QED  BY <2>1
<1>2. CASE JoinOrExit \/ Report \/ Complain \/ Logout
  <2>1. /\ ~logout
        /\ UNCHANGED <<reader, socket, server, downlink, thrown>>
        /\ UNCHANGED <<logout, waiting_for_logout>> \/ (logout' /\ waiting_for_logout')
    BY <1>2 DEF JoinOrExit, join_or_exit, Report, Complain, Logout, logged_in_line,
                stateVars, readerVars, historyVars
  <2> QED  BY <2>1
<1>3. CASE Poll \/ ReadFails \/ Drain
  <2>1. /\ UNCHANGED <<logout, waiting_for_logout, socket, server, uplink, downlink,
                       thrown>>
        /\ reader' # "holding"
    BY <1>3 DEF Poll, ReadFails, Drain, stateVars, historyVars
  <2> QED  BY <2>1
<1>4. CASE ReadFrame
  BY <1>4 DEF ReadFrame, stateVars, historyVars
<1>5. CASE ProcessFrame \/ ProcessGlued
  <2>1. /\ UNCHANGED <<logout, waiting_for_logout, socket, server, uplink, downlink,
                       thrown>>
        /\ reader' = "poll"
    BY <1>5 DEF ProcessFrame, ProcessGlued, process_frame, historyVars
  <2> QED  BY <2>1
<1>6. CASE EndLogout \/ ProcessError
  <2>1. /\ socket' = "closed" /\ server' = "none" /\ uplink' = <<>> /\ downlink' = <<>>
        /\ reader' = "poll" /\ logout' /\ (waiting_for_logout' => waiting_for_logout)
    BY <1>6 DEF EndLogout, ProcessError, process_frame, close_socket, ends_logout
  <2> QED  BY <2>1
<1>7. CASE Throw
  BY <1>7 DEF Throw
<1>8. CASE Answer \/ Refuse \/ HangUp
  <2>1. PICK fs : Served(fs)
    BY <1>8, ServedEffect
  <2>2. /\ UNCHANGED <<logout, waiting_for_logout, socket, thrown>>
        /\ server # "none" /\ server' # "none"
    BY <2>1 DEF Served, take_request, stateVars, readerVars
  <2> QED  BY <2>2 DEF TypeOK
<1>9. CASE Leave \/ Broadcast
  <2>1. /\ UNCHANGED <<logout, waiting_for_logout, socket, thrown>>
        /\ server # "none" /\ server' # "none"
    BY <1>9 DEF Leave, Broadcast, stateVars, historyVars
  <2> QED  BY <2>1 DEF TypeOK
<1> QED  BY <1>1, <1>2, <1>3, <1>4, <1>5, <1>6, <1>7, <1>8, <1>9
         DEF Next, Keyboard, Reader, Server

-----------------------------------------------------------------------------
(* What has gone wrong.                                                     *)

LEMMA OrderlyStep ==
  ASSUME TypeOK, Flags, Orderly, LastRequest, Next
  PROVE  Orderly'
<1>0. NoFrame.kind = "CONNECTED"
  BY DEF NoFrame, Frame
<1>1. CASE Login
  <2>1. /\ UNCHANGED <<reader, held, downlink, thrown>>
        /\ orderly' => orderly /\ server' = "fresh"
    BY <1>1, LoginEffect DEF Login, readerVars
  <2> QED  BY <2>1 DEF Orderly
<1>2. CASE JoinOrExit \/ Report \/ Complain \/ Logout
  <2>1. /\ UNCHANGED <<reader, held, downlink, thrown, orderly, server>>
        /\ ~waiting_for_logout
    BY <1>2 DEF JoinOrExit, join_or_exit, Report, Complain, Logout, logged_in_line, type_line,
                readerVars, historyVars
  <2> QED  BY <2>1 DEF Orderly
<1>3. CASE Poll \/ ReadFails \/ Drain
  <2>1. /\ UNCHANGED <<held, downlink, orderly, thrown, server, waiting_for_logout>>
        /\ reader' = "draining" => reader = "draining"
    BY <1>3 DEF Poll, ReadFails, Drain, stateVars, historyVars
  <2> QED  BY <2>1 DEF Orderly
<1>4. CASE ReadFrame
  <2>1. /\ held' = downlink[1] /\ 1 \in 1 .. Len(downlink)
        /\ \A i \in 1 .. Len(downlink') :
              i + 1 \in 1 .. Len(downlink) /\ downlink'[i] = downlink[i + 1]
    BY <1>4, ReadEffect
  <2>2. /\ UNCHANGED <<orderly, thrown, server, waiting_for_logout>>
        /\ reader' # "draining"
    BY <1>4 DEF ReadFrame, stateVars, historyVars
  <2> QED  BY <2>1, <2>2 DEF Orderly
<1>5. CASE ProcessFrame \/ ProcessGlued
  <2>1. /\ UNCHANGED <<downlink, orderly, thrown, server, waiting_for_logout>>
        /\ reader' = "poll" /\ held' = NoFrame
    BY <1>5 DEF ProcessFrame, ProcessGlued, process_frame, historyVars
  <2> QED  BY <1>0, <2>1 DEF Orderly
<1>6. CASE EndLogout \/ ProcessError
  <2>1. /\ UNCHANGED <<orderly, thrown>> /\ server' = "none" /\ downlink' = <<>>
        /\ reader' = "poll" /\ held' = NoFrame
    BY <1>6 DEF EndLogout, ProcessError, process_frame, close_socket, historyVars
  <2> QED  BY <1>0, <2>1 DEF Orderly
<1>7. CASE Throw
  BY <1>7 DEF Throw, Orderly
<1>8. CASE Answer \/ Refuse \/ HangUp
  <2>1. PICK fs : Served(fs)
    BY <1>8, ServedEffect
  <2>2. /\ \A i \in 1 .. Len(downlink') :
              \/ i \in 1 .. Len(downlink) /\ downlink'[i] = downlink[i]
              \/ /\ i - Len(downlink) \in 1 .. Len(fs)
                 /\ downlink'[i] = fs[i - Len(downlink)]
    BY <2>1, ReplyEffect DEF Served
  <2>3. request.kind = "DISCONNECT" => waiting_for_logout
    BY <2>1, TakeEffect DEF Served, LastRequest
  <2>4. UNCHANGED <<reader, held, thrown, waiting_for_logout>>
    BY <2>1 DEF Served, take_request, readerVars, stateVars
  <2> QED  BY <2>1, <2>2, <2>3, <2>4 DEF Served, Orderly
<1>9. CASE Leave
  BY <1>9 DEF Leave, Orderly, stateVars, readerVars, historyVars
<1>10. CASE Broadcast
  <2>1. PICK fs \in Seq(Frames) :
            /\ downlink' = downlink \o fs
            /\ \A j \in 1 .. Len(fs) : fs[j].kind \in {"MESSAGE", "unparsable"}
    BY <1>10, BroadcastEffect
  <2>2. \A i \in 1 .. Len(downlink') :
              \/ i \in 1 .. Len(downlink) /\ downlink'[i] = downlink[i]
              \/ /\ i - Len(downlink) \in 1 .. Len(fs)
                 /\ downlink'[i] = fs[i - Len(downlink)]
    BY <2>1, ReplyEffect
  <2>3. UNCHANGED <<reader, held, thrown, orderly, server, waiting_for_logout>>
    BY <1>10 DEF Broadcast, readerVars, stateVars
  <2> QED  BY <2>1, <2>2, <2>3 DEF Orderly
<1> QED  BY <1>1, <1>2, <1>3, <1>4, <1>5, <1>6, <1>7, <1>8, <1>9, <1>10
         DEF Next, Keyboard, Reader, Server

-----------------------------------------------------------------------------
(* The requests and receipts of a logout.                                   *)

\* Without a logout under way no DISCONNECT is on its way.
LEMMA NoDisconnect ==
  ASSUME LastRequest, ~waiting_for_logout
  PROVE  \A i \in 1 .. Len(uplink) : uplink[i].kind # "DISCONNECT"
  BY DEF LastRequest

LEMMA LastRequestStep ==
  ASSUME SessionTypes, LastRequest, Next
  PROVE  LastRequest'
<1> USE DEF LastRequest, NothingAfterDisconnect, requests_of
<1>0. TypeOK /\ uplink \in Seq(Requests)
  BY DEF SessionTypes, TypeOK
<1>1. CASE Login
  <2>1. PICK s \in Seq(Requests) :
            send(s) /\ Len(s) = 1 /\ s[1].kind \in {"CONNECT", "junk"}
    BY <1>0, <1>1, LoginEffect
  <2>2. ~waiting_for_logout
    BY <1>1 DEF Login, type_line
  <2>3. \A i \in 1 .. Len(uplink') : uplink'[i].kind # "DISCONNECT"
    BY <1>0, <2>1, <2>2, NoDisconnect, SentOnes
  <2> QED  BY <2>3
<1>2. CASE JoinOrExit \/ Report \/ Complain \/ Logout
  <2>1. PICK s : Command(s)
    BY <1>2, CommandEffect
  <2>2. \A i \in 1 .. Len(uplink) : uplink[i].kind # "DISCONNECT"
    BY <2>1, NoDisconnect DEF Command, logged_in_line, type_line
  <2>3. CASE \A i \in 1 .. Len(s) : s[i].kind # "DISCONNECT"
    <3>1. \A i \in 1 .. Len(uplink') : uplink'[i].kind # "DISCONNECT"
      BY <1>0, <2>1, <2>2, <2>3, SentOnes DEF Command
    <3> QED  BY <3>1
  <2>4. CASE /\ waiting_for_logout' /\ disconnect_id' = recipt_id
             /\ s = <<Request("DISCONNECT", recipt_id)>>
    <3>1. \A j \in 1 .. Len(s) : j = Len(s) /\ s[j].id = recipt_id
      BY <2>4 DEF Request
    <3>2. \A i \in 1 .. Len(uplink') : uplink'[i].kind = "DISCONNECT" =>
             i = Len(uplink') /\ uplink'[i].id = recipt_id
      BY <1>0, <2>1, <2>2, <3>1, SentOnes DEF Command
    <3> QED  BY <2>4, <3>2
  <2> QED  BY <2>1, <2>3, <2>4 DEF Command
<1>3. CASE Poll \/ ReadFrame \/ ReadFails \/ Drain \/ ProcessFrame \/ ProcessGlued
           \/ Throw \/ Leave \/ Broadcast
  <2>1. UNCHANGED <<uplink, waiting_for_logout, disconnect_id>>
    BY <1>3 DEF Poll, ReadFrame, ReadFails, Drain, ProcessFrame, ProcessGlued, process_frame,
                Throw, Leave, Broadcast, stateVars
  <2> QED  BY <2>1
<1>4. CASE EndLogout \/ ProcessError
  <2>1. uplink' = <<>>
    BY <1>4 DEF EndLogout, ProcessError, close_socket
  <2> QED  BY <2>1
<1>5. CASE Answer \/ Refuse \/ HangUp
  <2>1. take_request /\ UNCHANGED <<waiting_for_logout, disconnect_id>>
    BY <1>5 DEF Answer, Refuse, HangUp, take_request, stateVars
  <2> QED  BY <1>0, <2>1, TakeEffect
<1> QED  BY <1>1, <1>2, <1>3, <1>4, <1>5 DEF Next, Keyboard, Reader, Server

LEMMA KnownIdsStep ==
  ASSUME SessionTypes, KnownIds, Next
  PROVE  KnownIds'
<1> USE DEF KnownIds
<1>0. /\ TypeOK /\ uplink \in Seq(Requests) /\ recipt_id \in Nat
      /\ NoFrame.kind = "CONNECTED"
  BY IdsAreNat DEF SessionTypes, TypeOK, NoFrame, Frame
<1>1. CASE Login
  <2>1. PICK s \in Seq(Requests) :
            send(s) /\ Len(s) = 1 /\ s[1].kind \in {"CONNECT", "junk"}
    BY <1>0, <1>1, LoginEffect
  <2>2. UNCHANGED <<recipt_id, held, downlink>>
    BY <1>1 DEF Login, readerVars
  <2> QED  BY <1>0, <2>1, <2>2, SentOnes DEF Asking
<1>2. CASE JoinOrExit \/ Report \/ Complain \/ Logout
  <2>1. PICK s : Command(s)
    BY <1>2, CommandEffect
  <2>2. /\ UNCHANGED <<held, downlink>> /\ recipt_id' \in Nat /\ recipt_id <= recipt_id'
        /\ \A i \in 1 .. Len(s) :
              s[i].kind \in Asking => s[i].id \in recipt_id .. recipt_id' - 1
    BY <2>1, IdsAreNat DEF Command, logged_in_line, readerVars
  <2>3. \A i \in 1 .. Len(uplink') :
           uplink'[i].kind \in Asking => uplink'[i].id \in 0 .. recipt_id' - 1
    <3> TAKE i \in 1 .. Len(uplink')
    <3>1. CASE i \in 1 .. Len(uplink) /\ uplink'[i] = uplink[i]
      BY <1>0, <2>2, <3>1
    <3>2. CASE \E j \in 1 .. Len(s) : uplink'[i] = s[j]
      BY <1>0, <2>2, <3>2
    <3> QED  BY <1>0, <2>1, <3>1, <3>2, SentOnes DEF Command
  <2> QED  BY <1>0, <2>2, <2>3
<1>3. CASE Poll \/ ReadFails \/ Drain \/ Leave
  <2>1. UNCHANGED <<uplink, downlink, held, recipt_id>>
    BY <1>3 DEF Poll, ReadFails, Drain, Leave, readerVars
  <2> QED  BY <2>1
<1>4. CASE ReadFrame
  <2>1. UNCHANGED <<uplink, recipt_id>>
    BY <1>4 DEF ReadFrame
  <2> QED  BY <1>0, <1>4, <2>1, ReadEffect
<1>5. CASE ProcessFrame \/ ProcessGlued \/ EndLogout \/ ProcessError \/ Throw
  <2>1. /\ UNCHANGED recipt_id /\ held' = NoFrame
        /\ UNCHANGED uplink \/ uplink' = <<>>
        /\ UNCHANGED downlink \/ downlink' = <<>>
    BY <1>5 DEF ProcessFrame, ProcessGlued, EndLogout, ProcessError, process_frame, Throw,
                close_socket
  <2> QED  BY <1>0, <2>1
<1>6. CASE Answer \/ Refuse \/ HangUp
  <2>1. PICK fs : Served(fs)
    BY <1>0, <1>6, ServedEffect
  <2>2. UNCHANGED <<recipt_id, held>>
    BY <2>1 DEF Served, take_request, readerVars
  <2>3. /\ request.kind \in Asking => request.id \in 0 .. recipt_id - 1
        /\ \A i \in 1 .. Len(uplink') :
              uplink'[i].kind \in Asking => uplink'[i].id \in 0 .. recipt_id - 1
    BY <1>0, <2>1, TakeEffect DEF Served
  <2>4. \A i \in 1 .. Len(downlink') :
           downlink'[i].kind = "RECIPT" => downlink'[i].id \in 0 .. recipt_id - 1
    BY <1>0, <2>1, <2>3, WrittenOnes DEF Served
  <2> QED  BY <2>2, <2>3, <2>4
<1>7. CASE Broadcast
  <2>1. PICK fs \in Seq(Frames) :
            /\ downlink' = downlink \o fs
            /\ \A j \in 1 .. Len(fs) : fs[j].kind \in {"MESSAGE", "unparsable"}
    BY <1>0, <1>7, BroadcastEffect
  <2>2. UNCHANGED <<uplink, recipt_id, held>>
    BY <1>7 DEF Broadcast, readerVars
  <2> QED  BY <1>0, <2>1, <2>2, WrittenOnes
<1> QED  BY <1>1, <1>2, <1>3, <1>4, <1>5, <1>6, <1>7 DEF Next, Keyboard, Reader, Server

LEMMA LastReceiptStep ==
  ASSUME SessionTypes, LastRequest, KnownIds, LastReceipt, Next
  PROVE  LastReceipt'
<1>0. /\ TypeOK /\ uplink \in Seq(Requests) /\ downlink \in Seq(Frames) /\ recipt_id \in Nat
      /\ NoFrame.kind = "CONNECTED"
  BY IdsAreNat DEF SessionTypes, TypeOK, NoFrame, Frame
<1>1. CASE Login
  <2>1. ~waiting_for_logout' /\ disconnect_id' = NoId
    BY <1>1 DEF Login, type_line
  <2> QED  BY <2>1 DEF LastReceipt, awaited
<1>2. CASE JoinOrExit \/ Report \/ Complain \/ Logout
  <2>1. PICK s : Command(s)
    BY <1>2, CommandEffect
  <2>2. ~waiting_for_logout /\ UNCHANGED <<held, downlink, socket>>
    BY <2>1 DEF Command, logged_in_line, type_line, readerVars
  <2>3. CASE UNCHANGED <<logout, waiting_for_logout, disconnect_id>>
    BY <2>2, <2>3 DEF LastReceipt, awaited
  <2>4. CASE /\ waiting_for_logout' /\ disconnect_id' = recipt_id
             /\ s = <<Request("DISCONNECT", recipt_id)>>
    <3>1. Len(s) = 1 /\ s[1].kind = "DISCONNECT"
      BY <2>4 DEF Request
    <3>2. /\ \A i \in 1 .. Len(uplink) :
                uplink[i].kind \in Asking => uplink[i].id # recipt_id
          /\ \A i \in 1 .. Len(downlink) :
                downlink[i].kind = "RECIPT" => downlink[i].id # recipt_id
          /\ held.kind = "RECIPT" => held.id # recipt_id
      BY <1>0 DEF KnownIds
    <3>3. \A i \in 1 .. Len(uplink') :
             uplink'[i].kind \in Asking /\ uplink'[i].id = recipt_id =>
                uplink'[i].kind = "DISCONNECT"
      BY <1>0, <2>1, <3>1, <3>2, SentOnes DEF Command
    <3> QED  BY <2>2, <2>4, <3>2, <3>3 DEF LastReceipt, awaited
  <2> QED  BY <2>1, <2>3, <2>4 DEF Command
<1>3. CASE Poll \/ ReadFails \/ Drain \/ Leave
  <2>1. /\ UNCHANGED <<uplink, downlink, held, disconnect_id, waiting_for_logout, socket>>
        /\ UNCHANGED server \/ server' = "gone"
    BY <1>3 DEF Poll, ReadFails, Drain, Leave, readerVars, stateVars
  <2> QED  BY <2>1 DEF LastReceipt, awaited
<1>4. CASE ReadFrame
  <2>1. UNCHANGED <<uplink, disconnect_id, waiting_for_logout, socket, server>>
    BY <1>4 DEF ReadFrame, stateVars
  <2>2. /\ held' = downlink[1] /\ 1 \in 1 .. Len(downlink) /\ downlink' \in Seq(Frames)
        /\ Len(downlink') = Len(downlink) - 1
        /\ \A i \in 1 .. Len(downlink') :
              i + 1 \in 1 .. Len(downlink) /\ downlink'[i] = downlink[i + 1]
    BY <1>0, <1>4, ReadEffect
  <2>3. 1 = Len(downlink) => downlink' = <<>>
    <3>1. 1 = Len(downlink) => Len(downlink') = 0
      BY <1>0, <2>2, LenProperties
    <3> QED  BY <2>2, <3>1, EmptySeq
  <2>4. held'.kind = "RECIPT" /\ awaited(held'.id) =>
           downlink' = <<>> /\ uplink = <<>> /\ server \in {"leaving", "gone"}
    BY <2>2, <2>3 DEF LastReceipt, awaited
  <2>5. \A i \in 1 .. Len(downlink') :
           downlink'[i].kind = "RECIPT" /\ awaited(downlink'[i].id) =>
              i = Len(downlink') /\ uplink = <<>> /\ server \in {"leaving", "gone"}
    <3>1. Len(downlink) \in Nat
      BY <1>0, LenProperties
    <3> QED  BY <2>2, <3>1 DEF LastReceipt, awaited
  <2> QED  BY <2>1, <2>4, <2>5 DEF LastReceipt, awaited
<1>5. CASE ProcessFrame \/ ProcessGlued \/ Throw
  <2>1. /\ UNCHANGED <<uplink, downlink, disconnect_id, waiting_for_logout, socket, server>>
        /\ held' = NoFrame
    BY <1>5 DEF ProcessFrame, ProcessGlued, process_frame, Throw
  <2> QED  BY <1>0, <2>1 DEF LastReceipt, awaited
<1>6. CASE EndLogout \/ ProcessError
  <2>1. /\ uplink' = <<>> /\ downlink' = <<>> /\ socket' = "closed" /\ held' = NoFrame
    BY <1>6 DEF EndLogout, ProcessError, process_frame, close_socket
  <2> QED  BY <1>0, <2>1 DEF LastReceipt, awaited
<1>7. CASE Answer \/ Refuse \/ HangUp
  <2>1. PICK fs : Served(fs)
    BY <1>0, <1>7, ServedEffect
  <2>2. UNCHANGED <<held, disconnect_id, waiting_for_logout, socket>>
    BY <2>1 DEF Served, take_request, readerVars, stateVars
  <2>3. /\ uplink # <<>> /\ request = uplink[1] /\ 1 \in 1 .. Len(uplink)
        /\ uplink' \in Seq(Requests) /\ Len(uplink') = Len(uplink) - 1
        /\ \A i \in 1 .. Len(uplink') :
              i + 1 \in 1 .. Len(uplink) /\ uplink'[i] = uplink[i + 1]
    BY <1>0, <2>1, TakeEffect DEF Served
  <2>4. /\ \A i \in 1 .. Len(downlink) :
              downlink[i].kind = "RECIPT" => ~awaited(downlink[i].id)
        /\ held.kind = "RECIPT" => ~awaited(held.id)
    BY <2>3 DEF LastReceipt, awaited
  <2>5. \A i \in 1 .. Len(uplink') :
           uplink'[i].kind \in Asking /\ awaited(uplink'[i].id) =>
              uplink'[i].kind = "DISCONNECT"
    BY <2>3 DEF LastReceipt, awaited
  <2>6. request.kind \in Asking /\ awaited(request.id) =>
           uplink' = <<>> /\ server' \in {"leaving", "gone"}
    <3>1. request.kind = "DISCONNECT" => 1 = Len(uplink)
      BY <2>3 DEF LastRequest, NothingAfterDisconnect, requests_of
    <3>2. request.kind = "DISCONNECT" => Len(uplink') = 0
      BY <1>0, <2>3, <3>1, LenProperties
    <3>3. request.kind \in Asking /\ awaited(request.id) => request.kind = "DISCONNECT"
      BY <2>3 DEF LastReceipt, awaited
    <3> QED  BY <2>1, <2>3, <3>2, <3>3, EmptySeq DEF Served
  <2>7. \A i \in 1 .. Len(downlink') :
           downlink'[i].kind = "RECIPT" /\ awaited(downlink'[i].id) =>
              i = Len(downlink') /\ uplink' = <<>> /\ server' \in {"leaving", "gone"}
    <3>1. \A i \in 1 .. Len(downlink') :
             \/ i \in 1 .. Len(downlink) /\ downlink'[i] = downlink[i]
             \/ \E j \in 1 .. Len(fs) :
                   downlink'[i] = fs[j] /\ (j = Len(fs) => i = Len(downlink'))
      BY <1>0, <2>1, WrittenOnes DEF Served
    <3>2. \A i \in 1 .. Len(fs) : fs[i].kind = "RECIPT" =>
             i = Len(fs) /\ fs[i].id = request.id /\ request.kind \in Asking
      BY <2>1 DEF Served
    <3> QED  BY <2>4, <2>6, <3>1, <3>2
  <2> QED  BY <2>2, <2>4, <2>5, <2>7 DEF LastReceipt, awaited
<1>8. CASE Broadcast
  <2>1. PICK fs \in Seq(Frames) :
            /\ downlink' = downlink \o fs
            /\ \A j \in 1 .. Len(fs) : fs[j].kind \in {"MESSAGE", "unparsable"}
    BY <1>0, <1>8, BroadcastEffect
  <2>2. /\ UNCHANGED <<uplink, held, disconnect_id, waiting_for_logout, socket, server>>
        /\ server = "up"
    BY <1>8 DEF Broadcast, readerVars, stateVars
  <2>3. \A i \in 1 .. Len(downlink') :
           downlink'[i].kind = "RECIPT" => ~awaited(downlink'[i].id)
    <3>1. \A i \in 1 .. Len(downlink) :
             downlink[i].kind = "RECIPT" => ~awaited(downlink[i].id)
      BY <2>2 DEF LastReceipt, awaited
    <3> QED  BY <1>0, <2>1, <3>1, WrittenOnes
  <2> QED  BY <2>2, <2>3 DEF LastReceipt, awaited
<1> QED  BY <1>1, <1>2, <1>3, <1>4, <1>5, <1>6, <1>7, <1>8
         DEF Next, Keyboard, Reader, Server

-----------------------------------------------------------------------------
(* The counter.                                                             *)

\* The frames a queue of requests stands for: owed is that of the uplink.
owing(q) == Cardinality(places(q, Counted))

LEMMA Owed == owed = owing(uplink) /\ owed' = owing(uplink')
<1>1. Counted = {"CONNECT", "SUBSCRIBE", "UNSUBSCRIBE", "SEND", "DISCONNECT"}
  BY DEF Counted, Asking
<1> QED  BY <1>1 DEF owed, owing, requests_of, places

\* It is a number, and none for an empty queue.
LEMMA OwingType ==
  ASSUME NEW q \in Seq(Requests)
  PROVE  owing(q) \in Nat /\ (q = <<>> => owing(q) = 0)
BY PlacesFinite DEF owing

\* Requests that count add one each.
LEMMA OwingConcat ==
  ASSUME NEW q \in Seq(Requests), NEW s \in Seq(Requests)
  PROVE  /\ (\A i \in 1 .. Len(s) : s[i].kind \in Counted) =>
               owing(q \o s) = owing(q) + Len(s)
         /\ (\A i \in 1 .. Len(s) : s[i].kind \notin Counted) =>
               owing(q \o s) = owing(q)
BY CountConcat DEF owing

\* Taking a request takes its weight.
LEMMA OwingTail ==
  ASSUME NEW q \in Seq(Requests), q # <<>>
  PROVE  owing(Tail(q)) = owing(q) - weight(Head(q))
BY CountTail DEF owing, weight

\* No report is on its way to the server.
NoReport(q) == \A i \in 1 .. Len(q) : q[i].kind # "SEND"

LEMMA Reportless ==
  /\ requests_of({"SEND"}) = {} <=> NoReport(uplink)
  /\ requests_of({"SEND"})' = {} <=> NoReport(uplink')
BY DEF requests_of, NoReport

\* Nor was it before some more requests were sent, nor among those.
LEMMA ConcatNoReport ==
  ASSUME NEW q \in Seq(Requests), NEW s \in Seq(Requests), NoReport(q \o s)
  PROVE  NoReport(q) /\ NoReport(s)
<1>1. /\ Len(q) \in Nat /\ Len(s) \in Nat /\ Len(q \o s) = Len(q) + Len(s)
      /\ \A i \in 1 .. Len(q) : i \in 1 .. Len(q \o s) /\ (q \o s)[i] = q[i]
      /\ \A i \in 1 .. Len(s) : /\ Len(q) + i \in 1 .. Len(q \o s)
                                /\ (q \o s)[Len(q) + i] = s[i]
  BY ConcatProperties, LenProperties
<1> QED  BY <1>1 DEF NoReport

\* A command counts as many frames as its requests stand for, or it sends
\* reports and counts more.
LEMMA AskedEffect ==
  ASSUME SessionTypes, JoinOrExit \/ Report \/ Complain \/ Logout
  PROVE  \E s \in Seq(Requests), n \in Nat, m \in Nat :
            /\ logged_in_line /\ send(s)
            /\ waiting_message' = waiting_message + n
            /\ owing(uplink \o s) = owing(uplink) + m
            /\ m = n \/ (m <= n /\ ~NoReport(s))
<1>0. /\ uplink \in Seq(Requests) /\ waiting_message \in Nat /\ owing(uplink) \in Nat
      /\ recipt_id \in Ids
  BY OwingType DEF SessionTypes, TypeOK
<1>1. CASE JoinOrExit \/ Logout
  <2>1. PICK kind \in {"SUBSCRIBE", "UNSUBSCRIBE", "DISCONNECT"} :
           send(<<Request(kind, recipt_id)>>)
    BY <1>1 DEF JoinOrExit, join_or_exit, Logout
  <2> DEFINE s == <<Request(kind, recipt_id)>>
  <2>2. s \in Seq(Requests) /\ Len(s) = 1 /\ \A i \in 1 .. Len(s) : s[i].kind = kind
    BY <1>0 DEF Request, Requests
  <2>3. \A i \in 1 .. Len(s) : s[i].kind \in Counted
    BY <2>2 DEF Counted, Asking
  <2> HIDE DEF s
  <2>4. owing(uplink \o s) = owing(uplink) + 1
    BY <1>0, <2>2, <2>3, OwingConcat
  <2>5. logged_in_line /\ waiting_message' = waiting_message + 1
    BY <1>1 DEF JoinOrExit, join_or_exit, Logout, more_waiting
  <2>6. send(s)
    BY <2>1 DEF s
  <2> QED  BY <2>2, <2>4, <2>5, <2>6
<1>2. CASE Report
  <2>1. PICK k \in 1 .. MaxEvents :
           /\ logged_in_line
           /\ more_waiting(2 * k)
           /\ send([i \in 1 .. k |-> Request("SEND", recipt_id + i - 1)])
    BY <1>2 DEF Report
  <2> DEFINE s == [i \in 1 .. k |-> Request("SEND", recipt_id + i - 1)]
  <2>2. s \in Seq(Requests) /\ Len(s) = k /\ \A i \in 1 .. Len(s) : s[i].kind = "SEND"
    <3>1. type_line /\ recipt_id \in Nat /\ MaxEvents \in Nat /\ Ids = 0 .. MaxId
          /\ MaxId \in Nat
      BY <1>0, <2>1, IdsAreNat, SessionAssumption DEF logged_in_line, Ids
    <3>2. recipt_id + k \in Ids
      BY <3>1, IdsLast
    <3>3. \A i \in 1 .. k : recipt_id + i - 1 \in Ids
      BY <3>1, <3>2
    <3> QED  BY <3>1, <3>3 DEF Request, Requests
  <2>3. send(s) /\ logged_in_line /\ waiting_message' = waiting_message + 2 * k
    BY <2>1 DEF more_waiting
  <2> HIDE DEF s
  <2>4. owing(uplink \o s) = owing(uplink) + k
    BY <1>0, <2>2, OwingConcat DEF Counted, Asking
  <2>5. k \in Nat /\ 2 * k \in Nat /\ k <= 2 * k /\ 1 \in 1 .. k
    BY SessionAssumption
  <2>6. ~NoReport(s)
    BY <2>2, <2>5 DEF NoReport
  <2> QED  BY <2>2, <2>3, <2>4, <2>5, <2>6
<1>3. CASE Complain
  <2> DEFINE s == <<Request("junk", NoId)>>
  <2>1. s \in Seq(Requests) /\ Len(s) = 1 /\ \A i \in 1 .. 1 : s[i].kind \notin Counted
    BY DEF Request, Requests, Counted, Asking
  <2>2. send(s) /\ logged_in_line /\ waiting_message' = waiting_message
    BY <1>3 DEF Complain, stateVars
  <2> HIDE DEF s
  <2>3. owing(uplink \o s) = owing(uplink) + 0 /\ waiting_message' = waiting_message + 0
    BY <1>0, <2>1, <2>2, OwingConcat
  <2> QED  BY <2>1, <2>2, <2>3
<1> QED  BY <1>1, <1>2, <1>3

\* When the receipt of a DISCONNECT is processed it is the last frame there is,
\* so that a counter that is not short says one, and no other report has come.
LEMMA LastFrame ==
  ASSUME SessionTypes, Flags, KnownIds, LastReceipt, CounterIsShort, EndLogout, orderly
  PROVE  waiting_message = 1 /\ foreign = 0
<1>0. /\ TypeOK /\ uplink \in Seq(Requests) /\ waiting_message \in Nat /\ foreign \in Nat
      /\ recipt_id \in Nat
  BY IdsAreNat, SessionAssumption DEF SessionTypes, TypeOK
<1>1. /\ reader = "holding" /\ held.kind = "RECIPT" /\ held.id = disconnect_id
      /\ waiting_message > 0
  BY DEF EndLogout, process_frame, ends_logout, SessionTypes
<1>2. socket = "open"
  BY <1>0, <1>1 DEF Flags, TypeOK
<1>3. held.id # NoId
  BY <1>0, <1>1, SessionAssumption DEF KnownIds
<1>4. downlink = <<>> /\ uplink = <<>>
  BY <1>1, <1>2, <1>3 DEF LastReceipt, awaited
<1>5. owed = 0 /\ unread = 1
  <2>1. owing(uplink) = 0 /\ Len(downlink) = 0
    BY <1>0, <1>4, OwingType, EmptySeq
  <2> QED  BY <1>1, <2>1, Owed DEF unread
<1>6. waiting_message + foreign = 1
  <2>1. requests_of({"SEND"}) = {}
    BY <1>4 DEF requests_of
  <2> QED  BY <1>2, <1>5, <2>1 DEF CounterIsShort
<1> QED  BY <1>0, <1>1, <1>6

\* What a step of the counter compares: it is enough that both sides move alike
\* on an open connection on which nothing has gone wrong.
LEMMA CounterStep ==
  ASSUME SessionTypes, Flags, Orderly, KnownIds, LastReceipt, CounterIsShort, Next
  PROVE  CounterIsShort'
<1>0. /\ TypeOK /\ uplink \in Seq(Requests) /\ downlink \in Seq(Frames)
      /\ waiting_message \in Nat /\ foreign \in Nat
      /\ Len(downlink) \in Nat /\ owing(uplink) \in Nat
  BY OwingType, LenProperties, SessionAssumption DEF SessionTypes, TypeOK
<1>1. /\ owed = owing(uplink) /\ owed' = owing(uplink')
      /\ requests_of({"SEND"}) = {} <=> NoReport(uplink)
      /\ requests_of({"SEND"})' = {} <=> NoReport(uplink')
  BY Owed, Reportless
<1>2. CASE Login
  <2>1. PICK s \in Seq(Requests) :
            /\ send(s) /\ Len(s) = 1 /\ s[1].kind \in {"CONNECT", "junk"}
            /\ orderly' = (orderly /\ server' = "fresh" /\ s[1].kind = "CONNECT")
            /\ socket' = "open"
            /\ \/ socket = "closed" /\ foreign' = 0
               \/ socket = "open"
    BY <1>0, <1>2, LoginEffect
  <2>2. /\ logout /\ ~waiting_for_logout /\ waiting_message' = waiting_message + 1
        /\ UNCHANGED <<reader, downlink, thrown>>
    BY <1>2 DEF Login, type_line, more_waiting, readerVars
  <2>3. CASE socket = "open"
    <3>1. thrown /\ ~orderly
      BY <2>2, <2>3 DEF Flags, SocketFollowsFlags, Orderly
    <3> QED  BY <2>1, <2>2, <3>1 DEF CounterIsShort
  <2>4. CASE socket = "closed"
    <3>1. uplink = <<>> /\ Len(downlink) = 0 /\ reader # "holding" /\ owing(uplink) = 0
      BY <1>0, <2>4, OwingType, EmptySeq DEF Flags
    <3>2. unread' = 0 /\ foreign' = 0
      BY <2>1, <2>2, <2>4, <3>1 DEF unread
    <3>3. /\ owing(uplink \o s) \in {0, 1}
          /\ s[1].kind = "CONNECT" => owing(uplink \o s) = 1
      <4>1. CASE s[1].kind = "CONNECT"
        <5>1. \A i \in 1 .. Len(s) : s[i].kind \in Counted
          BY <2>1, <4>1 DEF Counted
        <5>2. owing(uplink \o s) = owing(uplink) + Len(s)
          BY <1>0, <5>1, OwingConcat
        <5> QED  BY <2>1, <3>1, <5>2
      <4>2. CASE s[1].kind = "junk"
        <5>1. \A i \in 1 .. Len(s) : s[i].kind \notin Counted
          BY <2>1, <4>2 DEF Counted, Asking
        <5> QED  BY <1>0, <3>1, <4>2, <5>1, OwingConcat
      <4> QED  BY <2>1, <4>1, <4>2
    <3>4. owing(uplink') \in {0, 1}
      BY <2>1, <3>1, <3>3 DEF send
    <3>5. orderly' => owing(uplink') = 1 /\ waiting_message = 0
      <4>1. orderly' => owing(uplink') = 1
        BY <2>1, <3>3 DEF send
      <4>2. requests_of({"SEND"}) = {}
        BY <3>1 DEF requests_of
      <4> QED  BY <2>1, <2>4, <4>1, <4>2 DEF CounterIsShort
    <3>6. CounterIsShort'
      BY <1>0, <1>1, <2>1, <2>2, <3>2, <3>4, <3>5 DEF CounterIsShort
    <3> QED  BY <3>6
  <2> QED  BY <2>1, <2>3, <2>4
<1>3. CASE JoinOrExit \/ Report \/ Complain \/ Logout
  <2>1. PICK s \in Seq(Requests), n \in Nat, m \in Nat :
            /\ logged_in_line /\ send(s)
            /\ waiting_message' = waiting_message + n
            /\ owing(uplink \o s) = owing(uplink) + m
            /\ m = n \/ (m <= n /\ ~NoReport(s))
    BY <1>3, AskedEffect
  <2>2. /\ UNCHANGED <<reader, downlink, socket, server, foreign, orderly, thrown>>
        /\ ~waiting_for_logout /\ ~logout
    BY <2>1 DEF logged_in_line, type_line, readerVars, historyVars
  <2>3. unread' = unread /\ unread \in Nat
    BY <1>0, <2>2 DEF unread
  <2>4. socket = "open" /\ (orderly => server # "gone")
    BY <1>0, <2>2 DEF Flags, Orderly, TypeOK
  <2>5. \/ uplink' = uplink \o s
        \/ owing(uplink') = owing(uplink) /\ ~orderly
    BY <2>1, <2>2, <2>4 DEF send
  <2>6. CASE uplink' = uplink \o s
    <3>1. /\ owed' + unread' = owed + unread + m
          /\ waiting_message' + foreign' = waiting_message + foreign + n
          /\ owed + unread \in Nat /\ waiting_message + foreign \in Nat
      BY <1>0, <1>1, <2>1, <2>2, <2>3, <2>6
    <3>2. NoReport(uplink') => NoReport(uplink) /\ NoReport(s)
      BY <1>0, <2>1, <2>6, ConcatNoReport
    <3> HIDE DEF owed, unread
    <3>3. orderly' /\ requests_of({"SEND"})' = {} =>
             waiting_message' + foreign' = owed' + unread'
      BY <1>1, <2>1, <2>2, <2>4, <3>1, <3>2 DEF CounterIsShort
    <3>4. ~thrown' => waiting_message' + foreign' >= owed' + unread'
      BY <2>1, <2>2, <3>1 DEF CounterIsShort
    <3> QED  BY <2>2, <2>4, <3>3, <3>4 DEF CounterIsShort
  <2>7. CASE owing(uplink') = owing(uplink) /\ ~orderly
    BY <1>0, <1>1, <2>1, <2>2, <2>3, <2>7 DEF CounterIsShort
  <2> QED  BY <2>5, <2>6, <2>7
<1>4. CASE Poll \/ ReadFails \/ Leave
  <2>1. /\ UNCHANGED <<uplink, downlink, waiting_message, foreign, orderly, thrown, socket>>
        /\ reader = "holding" <=> reader' = "holding"
    BY <1>4 DEF Poll, ReadFails, Leave, readerVars, stateVars, historyVars
  <2>2. unread' = unread
    BY <2>1 DEF unread
  <2> QED  BY <1>1, <2>1, <2>2 DEF CounterIsShort
<1>5. CASE Drain \/ Throw
  <2>1. thrown' /\ ~orderly'
    BY <1>5 DEF Drain, Throw, historyVars, Orderly
  <2> QED  BY <2>1 DEF CounterIsShort
<1>6. CASE ReadFrame
  <2>1. /\ UNCHANGED <<uplink, waiting_message, foreign, orderly, thrown, socket>>
        /\ reader = "reading" /\ reader' = "holding"
    BY <1>6 DEF ReadFrame, stateVars, historyVars
  <2>2. unread' = unread
    BY <1>0, <1>6, <2>1, ReadEffect DEF unread
  <2> QED  BY <1>1, <2>1, <2>2 DEF CounterIsShort
<1>7. CASE ProcessFrame \/ ProcessGlued
  <2>1. /\ UNCHANGED <<uplink, downlink, foreign, orderly, thrown, socket>>
        /\ waiting_message' = waiting_message - 1
        /\ reader = "holding" /\ reader' = "poll"
    BY <1>7 DEF ProcessFrame, ProcessGlued, process_frame, historyVars
  <2>2. unread' = unread - 1 /\ unread \in Nat
    BY <1>0, <2>1 DEF unread
  <2>3. socket = "open"
    BY <1>0, <2>1 DEF Flags, TypeOK
  <2> QED  BY <1>0, <1>1, <2>1, <2>2, <2>3 DEF CounterIsShort
<1>8. CASE EndLogout \/ ProcessError
  <2>1. /\ socket' = "closed" /\ uplink' = <<>> /\ downlink' = <<>> /\ reader' = "poll"
        /\ UNCHANGED <<foreign, orderly, thrown>>
        /\ waiting_message' = waiting_message - 1
    BY <1>8 DEF EndLogout, ProcessError, process_frame, close_socket, historyVars
  <2>2. owing(uplink') = 0 /\ unread' = 0
    <3>1. owing(<<>>) = 0 /\ Len(<<>>) = 0
      BY OwingType, EmptyQueues, EmptySeq
    <3> QED  BY <2>1, <3>1 DEF unread
  <2>3. waiting_message > 0
    BY <1>8 DEF EndLogout, ProcessError, process_frame, SessionTypes
  <2>4. orderly => waiting_message = 1
    <3>1. CASE EndLogout
      BY <3>1, LastFrame DEF SessionTypes
    <3>2. CASE ProcessError
      BY <3>2 DEF ProcessError, Orderly
    <3> QED  BY <1>8, <3>1, <3>2
  <2> QED  BY <1>0, <1>1, <2>1, <2>2, <2>3, <2>4 DEF CounterIsShort
<1>9. CASE Answer \/ Refuse \/ HangUp
  <2>1. PICK fs : Served(fs)
    BY <1>0, <1>9, ServedEffect
  <2>2. /\ UNCHANGED <<waiting_message, foreign, thrown, socket, reader>>
        /\ server \in {"fresh", "up"} /\ uplink # <<>> /\ uplink' = Tail(uplink)
        /\ orderly' => orderly
    BY <2>1 DEF Served, take_request, stateVars, readerVars
  <2>3. owing(uplink') = owing(uplink) - weight(request)
    BY <1>0, <2>2, OwingTail DEF request
  <2>4. fs \in Seq(Frames) /\ Len(downlink') = Len(downlink) + Len(fs)
    BY <1>0, <2>1, ReplyEffect DEF Served
  <2>5. unread' = unread + Len(fs) /\ unread \in Nat /\ Len(fs) \in Nat
    BY <1>0, <2>2, <2>4, LenProperties DEF unread
  <2>6. /\ weight(request) \in Nat /\ Len(fs) <= weight(request)
        /\ orderly' => Len(fs) = weight(request) /\ request.kind # "SEND"
    BY <2>1 DEF Served, weight
  <2>7. socket = "open"
    BY <1>0, <2>2 DEF Flags, TypeOK
  <2>8. /\ owed' + unread' <= owed + unread
        /\ orderly' => owed' + unread' = owed + unread
    BY <1>0, <1>1, <2>3, <2>5, <2>6
  <2>9. owed' \in Nat /\ unread' \in Nat /\ owed \in Nat
    BY <1>0, <1>1, <2>1, <2>5, TakeEffect, OwingType DEF Served
  <2>10. orderly' => CounterIsShort'
    <3>1. orderly' /\ NoReport(uplink') => NoReport(uplink)
      <4>1. /\ request = uplink[1] /\ Len(uplink') = Len(uplink) - 1
            /\ \A i \in 1 .. Len(uplink') : uplink'[i] = uplink[i + 1]
        BY <1>0, <2>1, TakeEffect DEF Served
      <4>2. \A i \in 1 .. Len(uplink) : i = 1 \/ i - 1 \in 1 .. Len(uplink')
        BY <1>0, <4>1, LenProperties
      <4>3. \A i \in 1 .. Len(uplink) : i # 1 => uplink[i] = uplink'[i - 1]
        BY <4>1, <4>2
      <4> QED  BY <2>6, <4>1, <4>2, <4>3 DEF NoReport
    <3> QED  BY <1>0, <1>1, <2>2, <2>5, <2>7, <2>8, <2>9, <3>1 DEF CounterIsShort
  <2>11. ~orderly' => CounterIsShort'
    BY <1>0, <2>2, <2>5, <2>8, <2>9 DEF CounterIsShort
  <2> QED  BY <2>10, <2>11
<1>10. CASE Broadcast
  <2>1. /\ UNCHANGED <<uplink, waiting_message, orderly, thrown, socket, reader>>
        /\ server = "up"
    BY <1>10 DEF Broadcast, stateVars, readerVars
  <2>2. PICK n \in Nat : Len(downlink') = Len(downlink) + n /\ foreign' = foreign + n
    BY <1>0, <1>10, BroadcastEffect, ReplyEffect, LenProperties
  <2>3. unread' = unread + n /\ unread \in Nat
    BY <1>0, <2>1, <2>2 DEF unread
  <2>4. socket = "open"
    BY <1>0, <2>1 DEF Flags, TypeOK
  <2> QED  BY <1>0, <1>1, <2>1, <2>2, <2>3, <2>4 DEF CounterIsShort
<1> QED  BY <1>2, <1>3, <1>4, <1>5, <1>6, <1>7, <1>8, <1>9, <1>10
         DEF Next, Keyboard, Reader, Server

-----------------------------------------------------------------------------
(* The results.                                                             *)

LEMMA WaysStep == Ways /\ Next => Ways'
<1> SUFFICES ASSUME Ways, Next  PROVE Ways'
  OBVIOUS
<1>1. TypeOK
  BY DEF Ways, SessionTypes
<1>2. SessionTypes' /\ Flags' /\ Orderly'
  BY <1>1, TypesStep, FlagsStep, OrderlyStep DEF Ways
<1>3. LastRequest' /\ KnownIds' /\ LastReceipt'
  BY LastRequestStep, KnownIdsStep, LastReceiptStep DEF Ways
<1> QED  BY <1>2, <1>3 DEF Ways

LEMMA SessionStutter == SessionInv /\ UNCHANGED vars => SessionInv'
BY DEF SessionInv, Ways, SessionTypes, TypeOK, Flags, SocketFollowsFlags, Orderly,
       LastRequest, NothingAfterDisconnect, requests_of, KnownIds, LastReceipt, awaited,
       CounterIsShort, owed, unread, vars, stateVars, readerVars, historyVars

\* Every step, and every step that changes nothing, keeps the invariant.
LEMMA SessionStep == SessionInv /\ [Next]_vars => SessionInv'
<1>1. SessionInv /\ Next => SessionInv'
  BY WaysStep, CounterStep DEF SessionInv, Ways
<1> QED  BY <1>1, SessionStutter

\* All parts of the invariant hold in every state.
LEMMA SessionAlways == Spec => []SessionInv
BY SessionInit, SessionStep, PTL DEF Spec

\* Every variable of the client keeps its type; a frame is counted down only
\* while one is expected, and receipt ids stay below their bound.
\* (socketReader.run, StateControler, MessageFactory.)
THEOREM SessionType == Spec => []TypeOK
<1>1. SessionInv => TypeOK
  BY DEF SessionInv, Ways, SessionTypes
<1> QED  BY <1>1, SessionAlways, PTL

\* While nothing has gone wrong and no report is on its way, the counter of
\* expected frames is short of the frames that come by just the copies of others'
\* reports; until an exception of the reader it is never lower than that.
\* (more_waiting_message in parseInput, less_waiting_message per frame.)
THEOREM CounterShort == Spec => []CounterIsShort
<1>1. SessionInv => CounterIsShort
  BY DEF SessionInv
<1> QED  BY <1>1, SessionAlways, PTL

\* Who is logged out and may type has no open socket, unless an exception of the
\* reader has logged him out.  (stompReceivedProcess, socketReader.run.)
THEOREM SocketFollows == Spec => []SocketFollowsFlags
<1>1. SessionInv => SocketFollowsFlags
  BY DEF SessionInv, Ways, Flags
<1> QED  BY <1>1, SessionAlways, PTL

\* A DISCONNECT is the last request on its connection.  (keyboardInputSend.run.)
THEOREM DisconnectIsLast == Spec => []NothingAfterDisconnect
<1>1. SessionInv => NothingAfterDisconnect
  BY DEF SessionInv, Ways, LastRequest
<1> QED  BY <1>1, SessionAlways, PTL

\* A step that ends an orderly logout is the processing of its receipt, with no
\* report of another before it: each of them would keep the counter at zero
\* before that receipt is read.  (less_waiting_message, stompReceivedProcess.)
THEOREM QuietLogouts == Spec => OnlyQuietLogoutsEnd
<1> DEFINE Quiet == waiting_for_logout /\ ~waiting_for_logout' /\ orderly => foreign = 0
<1>1. SessionInv /\ [Next]_vars => [Quiet]_vars
  <2> SUFFICES ASSUME SessionInv, Next, waiting_for_logout, ~waiting_for_logout', orderly
               PROVE  foreign = 0
    OBVIOUS
  <2>1. EndLogout
    BY DEF Next, Keyboard, Reader, Server, Login, JoinOrExit, join_or_exit, Report, Complain,
           Logout, logged_in_line, type_line, Poll, ReadFrame, ReadFails, ProcessFrame,
           ProcessGlued, ProcessError, Throw, Drain, Answer, Refuse, HangUp, take_request,
           Leave, Broadcast, stateVars
  <2> QED  BY <2>1, LastFrame DEF SessionInv, Ways
<1> HIDE DEF Quiet
<1>2. Spec => [][Quiet]_vars
  BY <1>1, SessionAlways, PTL DEF Spec
<1> QED  BY <1>2 DEF OnlyQuietLogoutsEnd, Quiet
=============================================================================
