------------------------- MODULE ClientPartsProofs -------------------------
(***************************************************************************)
(* Proofs about ClientCommands, for any users, addresses and servers:      *)
(* whole lines do not end the client as long as reports come whole, no     *)
(* request of theirs goes out without a session, and a login goes to the   *)
(* address of the one before it.  And about Framing,                       *)
(* which shares no variable with it, for frames of any length, any array   *)
(* and any number of frames and lost connections: the server decodes the   *)
(* frames that were sent, in order, and the client takes what is sent to   *)
(* it, in order, as long as no frame was cut off.                          *)
(***************************************************************************)
EXTENDS ClientCommands, Framing, SequenceTheorems, WellFoundedInduction, TLAPS

-----------------------------------------------------------------------------
(* Lines.                                                                   *)

\* Whole lines keep a user where a command or a frame may ask for one, and a
\* session where a command may go out.
Kept ==
    careful => /\ unbroken => alive
               /\ ~premature
               /\ session # NoUser => session = connected_user
               /\ ~logout => connected_user # NoUser
               /\ peer # NoPeer => connected_user # NoUser
               /\ ~logout /\ peer # NoPeer => session # NoUser

IInv == TypeOK /\ Kept

\* The client starts without a user and without a connection.
LEMMA CommandsInit == Init => IInv
<1> SUFFICES ASSUME Init  PROVE IInv
  OBVIOUS
<1>1. lines \in 0 .. MaxLines
  BY AddressAssumption DEF Init
<1>2. Home \in Addresses
  BY AddressAssumption
<1> QED  BY <1>1, <1>2 DEF Init, IInv, TypeOK, Kept

\* A number becomes a port, whatever it is.
LEMMA PortIsPort == \A a \in Addresses : <<a[1], as_port(a[2])>> \in Endpoints
<1>1. Word \in Nat \ {0} /\ Ports \subseteq Nat
  BY AddressAssumption
<1>2. ASSUME NEW n \in Nat  PROVE as_port(n) \in 0 .. Word - 1
  BY <1>1 DEF as_port
<1>3. \A a \in Addresses : a[1] \in Hosts /\ a[2] \in Nat
  BY <1>1 DEF Addresses
<1> QED  BY <1>2, <1>3 DEF Endpoints

\* What connect leaves is an endpoint or nothing.
LEMMA ConnectType ==
  ASSUME TypeOK, connect
  PROVE  peer' \in Endpoints \cup {NoPeer}
  BY AddressAssumption DEF TypeOK, connect

\* What every line does.
LEMMA LineType ==
  ASSUME TypeOK, NEW b \in BOOLEAN, type_line(b)
  PROVE  /\ lines' \in 0 .. MaxLines /\ careful' \in BOOLEAN
         /\ alive /\ ~waiting_for_logout
         /\ careful' = (careful /\ b) /\ unbroken' = unbroken
  BY AddressAssumption DEF TypeOK, type_line

\* A login, whole or not, whatever is stored of its address.
LEMMA LoginKeepsInv ==
  ASSUME IInv, NEW name \in Names, NEW a \in Addresses, Login(name, a)
  PROVE  IInv'
<1>1. type_line(TRUE) /\ log_in /\ connect
  BY DEF Login, log_in
<1>2. TypeOK'
  BY <1>1, ConnectType, LineType DEF IInv, TypeOK, Login, log_in
<1>3. Kept'
  BY <1>1, LineType, AddressAssumption DEF IInv, Kept, TypeOK, Login, log_in
<1> QED  BY <1>2, <1>3 DEF IInv

\* A line that is not whole only has to keep the types.
LEMMA BrokenLine ==
  ASSUME IInv, type_line(FALSE), TypeOK'
  PROVE  IInv'
  BY LineType DEF IInv, Kept

LEMMA LoginTriesKeepInv ==
  ASSUME IInv, NEW name \in Names,
         \/ LoginBadAddress(name)
         \/ \E host \in Hosts : LoginBadPort(name, host)
         \/ \E a \in Addresses : LoginShort(name, a)
         \/ CommandWithLogin
  PROVE  IInv'
<1>1. type_line(FALSE) /\ log_in /\ connect
  BY DEF LoginBadAddress, LoginBadPort, LoginShort, CommandWithLogin, log_in
<1>2. peer' \in Endpoints \cup {NoPeer} /\ lines' \in 0 .. MaxLines
      /\ careful' \in BOOLEAN /\ unbroken' = unbroken
      /\ kept_session \in Names \cup {NoUser}
  BY <1>1, ConnectType, LineType DEF IInv, TypeOK, kept_session
<1>3. connection \in Addresses /\ connection[2] \in Ports
  BY DEF IInv, TypeOK, Addresses
<1>4. TypeOK'
  <2>1. CASE LoginBadAddress(name)
    BY <2>1, <1>2 DEF IInv, TypeOK, LoginBadAddress, log_in
  <2>2. ASSUME NEW host \in Hosts, LoginBadPort(name, host)  PROVE TypeOK'
    <3>1. connection' \in Addresses
      BY <2>2, <1>3 DEF LoginBadPort, Addresses
    <3> QED  BY <2>2, <3>1, <1>2 DEF IInv, TypeOK, LoginBadPort, log_in
  <2>3. ASSUME NEW a \in Addresses, LoginShort(name, a)  PROVE TypeOK'
    BY <2>3, <1>2 DEF IInv, TypeOK, LoginShort, log_in
  <2>4. CASE CommandWithLogin
    BY <2>4, <1>2 DEF IInv, TypeOK, CommandWithLogin, log_in, use_user, send_request
  <2> QED  BY <2>1, <2>2, <2>3, <2>4
<1> QED  BY <1>1, <1>4, BrokenLine

\* The other lines.
LEMMA LinesKeepInv ==
  ASSUME IInv, Command \/ Logout \/ ShortLine \/ OtherLine
  PROVE  IInv'
<1>1. CASE Command
  <2>1. TypeOK'
    BY <1>1, LineType DEF IInv, TypeOK, Command, use_user, send_request
  <2>2. Kept'
    BY <1>1, LineType DEF IInv, TypeOK, Kept, Command, use_user, send_request
  <2> QED  BY <2>1, <2>2 DEF IInv
<1>2. CASE Logout
  <2>1. TypeOK'
    BY <1>2, LineType DEF IInv, TypeOK, Logout
  <2>2. Kept'
    BY <1>2, LineType DEF IInv, TypeOK, Kept, Logout
  <2> QED  BY <2>1, <2>2 DEF IInv
<1>3. CASE ShortLine
  <2>1. type_line(FALSE) /\ TypeOK'
    BY <1>3, LineType DEF IInv, TypeOK, ShortLine
  <2> QED  BY <2>1, BrokenLine
<1>4. CASE OtherLine
  BY <1>4, LineType DEF IInv, TypeOK, Kept, OtherLine
<1> QED  BY <1>1, <1>2, <1>3, <1>4

\* The frames.
LEMMA FramesKeepInv ==
  ASSUME IInv, EndLogout \/ EndSession \/ ReaderThrows \/ ReaderOverruns
  PROVE  IInv'
<1>1. CASE EndLogout
  BY <1>1 DEF IInv, TypeOK, Kept, EndLogout, use_disconnect_id
<1>2. CASE EndSession
  BY <1>2 DEF IInv, TypeOK, Kept, EndSession, use_disconnect_id
<1>3. CASE ReaderThrows
  BY <1>3 DEF IInv, TypeOK, Kept, ReaderThrows
<1>4. CASE ReaderOverruns
  <2>1. TypeOK'
    BY <1>4 DEF IInv, TypeOK, ReaderOverruns
  <2>2. Kept'
    BY <1>4 DEF IInv, TypeOK, Kept, ReaderOverruns
  <2> QED  BY <2>1, <2>2 DEF IInv
<1> QED  BY <1>1, <1>2, <1>3, <1>4

LEMMA CommandsStep == IInv /\ [Next]_vars => IInv'
<1> SUFFICES ASSUME IInv, [Next]_vars  PROVE IInv'
  OBVIOUS
<1>1. CASE UNCHANGED vars
  BY <1>1 DEF IInv, TypeOK, Kept, vars
<1>2. ASSUME NEW name \in Names, NEW a \in Addresses, Login(name, a)  PROVE IInv'
  BY <1>2, LoginKeepsInv
<1>3. ASSUME NEW name \in Names, NEW a \in Addresses, LoginShort(name, a)  PROVE IInv'
  BY <1>3, LoginTriesKeepInv
<1>4. ASSUME NEW name \in Names, LoginBadAddress(name)  PROVE IInv'
  BY <1>4, LoginTriesKeepInv
<1>5. ASSUME NEW name \in Names, NEW host \in Hosts, LoginBadPort(name, host)  PROVE IInv'
  BY <1>5, LoginTriesKeepInv
<1>6. CASE CommandWithLogin
  <2>1. CASE Names = {}
    <3>1. type_line(FALSE) /\ log_in /\ connect
      BY <1>6 DEF CommandWithLogin, log_in
    <3>2. TypeOK'
      BY <1>6, <3>1, ConnectType, LineType
         DEF IInv, TypeOK, CommandWithLogin, log_in, use_user, send_request, kept_session
    <3> QED  BY <3>1, <3>2, BrokenLine
  <2>2. CASE Names # {}
    BY <1>6, <2>2, LoginTriesKeepInv
  <2> QED  BY <2>1, <2>2
<1>7. CASE Command \/ Logout \/ ShortLine \/ OtherLine
  BY <1>7, LinesKeepInv
<1>8. CASE EndLogout \/ EndSession \/ ReaderThrows \/ ReaderOverruns
  BY <1>8, FramesKeepInv
<1> QED  BY <1>1, <1>2, <1>3, <1>4, <1>5, <1>6, <1>7, <1>8 DEF Next, Keyboard

\* The invariant holds in every state.
THEOREM CommandsInvariant == Spec => []IInv
  BY CommandsInit, CommandsStep, PTL DEF Spec

\* Every variable keeps its type: the socket is connected to an endpoint a
\* number of sixteen bits can name, whatever number was typed.
THEOREM CommandsType == Spec => []TypeOK
<1>1. IInv => TypeOK
  BY DEF IInv
<1> QED  BY CommandsInvariant, <1>1, PTL

\* Whole lines never end the process as long as no report comes with a line cut
\* short, on which the reader runs past its vector.
\* (stompProcessClientInput, parseInput, parseServerMessage.)
THEOREM LinesSurvive == Spec => []WholeLinesSurvive
<1>1. IInv => WholeLinesSurvive
  BY DEF IInv, Kept, WholeLinesSurvive
<1> QED  BY CommandsInvariant, <1>1, PTL

\* With whole lines only, requests go out in a session, with the User object of
\* the name that logged in.
THEOREM SessionsComeFirst == Spec => []SessionBeforeRequests
<1>1. IInv => SessionBeforeRequests
  BY DEF IInv, Kept, SessionBeforeRequests
<1> QED  BY CommandsInvariant, <1>1, PTL

-----------------------------------------------------------------------------
(* Where a login goes.                                                      *)

\* Unless the process has ended, the address kept is the one of the last whole
\* login: the others leave it, or end the process.
Stored == alive => connection = wanted

LEMMA StoredInit == Init => Stored
BY DEF Init, Stored

LEMMA StoredStep == Stored /\ [Next]_vars => Stored'
<1> SUFFICES ASSUME Stored, [Next]_vars  PROVE Stored'
  OBVIOUS
<1>1. ASSUME NEW name \in Names, NEW a \in Addresses,
             Login(name, a) \/ LoginShort(name, a)
      PROVE  Stored'
  BY <1>1 DEF Stored, Login, LoginShort
<1>2. ASSUME NEW name \in Names, LoginBadAddress(name)  PROVE Stored'
  BY <1>2 DEF Stored, LoginBadAddress
<1>3. ASSUME NEW name \in Names, NEW host \in Hosts, LoginBadPort(name, host)
      PROVE  Stored'
  BY <1>3 DEF Stored, LoginBadPort
<1>4. CASE CommandWithLogin \/ Command \/ Logout
  BY <1>4 DEF Stored, CommandWithLogin, Command, Logout, type_line, use_user
<1>5. CASE ShortLine \/ OtherLine
  BY <1>5 DEF Stored, ShortLine, OtherLine, type_line
<1>6. CASE EndLogout \/ EndSession \/ ReaderThrows \/ ReaderOverruns
  BY <1>6 DEF Stored, EndLogout, EndSession, ReaderThrows, ReaderOverruns
<1>7. CASE UNCHANGED vars
  BY <1>7 DEF Stored, vars
<1> QED
  BY <1>1, <1>2, <1>3, <1>4, <1>5, <1>6, <1>7 DEF Next, Keyboard

\* The number of a port on which a server listens survives the short.
LEMMA ListenedPort ==
  ASSUME NEW a \in Listening
  PROVE  <<a[1], as_port(a[2])>> = a
<1>1. a \in Endpoints /\ Word \in Nat \ {0}
  BY AddressAssumption
<1>2. a = <<a[1], a[2]>> /\ a[2] \in 0 .. Word - 1
  BY <1>1 DEF Endpoints
<1>3. a[2] % Word = a[2]
  BY <1>1, <1>2
<1> QED
  BY <1>2, <1>3 DEF as_port

\* A login goes to the address of the last whole login before it, for every port
\* a server can listen on, whatever was typed and however sessions ended between.
\* (stompProcessClientInput, set_host and set_port, the short port_.)
THEOREM LoginsGoWhereTheLastSaid == Spec => LoginGoesWhereTheLastSaid
<1>1. Stored /\ [Next]_vars =>
        [\A name \in Names, a \in Addresses :
            Login(name, a) /\ peer = NoPeer /\ wanted \in Listening
                => peer' = wanted]_vars
  <2> SUFFICES ASSUME Stored, NEW name \in Names, NEW a \in Addresses,
                      Login(name, a), peer = NoPeer, wanted \in Listening
               PROVE  peer' = wanted
    OBVIOUS
  <2>1. connection = wanted /\ connect
    BY DEF Stored, Login, log_in, type_line
  <2> QED
    BY <2>1, ListenedPort DEF connect
<1>2. Spec => []Stored
  BY StoredInit, StoredStep, PTL DEF Spec
<1> QED
  BY <1>1, <1>2, PTL DEF Spec, LoginGoesWhereTheLastSaid

-----------------------------------------------------------------------------
(* Frames.                                                                  *)

\* The bytes of all frames that were sent on this connection, and where each of
\* them ends: at its NUL.
Stream(all, ends) ==
    /\ all \in Seq(Int) /\ ends \in [0 .. Len(sent) -> Nat]
    /\ ends[0] = 0 /\ ends[Len(sent)] = Len(all)
    /\ \A k \in 1 .. Len(sent) :
          /\ ends[k] = ends[k - 1] + Len(sent[k]) + 1
          /\ ends[k] <= Len(all) /\ all[ends[k]] = NUL
          /\ \A j \in 1 .. Len(sent[k]) : all[ends[k - 1] + j] = sent[k][j]

\* The server has taken n of them; the others are in the uplink.
Taken(all, ends, n) ==
    /\ n \in 0 .. Len(all) /\ n = ends[Len(decoded)] + len
    /\ Len(uplink) = Len(all) - n
    /\ \A i \in 1 .. Len(uplink) : uplink[i] = all[n + i]

ByteTypes ==
    /\ uplink \in Seq(Int) /\ bytes \in Seq(Int) /\ Len(bytes) >= 1
    /\ len \in 0 .. Len(bytes)
    /\ sent \in Seq(Texts) /\ decoded \in Seq(Texts)

\* What is decoded is what was sent first, and the array holds the beginning of
\* the next frame.
InOrder ==
    /\ Len(decoded) <= Len(sent)
    /\ \A k \in 1 .. Len(decoded) : decoded[k] = sent[k]
    /\ len > 0 => /\ Len(decoded) < Len(sent) /\ len <= Len(sent[Len(decoded) + 1])
                  /\ \A j \in 1 .. len : bytes[j] = sent[Len(decoded) + 1][j]

Framed ==
    /\ ByteTypes /\ InOrder
    /\ \E all, ends, n : Stream(all, ends) /\ Taken(all, ends, n)

\* A text is a sequence of letters.
LEMMA TextFacts ==
    ASSUME NEW text \in Texts
    PROVE  /\ text \in Seq(Int) /\ Len(text) \in Nat
           /\ \A j \in 1 .. Len(text) : text[j] \in Int /\ text[j] # NUL
<1>1. text \in Seq(Int) /\ NUL \notin Range(text)
  BY FramingAssumption
<1>2. Len(text) \in Nat /\ DOMAIN text = 1 .. Len(text)
  BY <1>1, LenProperties
<1> QED
  BY <1>1, <1>2, ElementOfSeq DEF Range

LEMMA ByteFacts ==
    ASSUME ByteTypes
    PROVE  /\ Len(uplink) \in Nat /\ Len(bytes) \in Nat /\ len \in Nat
           /\ Len(sent) \in Nat /\ Len(decoded) \in Nat
           /\ \A k \in 1 .. Len(sent) : sent[k] \in Texts /\ Len(sent[k]) \in Nat
BY TextFacts, LenProperties, ElementOfSeq DEF ByteTypes

LEMMA EmptyChannel ==
    ASSUME uplink = <<>>, sent = <<>>, decoded = <<>>, len = 0,
           bytes = [i \in 1 .. InitialCapacity |-> NUL]
    PROVE  Framed
<1>1. InitialCapacity \in Nat \ {0}
  BY FramingAssumption
<1>2. bytes \in Seq(Int) /\ Len(bytes) = InitialCapacity
  BY <1>1 DEF NUL
<1>3. ByteTypes
  BY <1>1, <1>2 DEF ByteTypes
<1>4. Len(sent) = 0 /\ Len(decoded) = 0 /\ Len(uplink) = 0 /\ Len(<<>>) = 0
  OBVIOUS
<1> DEFINE ends == [k \in 0 .. 0 |-> 0]
<1>5. ends \in [0 .. 0 -> Nat] /\ ends[0] = 0
  OBVIOUS
<1> HIDE DEF ends
<1>6. Stream(<<>>, ends)
  BY <1>4, <1>5 DEF Stream
<1>7. Taken(<<>>, ends, 0)
  BY <1>4, <1>5 DEF Taken
<1>8. InOrder
  BY <1>4 DEF InOrder
<1> QED
  BY <1>3, <1>6, <1>7, <1>8 DEF Framed

LEMMA FramedInit == FramingInit => Framed
BY EmptyChannel DEF FramingInit

\* Two sequences one behind the other.
LEMMA Behind ==
    ASSUME NEW a \in Seq(Int), NEW b \in Seq(Int)
    PROVE  /\ a \o b \in Seq(Int) /\ Len(a \o b) = Len(a) + Len(b)
           /\ \A i \in 1 .. Len(a) : (a \o b)[i] = a[i]
           /\ \A i \in 1 .. Len(b) : (a \o b)[Len(a) + i] = b[i]
<1>1. /\ a \o b \in Seq(Int) /\ Len(a \o b) = Len(a) + Len(b)
      /\ \A i \in 1 .. Len(a) + Len(b) :
            (a \o b)[i] = IF i <= Len(a) THEN a[i] ELSE b[i - Len(a)]
  BY ONLY a \in Seq(Int), b \in Seq(Int), ConcatProperties
<1>2. Len(a) \in Nat /\ Len(b) \in Nat
  BY LenProperties
<1>3. ASSUME NEW i \in 1 .. Len(a)  PROVE (a \o b)[i] = a[i]
  <2>1. i \in 1 .. Len(a) + Len(b) /\ i <= Len(a)
    BY ONLY <1>2, i \in 1 .. Len(a)
  <2> QED
    BY ONLY <1>1, <2>1
<1>4. ASSUME NEW i \in 1 .. Len(b)  PROVE (a \o b)[Len(a) + i] = b[i]
  <2>1. /\ Len(a) + i \in 1 .. Len(a) + Len(b)
        /\ ~(Len(a) + i <= Len(a)) /\ (Len(a) + i) - Len(a) = i
    BY ONLY <1>2, i \in 1 .. Len(b)
  <2> QED
    BY ONLY <1>1, <2>1
<1> QED
  BY ONLY <1>1, <1>3, <1>4, Zenon

\* A frame with its delimiter.
LEMMA Delimited ==
    ASSUME NEW text \in Texts
    PROVE  \E l \in Nat, q \in Seq(Int) :
              /\ q = Append(text, NUL) /\ l = Len(text)
              /\ Len(q) = l + 1 /\ q[l + 1] = NUL
              /\ \A j \in 1 .. l : q[j] = text[j]
<1>1. text \in Seq(Int) /\ Len(text) \in Nat /\ NUL \in Int
  BY TextFacts DEF NUL
<1> DEFINE q == Append(text, NUL)
<1>2. /\ q \in Seq(Int) /\ Len(q) = Len(text) + 1 /\ q[Len(text) + 1] = NUL
      /\ \A j \in 1 .. Len(text) : q[j] = text[j]
  BY ONLY <1>1, AppendProperties
<1> HIDE DEF q
<1> QED
  BY <1>1, <1>2 DEF q

\* A frame more goes up.
LEMMA SendFramed ==
    ASSUME Framed, NEW text \in Texts, Send(text)
    PROVE  Framed'
<1>1. PICK all, ends, n : Stream(all, ends) /\ Taken(all, ends, n)
  BY DEF Framed
<1>2. ByteTypes
  BY DEF Framed
<1>3. /\ sent' = Append(sent, text) /\ uplink' = uplink \o Append(text, NUL)
      /\ UNCHANGED <<bytes, len, decoded>>
  BY DEF Send
<1>4. PICK m \in Nat : m = Len(sent)
  BY <1>2, ByteFacts
<1>5. PICK t \in Nat : t = Len(all)
  BY <1>1, LenProperties DEF Stream
<1>6. PICK l \in Nat, q \in Seq(Int) :
         /\ q = Append(text, NUL) /\ l = Len(text)
         /\ Len(q) = l + 1 /\ q[l + 1] = NUL
         /\ \A j \in 1 .. l : q[j] = text[j]
  BY Delimited
<1>7. l = Len(text) /\ Len(q) = l + 1
  BY ONLY <1>6, Zenon
<1>8. /\ sent' \in Seq(Texts) /\ Len(sent') = m + 1 /\ sent'[m + 1] = text
      /\ \A k \in 1 .. m : sent'[k] = sent[k]
  BY <1>2, <1>3, <1>4, AppendProperties DEF ByteTypes
<1>9. PICK more \in Seq(Int) :
         /\ Len(more) = t + (l + 1) /\ \A i \in 1 .. t : more[i] = all[i]
         /\ \A i \in 1 .. l + 1 : more[t + i] = q[i]
  <2>1. all \in Seq(Int) /\ Len(all) = t /\ Len(q) = l + 1
    BY <1>1, <1>5, <1>7, Zenon DEF Stream
  <2>2. all \o q \in Seq(Int) /\ Len(all \o q) = Len(all) + Len(q)
    BY <2>1, Behind, Zenon
  <2>3. \A i \in 1 .. Len(all) : (all \o q)[i] = all[i]
    BY <2>1, Behind, Zenon
  <2>4. \A i \in 1 .. Len(q) : (all \o q)[Len(all) + i] = q[i]
    BY <2>1, Behind, Zenon
  <2>5. \A i \in 1 .. t : (all \o q)[i] = all[i]
    BY ONLY <2>1, <2>3, Zenon
  <2>6. \A i \in 1 .. l + 1 : (all \o q)[t + i] = q[i]
    BY ONLY <2>1, <2>4, Zenon
  <2> QED
    BY ONLY <2>1, <2>2, <2>5, <2>6, Zenon
<1>10. PICK f \in [0 .. m + 1 -> Nat] :
         f[m + 1] = t + (l + 1) /\ \A k \in 0 .. m : f[k] = ends[k]
  <2> DEFINE g == [k \in 0 .. m + 1 |-> IF k <= m THEN ends[k] ELSE t + (l + 1)]
  <2>1. \A k \in 0 .. m : ends[k] \in Nat
    BY <1>1, <1>4 DEF Stream
  <2>2. g \in [0 .. m + 1 -> Nat]
    BY <2>1
  <2>3. g[m + 1] = t + (l + 1) /\ \A k \in 0 .. m : g[k] = ends[k]
    OBVIOUS
  <2> HIDE DEF g
  <2> QED
    BY <2>2, <2>3
<1>11. /\ \A k \in 1 .. m : /\ sent[k] \in Texts /\ Len(sent[k]) \in Nat
                            /\ ends[k] = ends[k - 1] + Len(sent[k]) + 1
                            /\ ends[k] <= t /\ all[ends[k]] = NUL
                            /\ \A j \in 1 .. Len(sent[k]) :
                                  all[ends[k - 1] + j] = sent[k][j]
       /\ ends[m] = t /\ ends[0] = 0
       /\ \A k \in 0 .. m : ends[k] \in Nat
  BY <1>1, <1>2, <1>4, <1>5, ByteFacts DEF Stream
<1>12. ASSUME NEW k \in 1 .. m
       PROVE  /\ f[k] = f[k - 1] + Len(sent'[k]) + 1
              /\ f[k] <= t + (l + 1) /\ more[f[k]] = NUL
              /\ \A j \in 1 .. Len(sent'[k]) : more[f[k - 1] + j] = sent'[k][j]
  <2>1. PICK a \in Nat, b \in Nat, s \in Nat :
           a = ends[k - 1] /\ b = ends[k] /\ s = Len(sent[k])
    <3>1. k - 1 \in 0 .. m /\ k \in 0 .. m
      BY ONLY m \in Nat, k \in 1 .. m
    <3> QED
      BY <1>11, <3>1
  <2>2. b = a + s + 1 /\ b <= t /\ all[b] = NUL
    BY <1>11, <2>1
  <2>3. \A j \in 1 .. s : all[a + j] = sent[k][j]
    BY <1>11, <2>1
  <2>4. b \in 1 .. t /\ \A j \in 1 .. s : a + j \in 1 .. t
    BY ONLY <2>2, a \in Nat, b \in Nat, s \in Nat, t \in Nat
  <2>5. more[b] = NUL /\ \A j \in 1 .. s : more[a + j] = sent[k][j]
    BY ONLY <1>9, <2>2, <2>3, <2>4
  <2>6. f[k] = b /\ f[k - 1] = a /\ sent'[k] = sent[k] /\ Len(sent'[k]) = s
    <3>1. k \in 0 .. m /\ k - 1 \in 0 .. m
      BY ONLY m \in Nat, k \in 1 .. m
    <3>2. f[k] = b /\ f[k - 1] = a
      BY ONLY <1>10, <2>1, <3>1
    <3>3. sent'[k] = sent[k]
      BY ONLY <1>8, k \in 1 .. m
    <3> QED
      BY ONLY <2>1, <3>2, <3>3
  <2>7. b <= t + (l + 1)
    BY ONLY <2>2, b \in Nat, t \in Nat, l \in Nat
  <2> QED
    BY <2>2, <2>5, <2>6, <2>7
<1>13. /\ f[m + 1] = f[m] + Len(sent'[m + 1]) + 1 /\ more[f[m + 1]] = NUL
       /\ \A j \in 1 .. Len(sent'[m + 1]) : more[f[m] + j] = sent'[m + 1][j]
  <2>1. f[m] = t /\ f[m + 1] = t + (l + 1) /\ sent'[m + 1] = text
    BY <1>8, <1>10, <1>11
  <2>2. t + (l + 1) = t + l + 1 /\ l + 1 \in 1 .. l + 1 /\ \A j \in 1 .. l : j \in 1 .. l + 1
    BY ONLY t \in Nat, l \in Nat
  <2>3. more[t + (l + 1)] = NUL /\ \A j \in 1 .. l : more[t + j] = text[j]
    BY <1>6, <1>7, <1>9, <2>2
  <2> QED
    BY <1>7, <2>1, <2>2, <2>3
<1>14. Stream(more, f)'
  <2>1. \A k \in 1 .. m + 1 : k \in 1 .. m \/ (k = m + 1 /\ k - 1 = m)
    BY ONLY m \in Nat
  <2>2. ASSUME NEW k \in 1 .. m + 1
        PROVE  /\ f[k] = f[k - 1] + Len(sent'[k]) + 1
               /\ f[k] <= t + (l + 1) /\ more[f[k]] = NUL
               /\ \A j \in 1 .. Len(sent'[k]) : more[f[k - 1] + j] = sent'[k][j]
    <3>1. CASE k \in 1 .. m
      BY <1>12, <3>1
    <3>2. CASE k = m + 1 /\ k - 1 = m
      BY <1>10, <1>13, <3>2
    <3> QED
      BY <2>1, <3>1, <3>2
  <2>3. f[0] = 0 /\ f[m + 1] = t + (l + 1)
    BY <1>10, <1>11
  <2> QED
    BY <1>8, <1>9, <2>2, <2>3 DEF Stream
<1>15. Taken(more, f, n)'
  <2>1. PICK u \in Nat : u = Len(uplink)
    BY <1>2, ByteFacts
  <2>2. n \in 0 .. t /\ u = t - n /\ \A i \in 1 .. u : uplink[i] = all[n + i]
    BY <1>1, <1>5, <2>1 DEF Taken
  <2>3. /\ Len(uplink \o q) = u + (l + 1)
        /\ \A i \in 1 .. u : (uplink \o q)[i] = uplink[i]
        /\ \A i \in 1 .. l + 1 : (uplink \o q)[u + i] = q[i]
    <3>1. uplink \in Seq(Int) /\ Len(uplink) = u /\ Len(q) = l + 1
      BY <1>2, <1>7, <2>1, Zenon DEF ByteTypes
    <3>2. Len(uplink \o q) = Len(uplink) + Len(q)
      BY <3>1, Behind, Zenon
    <3>3. \A i \in 1 .. Len(uplink) : (uplink \o q)[i] = uplink[i]
      BY <3>1, Behind, Zenon
    <3>4. \A i \in 1 .. Len(q) : (uplink \o q)[Len(uplink) + i] = q[i]
      BY <3>1, Behind, Zenon
    <3>5. \A i \in 1 .. u : (uplink \o q)[i] = uplink[i]
      BY ONLY <3>1, <3>3, Zenon
    <3>6. \A i \in 1 .. l + 1 : (uplink \o q)[u + i] = q[i]
      BY ONLY <3>1, <3>4, Zenon
    <3> QED
      BY ONLY <3>1, <3>2, <3>5, <3>6, Zenon
  <2>4. uplink' = uplink \o q
    BY <1>3, <1>6
  <2>5. ASSUME NEW i \in 1 .. u + (l + 1)
        PROVE  (uplink \o q)[i] = more[n + i]
    <3>1. CASE i <= u
      <4>1. i \in 1 .. u /\ n + i \in 1 .. t
        BY ONLY <2>2, <3>1, u \in Nat, i \in 1 .. u + (l + 1), t \in Nat
      <4> QED
        BY <1>9, <2>2, <2>3, <3>1, <4>1
    <3>2. CASE ~(i <= u)
      <4>1. i - u \in 1 .. l + 1 /\ n + i = t + (i - u) /\ u + (i - u) = i
        BY ONLY <2>2, <3>2, u \in Nat, i \in 1 .. u + (l + 1), t \in Nat, l \in Nat
      <4>2. (uplink \o q)[i] = q[i - u]
        BY <2>3, <4>1
      <4> QED
        BY <1>9, <4>1, <4>2
    <3> QED
      BY <3>1, <3>2
  <2>6. /\ n \in 0 .. t + (l + 1) /\ u + (l + 1) = t + (l + 1) - n
    BY ONLY <2>2, t \in Nat, l \in Nat
  <2>7. n = f[Len(decoded)] + len
    <3>1. Len(decoded) \in 0 .. m
      BY <1>2, <1>4, ByteFacts DEF Framed, InOrder
    <3> QED
      BY <1>1, <1>10, <3>1 DEF Taken
  <2>9. UNCHANGED <<len, decoded>> /\ Len(more) = t + (l + 1)
    BY ONLY <1>3, <1>9
  <2>8. Len(uplink') = u + (l + 1) /\ \A i \in 1 .. u + (l + 1) : uplink'[i] = more[n + i]
    BY ONLY <2>3, <2>4, <2>5, Zenon
  <2> QED
    BY ONLY <2>6, <2>7, <2>8, <2>9 DEF Taken
<1>16. InOrder'
  <2>1. InOrder /\ Len(decoded) \in Nat
    BY <1>2, ByteFacts DEF Framed
  <2>2. Len(decoded) <= m + 1
    BY <1>4, <2>1 DEF InOrder
  <2>3. ASSUME NEW k \in 1 .. Len(decoded)  PROVE decoded[k] = sent'[k]
    <3>1. k \in 1 .. m /\ decoded[k] = sent[k]
      BY <1>4, <2>1 DEF InOrder
    <3> QED
      BY <1>8, <3>1
  <2>4. len > 0 => /\ Len(decoded) < m + 1 /\ sent'[Len(decoded) + 1] = sent[Len(decoded) + 1]
    BY <1>4, <1>8, <2>1 DEF InOrder
  <2> QED
    BY <1>3, <1>8, <2>1, <2>2, <2>3, <2>4 DEF InOrder
<1>17. ByteTypes'
  <2>1. uplink' \in Seq(Int)
    BY <1>2, <1>3, <1>6, ConcatProperties DEF ByteTypes
  <2> QED
    BY <1>2, <1>3, <1>8, <2>1 DEF ByteTypes
<1> QED
  BY <1>14, <1>15, <1>16, <1>17 DEF Framed

\* The byte that comes next is that of the next frame; its NUL comes when the
\* array holds all of it.
LEMMA NextByte ==
    ASSUME Framed, uplink # <<>>
    PROVE  /\ Len(decoded) + 1 \in 1 .. Len(sent)
           /\ sent[Len(decoded) + 1] \in Texts
           /\ len \in 0 .. Len(sent[Len(decoded) + 1])
           /\ Head(uplink) = NUL <=> len = Len(sent[Len(decoded) + 1])
           /\ len < Len(sent[Len(decoded) + 1])
                => Head(uplink) = sent[Len(decoded) + 1][len + 1]
<1>1. PICK all, ends, n : Stream(all, ends) /\ Taken(all, ends, n)
  BY DEF Framed
<1>2. ByteTypes /\ InOrder
  BY DEF Framed
<1>3. PICK m \in Nat, t \in Nat, d \in Nat, u \in Nat :
         m = Len(sent) /\ t = Len(all) /\ d = Len(decoded) /\ u = Len(uplink)
  BY <1>1, <1>2, ByteFacts, LenProperties DEF Stream
<1>4. u >= 1 /\ Head(uplink) = uplink[1]
  BY <1>2, <1>3, EmptySeq DEF ByteTypes
<1>5. /\ n \in 0 .. t /\ n = ends[d] + len /\ u = t - n
      /\ \A i \in 1 .. u : uplink[i] = all[n + i]
  BY <1>1, <1>3 DEF Taken
<1>6. uplink[1] = all[n + 1]
  BY ONLY <1>4, <1>5, u \in Nat
<1>7. len \in Nat /\ d <= m
  BY <1>2, <1>3, ByteFacts DEF InOrder
<1>8. d < m
  <2>1. d = m => n = t + len
    BY <1>1, <1>3, <1>5 DEF Stream
  <2> QED
    BY ONLY <1>4, <1>5, <1>7, <2>1, d \in Nat, m \in Nat, t \in Nat
<1>9. d + 1 \in 1 .. m /\ (d + 1) - 1 = d /\ d \in 0 .. m
  BY ONLY <1>8, d \in Nat, m \in Nat
<1>10. sent[d + 1] \in Texts
  BY <1>2, <1>3, <1>9, ByteFacts
<1>11. PICK l \in Nat : l = Len(sent[d + 1])
  BY <1>10, TextFacts
<1>12. \A j \in 1 .. l : sent[d + 1][j] # NUL
  BY <1>10, <1>11, TextFacts
<1>13. PICK e \in Nat : e = ends[d]
  BY <1>1, <1>3, <1>9 DEF Stream
<1>14. /\ ends[d + 1] = e + l + 1 /\ all[ends[d + 1]] = NUL
       /\ \A j \in 1 .. l : all[e + j] = sent[d + 1][j]
  BY <1>1, <1>3, <1>9, <1>11, <1>13 DEF Stream
<1>15. len \in 0 .. l
  BY <1>2, <1>3, <1>7, <1>11 DEF InOrder
<1>16. len = l => all[n + 1] = NUL
  <2>1. len = l => n + 1 = e + l + 1
    BY ONLY <1>5, <1>13
  <2> QED
    BY ONLY <1>14, <2>1, Zenon
<1>17. len < l => all[n + 1] = sent[d + 1][len + 1] /\ len + 1 \in 1 .. l
  <2>1. n = e + len
    BY ONLY <1>5, <1>13
  <2>2. len < l => len + 1 \in 1 .. l /\ n + 1 = e + (len + 1)
    BY ONLY <1>7, <2>1, l \in Nat, e \in Nat
  <2> QED
    BY ONLY <1>14, <2>2
<1>18. len = l \/ len < l
  BY <1>15
<1>19. ~(len = l /\ len < l)
  BY <1>15
<1>20. all[n + 1] = NUL <=> len = l
  BY <1>12, <1>16, <1>17, <1>18
<1> QED
  BY <1>3, <1>4, <1>6, <1>9, <1>10, <1>11, <1>15, <1>17, <1>20

\* The server takes a byte.
LEMMA ByteTaken ==
    ASSUME Framed, uplink # <<>>, uplink' = Tail(uplink), UNCHANGED sent,
           NEW all, NEW ends, NEW n, Stream(all, ends), Taken(all, ends, n),
           ends[Len(decoded')] + len' = n + 1
    PROVE  Stream(all, ends)' /\ Taken(all, ends, n + 1)'
<1>1. uplink \in Seq(Int)
  BY DEF Framed, ByteTypes
<1>2. Stream(all, ends)'
  BY DEF Stream
<1>3. PICK t \in Nat, u \in Nat : t = Len(all) /\ u = Len(uplink)
  BY <1>1, LenProperties DEF Stream
<1>4. /\ u >= 1 /\ Len(uplink') = u - 1
      /\ \A i \in 1 .. u - 1 : uplink'[i] = uplink[i + 1]
  BY <1>1, <1>3, HeadTailProperties, EmptySeq
<1>5. n \in 0 .. t /\ u = t - n /\ \A i \in 1 .. u : uplink[i] = all[n + i]
  BY <1>3 DEF Taken
<1>6. ASSUME NEW i \in 1 .. u - 1  PROVE uplink'[i] = all[(n + 1) + i]
  <2>1. i + 1 \in 1 .. u /\ n + (i + 1) = (n + 1) + i
    BY ONLY <1>5, u \in Nat, t \in Nat, i \in 1 .. u - 1
  <2> QED
    BY <1>4, <1>5, <2>1
<1>7. n + 1 \in 0 .. t /\ u - 1 = t - (n + 1)
  BY ONLY <1>4, <1>5, u \in Nat, t \in Nat
<1>8. Taken(all, ends, n + 1)'
  BY <1>3, <1>4, <1>6, <1>7 DEF Taken
<1> QED
  BY <1>2, <1>8

\* What is read from the beginning of the array is the frame it holds.
LEMMA ReadBack ==
    ASSUME NEW a \in Seq(Int), NEW b \in Seq(Int),
           \A j \in 1 .. Len(b) : a[j] = b[j]
    PROVE  SubSeq(a, 1, Len(b)) = b
<1> DEFINE s == SubSeq(a, 1, Len(b))
<1>1. Len(b) \in Nat
  BY LenProperties
<1>2. \A j \in 1 .. Len(b) : a[j] \in Int
  BY ElementOfSeq
<1>3. /\ s \in Seq(Int) /\ Len(s) = IF 1 <= Len(b) THEN Len(b) - 1 + 1 ELSE 0
      /\ \A j \in 1 .. Len(b) - 1 + 1 : s[j] = a[1 + j - 1]
  BY ONLY <1>1, <1>2, SubSeqProperties
<1> HIDE DEF s
<1>4. Len(s) = Len(b)
  BY ONLY <1>1, <1>3
<1>5. ASSUME NEW j \in 1 .. Len(b)  PROVE s[j] = a[j]
  <2>1. j \in 1 .. Len(b) - 1 + 1 /\ 1 + j - 1 = j
    BY ONLY <1>1, j \in 1 .. Len(b)
  <2> QED
    BY ONLY <1>3, <2>1
<1>6. \A j \in 1 .. Len(s) : s[j] = b[j]
  BY ONLY <1>4, <1>5, \A j \in 1 .. Len(b) : a[j] = b[j], Zenon
<1>7. s = b
  BY ONLY <1>3, <1>4, <1>6, b \in Seq(Int), SeqEqual
<1> QED
  BY <1>7 DEF s

\* A letter is put behind those in the array, which grows when it is full.
LEMMA Pushed ==
    ASSUME ByteTypes, NEW b \in Int, pushByte(b)
    PROVE  /\ bytes' \in Seq(Int) /\ len + 1 \in 1 .. Len(bytes') /\ len' = len + 1
           /\ \A j \in 1 .. len : bytes'[j] = bytes[j]
           /\ bytes'[len + 1] = b
<1> DEFINE g == IF len >= Len(bytes) THEN grow ELSE bytes
<1>1. /\ bytes \in Seq(Int) /\ Len(bytes) \in Nat \ {0}
      /\ len \in 0 .. Len(bytes) /\ len \in Nat
  BY ByteFacts DEF ByteTypes
<1>2. bytes' = [g EXCEPT ![len + 1] = b] /\ len' = len + 1
  BY DEF pushByte
<1>3. \A j \in 1 .. Len(bytes) : bytes[j] \in Int
  BY <1>1, ElementOfSeq
<1>4. g \in Seq(Int) /\ len + 1 \in 1 .. Len(g) /\ \A j \in 1 .. len : g[j] = bytes[j]
  <2>1. CASE len >= Len(bytes)
    <3>1. len = Len(bytes) /\ 2 * len \in Nat /\ len + 1 \in 1 .. 2 * len
      BY ONLY <1>1, <2>1
    <3>2. g = [i \in 1 .. 2 * len |-> IF i <= len THEN bytes[i] ELSE NUL]
      BY ONLY <2>1 DEF grow
    <3>3. \A i \in 1 .. 2 * len : (IF i <= len THEN bytes[i] ELSE NUL) \in Int
      BY ONLY <1>1, <1>3, <3>1 DEF NUL
    <3>4. g \in [1 .. 2 * len -> Int]
      BY ONLY <3>2, <3>3
    <3>5. g \in Seq(Int) /\ Len(g) = 2 * len
      BY ONLY <3>1, <3>4, SeqDef, LenProperties
    <3>6. ASSUME NEW j \in 1 .. len  PROVE g[j] = bytes[j]
      <4>1. j \in 1 .. 2 * len /\ j <= len
        BY ONLY <1>1, j \in 1 .. len
      <4> QED
        BY ONLY <3>2, <4>1
    <3> QED
      BY ONLY <3>1, <3>5, <3>6
  <2>2. CASE ~(len >= Len(bytes))
    <3>1. g = bytes
      BY <2>2
    <3>2. len + 1 \in 1 .. Len(bytes)
      BY ONLY <1>1, <2>2
    <3> QED
      BY ONLY <1>1, <3>1, <3>2
  <2> QED
    BY <2>1, <2>2
<1> HIDE DEF g
<1>5. /\ bytes' \in Seq(Int) /\ Len(bytes') = Len(g)
      /\ \A j \in 1 .. Len(g) : bytes'[j] = IF j = len + 1 THEN b ELSE g[j]
  BY ONLY <1>2, <1>4, b \in Int, ExceptSeq
<1>6. bytes'[len + 1] = b /\ len + 1 \in 1 .. Len(bytes')
  BY ONLY <1>4, <1>5
<1>7. ASSUME NEW j \in 1 .. len  PROVE bytes'[j] = bytes[j]
  <2>1. Len(g) \in Nat
    BY <1>4, LenProperties
  <2>2. j \in 1 .. Len(g) /\ j # len + 1
    BY ONLY <1>1, <1>4, <2>1, j \in 1 .. len
  <2> QED
    BY ONLY <1>4, <1>5, <2>2, j \in 1 .. len
<1> QED
  BY <1>2, <1>5, <1>6, <1>7

\* At its NUL the server has the next frame that was sent.
LEMMA PopFramed ==
    ASSUME Framed, uplink # <<>>, Head(uplink) = NUL, popString,
           uplink' = Tail(uplink), UNCHANGED sent
    PROVE  Framed' /\ decoded' = Append(decoded, sent[Len(decoded) + 1])
<1>1. PICK all, ends, n : Stream(all, ends) /\ Taken(all, ends, n)
  BY DEF Framed
<1>2. ByteTypes /\ InOrder
  BY DEF Framed
<1>3. PICK d \in Nat, m \in Nat : d = Len(decoded) /\ m = Len(sent)
  BY <1>2, ByteFacts
<1>4. d + 1 \in 1 .. m /\ sent[d + 1] \in Texts /\ len = Len(sent[d + 1])
  BY <1>3, NextByte, Zenon
<1>5. len \in Nat \ {0} /\ sent[d + 1] \in Seq(Int)
  BY <1>4, TextFacts, FramingAssumption, EmptySeq
<1>6. \A j \in 1 .. Len(sent[d + 1]) : bytes[j] = sent[d + 1][j]
  BY <1>2, <1>3, <1>4, <1>5 DEF InOrder
<1>7. SubSeq(bytes, 1, len) = sent[d + 1]
  BY <1>2, <1>4, <1>5, <1>6, ReadBack DEF ByteTypes
<1>8. decoded' = Append(decoded, sent[d + 1]) /\ len' = 0 /\ bytes' = bytes /\ sent' = sent
  BY <1>7 DEF popString
<1>9. decoded \in Seq(Texts) /\ sent \in Seq(Texts)
  BY <1>2 DEF ByteTypes
<1>10. /\ decoded' \in Seq(Texts) /\ Len(decoded') = d + 1
       /\ decoded'[d + 1] = sent[d + 1] /\ \A k \in 1 .. d : decoded'[k] = decoded[k]
  BY ONLY <1>3, <1>4, <1>8, <1>9, AppendProperties
<1>11. InOrder'
  <2>1. d + 1 <= m
    BY ONLY <1>4, d \in Nat, m \in Nat
  <2>2. ASSUME NEW k \in 1 .. d + 1  PROVE decoded'[k] = sent[k]
    <3>1. k \in 1 .. d \/ k = d + 1
      BY ONLY d \in Nat, k \in 1 .. d + 1
    <3>2. \A i \in 1 .. d : decoded[i] = sent[i]
      BY <1>2, <1>3 DEF InOrder
    <3> QED
      BY ONLY <1>10, <3>1, <3>2, Zenon
  <2>3. ~(len' > 0)
    BY <1>8
  <2> QED
    BY ONLY <1>3, <1>8, <1>10, <2>1, <2>2, <2>3 DEF InOrder
<1>12. ByteTypes'
  <2>1. uplink' \in Seq(Int)
    BY <1>2, HeadTailProperties DEF ByteTypes
  <2> QED
    BY <1>2, <1>8, <1>9, <1>10, <2>1 DEF ByteTypes
<1>13. ends[Len(decoded')] + len' = n + 1
  <2>1. ends[d + 1] = ends[d] + Len(sent[d + 1]) + 1
    <3>1. (d + 1) - 1 = d
      OBVIOUS
    <3> QED
      BY <1>1, <1>3, <1>4, <3>1 DEF Stream
  <2>2. ends[d] \in Nat /\ n = ends[d] + len
    <3>1. d \in 0 .. m
      BY <1>4
    <3> QED
      BY <1>1, <1>3, <3>1 DEF Stream, Taken
  <2> QED
    BY ONLY <1>4, <1>5, <1>8, <1>10, <2>1, <2>2
<1>14. Stream(all, ends)' /\ Taken(all, ends, n + 1)'
  BY <1>1, <1>13, ByteTaken
<1> QED
  BY <1>3, <1>8, <1>11, <1>12, <1>14 DEF Framed

\* Every other byte is a letter more of that frame.
LEMMA PushFramed ==
    ASSUME Framed, uplink # <<>>, Head(uplink) # NUL, pushByte(Head(uplink)),
           uplink' = Tail(uplink), UNCHANGED sent
    PROVE  Framed' /\ UNCHANGED decoded
<1>1. PICK all, ends, n : Stream(all, ends) /\ Taken(all, ends, n)
  BY DEF Framed
<1>2. ByteTypes /\ InOrder
  BY DEF Framed
<1>3. PICK d \in Nat, m \in Nat : d = Len(decoded) /\ m = Len(sent)
  BY <1>2, ByteFacts
<1>4. d + 1 \in 1 .. m /\ sent[d + 1] \in Texts
  BY <1>3, NextByte, Zenon
<1>5. PICK l \in Nat : l = Len(sent[d + 1])
  BY <1>4, TextFacts
<1>6. len \in 0 .. l /\ len # l /\ (len < l => Head(uplink) = sent[d + 1][len + 1])
  BY <1>3, <1>5, NextByte, Zenon
<1>7. len < l /\ len + 1 <= l /\ len \in Nat
  BY ONLY <1>6, l \in Nat
<1>8. Head(uplink) = sent[d + 1][len + 1] /\ Head(uplink) \in Int
  BY <1>2, <1>6, <1>7, HeadTailProperties DEF ByteTypes
<1>9. UNCHANGED <<sent, decoded>>
  BY DEF pushByte
<1>10. /\ bytes' \in Seq(Int) /\ len + 1 \in 1 .. Len(bytes') /\ len' = len + 1
       /\ \A j \in 1 .. len : bytes'[j] = bytes[j]
       /\ bytes'[len + 1] = Head(uplink)
  BY <1>2, <1>8, Pushed
<1>11. InOrder'
  <2>1. Len(decoded) <= Len(sent) /\ \A k \in 1 .. Len(decoded) : decoded[k] = sent[k]
    BY <1>2 DEF InOrder
  <2>2. ASSUME NEW j \in 1 .. len + 1  PROVE bytes'[j] = sent[d + 1][j]
    <3>1. CASE j = len + 1
      BY <1>8, <1>10, <3>1
    <3>2. CASE j # len + 1
      <4>1. j \in 1 .. len /\ len > 0
        BY ONLY <1>7, <3>2, j \in 1 .. len + 1
      <4>2. bytes[j] = sent[d + 1][j]
        BY <1>2, <1>3, <4>1 DEF InOrder
      <4> QED
        BY ONLY <1>10, <4>1, <4>2
    <3> QED
      BY <3>1, <3>2
  <2>3. d < m
    BY ONLY <1>4, d \in Nat, m \in Nat
  <2>4. len' = len + 1
    BY <1>10
  <2> QED
    BY ONLY <1>3, <1>5, <1>7, <1>9, <2>1, <2>2, <2>3, <2>4 DEF InOrder
<1>12. ByteTypes'
  <2>1. uplink' \in Seq(Int)
    BY <1>2, HeadTailProperties DEF ByteTypes
  <2>2. Len(bytes') \in Nat
    BY <1>10, LenProperties
  <2>3. len' \in 0 .. Len(bytes') /\ Len(bytes') >= 1
    BY ONLY <1>7, <1>10, <2>2
  <2> QED
    BY <1>2, <1>9, <1>10, <2>1, <2>3 DEF ByteTypes
<1>13. ends[Len(decoded')] + len' = n + 1
  <2>1. ends[d] \in Nat /\ n = ends[d] + len
    <3>1. d \in 0 .. m
      BY <1>4
    <3> QED
      BY <1>1, <1>3, <3>1 DEF Stream, Taken
  <2>2. Len(decoded') = d /\ len' = len + 1
    BY <1>3, <1>9, <1>10
  <2> QED
    BY ONLY <1>7, <2>1, <2>2
<1>14. Stream(all, ends)' /\ Taken(all, ends, n + 1)'
  BY <1>1, <1>13, ByteTaken
<1> QED
  BY <1>9, <1>11, <1>12, <1>14 DEF Framed

-----------------------------------------------------------------------------
(* The server decodes the frames that were sent.                            *)

LEMMA StillFramed == Framed /\ UNCHANGED upVars => Framed'
<1> SUFFICES ASSUME Framed, UNCHANGED upVars  PROVE Framed'
  OBVIOUS
<1>1. UNCHANGED <<uplink, bytes, len, sent, decoded>>
  BY DEF upVars
<1>2. ByteTypes' /\ InOrder'
  <2>1. ByteTypes /\ InOrder
    BY DEF Framed
  <2> QED
    BY <1>1, <2>1, Zenon DEF ByteTypes, InOrder
<1>3. PICK all, ends, n : Stream(all, ends) /\ Taken(all, ends, n)
  BY DEF Framed
<1>4. Stream(all, ends)' /\ Taken(all, ends, n)'
  BY <1>1, <1>3, Zenon DEF Stream, Taken
<1> QED
  BY <1>2, <1>4, Zenon DEF Framed

LEMMA FramedStep == Framed /\ [FramingNext]_frameVars => Framed'
<1> SUFFICES ASSUME Framed, [FramingNext]_frameVars  PROVE Framed'
  OBVIOUS
<1>1. ASSUME NEW text \in Texts, Send(text)  PROVE Framed'
  BY <1>1, SendFramed
<1>2. ASSUME NEW text \in Texts, Answer(text)  PROVE Framed'
  BY <1>2, StillFramed DEF Answer
<1>3. CASE decodeNextByte
  BY <1>3, PopFramed, PushFramed DEF decodeNextByte
<1>4. CASE AppendByte \/ Process \/ ThrowAtFrame
  BY <1>4, StillFramed DEF AppendByte, Process, ThrowAtFrame, take_byte
<1>5. CASE Lose
  <2>1. (uplink = <<>> /\ sent = <<>> /\ decoded = <<>> /\ len = 0
          /\ bytes = [i \in 1 .. InitialCapacity |-> NUL])'
    BY <1>5 DEF Lose
  <2> QED
    BY <2>1, EmptyChannel, PTL
<1>6. CASE UNCHANGED frameVars
  BY <1>6, StillFramed DEF frameVars
<1> QED
  BY <1>1, <1>2, <1>3, <1>4, <1>5, <1>6 DEF FramingNext

\* What was sent and not decoded, when a frame more goes up.
LEMMA QueueGrows ==
    ASSUME Framed, NEW text \in Texts, Send(text)
    PROVE  SubSeq(sent', Len(decoded) + 1, Len(sent'))
             = Append(SubSeq(sent, Len(decoded) + 1, Len(sent)), text)
<1>1. ByteTypes /\ InOrder
  BY DEF Framed
<1>2. PICK d \in Nat, m \in Nat : d = Len(decoded) /\ m = Len(sent)
  BY <1>1, ByteFacts
<1>3. d <= m /\ sent \in Seq(Texts) /\ sent' = Append(sent, text)
  BY <1>1, <1>2 DEF InOrder, ByteTypes, Send
<1>4. /\ sent' \in Seq(Texts) /\ Len(sent') = m + 1 /\ sent'[m + 1] = text
      /\ \A k \in 1 .. m : sent'[k] = sent[k]
  BY ONLY <1>2, <1>3, text \in Texts, AppendProperties
<1>5. SubSeq(sent', d + 1, m + 1) = SubSeq(sent', d + 1, m) \o <<text>>
  <2>1. d + 1 \in 1 .. m + 1 /\ m + 1 \in d + 1 .. m + 1 /\ (m + 1) - 1 = m
    BY ONLY <1>3, d \in Nat, m \in Nat
  <2>2. SubSeq(sent', d + 1, m + 1) = SubSeq(sent', d + 1, (m + 1) - 1) \o <<sent'[m + 1]>>
    BY ONLY <1>4, <2>1, SubSeqRecursiveSecond
  <2> QED
    BY ONLY <1>4, <2>1, <2>2, Zenon
<1>6. \A k \in d + 1 .. m : k \in 1 .. m
  BY ONLY d \in Nat, m \in Nat
<1>7. \A k \in d + 1 .. m : sent[k] \in Texts /\ sent'[k] \in Texts
  BY ONLY <1>2, <1>3, <1>4, <1>6, ElementOfSeq
<1>8. SubSeq(sent', d + 1, m) = SubSeq(sent, d + 1, m)
  <2> DEFINE old == SubSeq(sent, d + 1, m)
  <2> DEFINE new == SubSeq(sent', d + 1, m)
  <2>1. /\ old \in Seq(Texts)
        /\ Len(old) = IF d + 1 <= m THEN m - (d + 1) + 1 ELSE 0
        /\ \A i \in 1 .. m - (d + 1) + 1 : old[i] = sent[d + 1 + i - 1]
    BY ONLY <1>7, d \in Nat, m \in Nat, SubSeqProperties
  <2>2. /\ new \in Seq(Texts)
        /\ Len(new) = IF d + 1 <= m THEN m - (d + 1) + 1 ELSE 0
        /\ \A i \in 1 .. m - (d + 1) + 1 : new[i] = sent'[d + 1 + i - 1]
    BY ONLY <1>7, d \in Nat, m \in Nat, SubSeqProperties
  <2> HIDE DEF old, new
  <2>3. Len(old) = m - d /\ Len(new) = m - d
    BY ONLY <1>3, <2>1, <2>2, d \in Nat, m \in Nat
  <2>4. ASSUME NEW i \in 1 .. m - d  PROVE new[i] = old[i]
    <3>1. i \in 1 .. m - (d + 1) + 1 /\ d + 1 + i - 1 \in 1 .. m
      BY ONLY <1>3, d \in Nat, m \in Nat, i \in 1 .. m - d
    <3>2. new[i] = sent'[d + 1 + i - 1] /\ old[i] = sent[d + 1 + i - 1]
      BY ONLY <2>1, <2>2, <3>1
    <3> QED
      BY ONLY <1>4, <3>1, <3>2
  <2>5. \A i \in 1 .. Len(new) : new[i] = old[i]
    BY ONLY <2>3, <2>4, Zenon
  <2>6. new = old
    BY ONLY <2>1, <2>2, <2>3, <2>5, SeqEqual
  <2> QED
    BY <2>6 DEF old, new
<1>9. SubSeq(sent, d + 1, m) \in Seq(Texts)
  BY ONLY <1>7, d \in Nat, m \in Nat, SubSeqProperties
<1>10. SubSeq(sent, d + 1, m) \o <<text>> = Append(SubSeq(sent, d + 1, m), text)
  BY ONLY <1>9, text \in Texts, AppendIsConcat
<1> QED
  BY ONLY <1>2, <1>4, <1>5, <1>8, <1>10, Zenon

\* When the next frame is decoded.
LEMMA QueueShrinks ==
    ASSUME Framed, uplink # <<>>, Head(uplink) = NUL
    PROVE  LET queue == SubSeq(sent, Len(decoded) + 1, Len(sent))
           IN  /\ queue # <<>> /\ Head(queue) = sent[Len(decoded) + 1]
               /\ Tail(queue) = SubSeq(sent, Len(decoded) + 2, Len(sent))
<1>1. ByteTypes
  BY DEF Framed
<1>2. PICK d \in Nat, m \in Nat : d = Len(decoded) /\ m = Len(sent)
  BY <1>1, ByteFacts
<1>3. d + 1 \in 1 .. m /\ sent \in Seq(Texts)
  BY <1>1, <1>2, NextByte, Zenon DEF ByteTypes
<1>4. m \in d + 1 .. m /\ (d + 1) + 1 = d + 2
  BY ONLY <1>3, d \in Nat, m \in Nat
<1>5. /\ Head(SubSeq(sent, d + 1, m)) = sent[d + 1]
      /\ Tail(SubSeq(sent, d + 1, m)) = SubSeq(sent, (d + 1) + 1, m)
  BY ONLY <1>2, <1>3, <1>4, HeadTailOfSubSeq
<1>6. SubSeq(sent, d + 1, m) # <<>>
  <2>1. \A k \in d + 1 .. m : k \in 1 .. m
    BY ONLY d \in Nat, m \in Nat
  <2>2. \A k \in d + 1 .. m : sent[k] \in Texts
    BY ONLY <1>2, <1>3, <2>1, ElementOfSeq
  <2>3. Len(SubSeq(sent, d + 1, m)) = IF d + 1 <= m THEN m - (d + 1) + 1 ELSE 0
    BY ONLY <2>2, d \in Nat, m \in Nat, SubSeqProperties
  <2>4. Len(SubSeq(sent, d + 1, m)) # 0
    BY ONLY <1>3, <2>3, d \in Nat, m \in Nat
  <2>5. Len(<<>>) = 0
    OBVIOUS
  <2> QED
    BY ONLY <2>4, <2>5, Zenon
<1> QED
  BY ONLY <1>2, <1>4, <1>5, <1>6, Zenon

LEMMA NoQueue == SubSeq(<<>>, Len(<<>>) + 1, Len(<<>>)) = <<>>
<1>1. Len(<<>>) = 0 /\ 0 < 1 /\ 0 + 1 = 1
  OBVIOUS
<1>2. SubSeq(<<>>, 1, 0) = <<>>
  BY ONLY <1>1, SubSeqEmpty
<1> QED
  BY <1>1, <1>2

LEMMA ChannelInit == FramingInit => Up!Init
BY NoQueue DEF FramingInit, Up!Init

LEMMA ChannelStep ==
    Framed /\ [FramingNext]_frameVars => [Up!Next]_(Up!channelVars)
<1> SUFFICES ASSUME Framed, [FramingNext]_frameVars
             PROVE  [Up!Next]_(Up!channelVars)
  OBVIOUS
<1>1. ASSUME NEW text \in Texts, Send(text)  PROVE Up!Next
  <2>1. Up!Send(text)
    BY <1>1, QueueGrows DEF Up!Send, Send
  <2> QED
    BY <2>1 DEF Up!Next
<1>2. UNCHANGED upVars => UNCHANGED Up!channelVars
  BY DEF upVars, Up!channelVars
<1>3. ASSUME NEW text \in Texts, Answer(text)  PROVE UNCHANGED upVars
  BY <1>3 DEF Answer
<1>4. CASE AppendByte \/ Process \/ ThrowAtFrame
  BY <1>2, <1>4 DEF AppendByte, Process, ThrowAtFrame, take_byte
<1>5. CASE decodeNextByte /\ Head(uplink) = NUL
  <2>1. /\ uplink # <<>> /\ popString /\ uplink' = Tail(uplink) /\ sent' = sent
    BY <1>5 DEF decodeNextByte
  <2>2. decoded' = Append(decoded, sent[Len(decoded) + 1])
    BY <1>5, <2>1, PopFramed
  <2>3. sent[Len(decoded) + 1] \in Texts /\ decoded \in Seq(Texts)
    BY <2>1, NextByte DEF Framed, ByteTypes
  <2>4. Len(decoded') + 1 = Len(decoded) + 2
    <3>1. Len(decoded') = Len(decoded) + 1 /\ Len(decoded) \in Nat
      BY ONLY <2>2, <2>3, AppendProperties, LenProperties
    <3> QED
      BY ONLY <3>1
  <2>5. LET queue == SubSeq(sent, Len(decoded) + 1, Len(sent))
        IN  /\ queue # <<>> /\ Head(queue) = sent[Len(decoded) + 1]
            /\ Tail(queue) = SubSeq(sent, Len(decoded) + 2, Len(sent))
    BY <1>5, <2>1, QueueShrinks
  <2>6. Up!Deliver
    BY ONLY <2>1, <2>2, <2>4, <2>5, Zenon DEF Up!Deliver
  <2> QED
    BY <2>6 DEF Up!Next
<1>6. CASE decodeNextByte /\ Head(uplink) # NUL
  <2>1. sent' = sent /\ decoded' = decoded
    BY <1>6, PushFramed DEF decodeNextByte
  <2> QED
    BY <2>1 DEF Up!channelVars
<1>7. CASE Lose
  <2>1. sent' = <<>> /\ decoded' = <<>>
    BY <1>7 DEF Lose
  <2>2. SubSeq(sent', Len(decoded') + 1, Len(sent')) = <<>>
    BY <2>1, NoQueue
  <2> QED
    BY <2>1, <2>2 DEF Up!Lose, Up!Next
<1>8. CASE UNCHANGED frameVars
  BY <1>2, <1>8 DEF frameVars
<1> QED
  BY <1>1, <1>2, <1>3, <1>4, <1>5, <1>6, <1>7, <1>8 DEF FramingNext

\* Taking one byte after the other, however often the array has to grow, the
\* decoder returns the frames that were sent on its connection, whole, in order
\* and each once; a connection made after a loss starts afresh
\* (StompEncoderDecoder.decodeNextByte, popString and pushByte): the safety
\* half of UpIsAChannel.
THEOREM BytesAreFrames ==
    FramingSpec => Up!Init /\ [][Up!Next]_(Up!channelVars)
<1>1. FramingInit => Framed /\ Up!Init
  BY FramedInit, ChannelInit
<1>2. Framed /\ [FramingNext]_frameVars => Framed'
  BY FramedStep
<1>3. Framed /\ [FramingNext]_frameVars => [Up!Next]_(Up!channelVars)
  BY ChannelStep
<1> QED
  BY <1>1, <1>2, <1>3, PTL DEF FramingSpec

-----------------------------------------------------------------------------
(* Induction over numbers, as facts about sets, and loops as functions.     *)

LEMMA LeastNatural ==
    ASSUME NEW T \in SUBSET Nat, T # {}
    PROVE  \E m \in T : \A k \in T : m <= k
<1> DEFINE R == OpToRel(<, Nat)
<1>1. IsWellFoundedOn(R, Nat)
  BY NatLessThanWellFounded
<1>2. \A k, m \in Nat : <<k, m>> \notin R => m <= k
  BY DEF OpToRel
<1> HIDE DEF R
<1>3. PICK m \in T : \A k \in T : <<k, m>> \notin R
  BY <1>1, WFMin
<1> QED
  BY <1>2, <1>3

\* A set with 0 in it, and with each number up to n the next one.
LEMMA UpTo ==
    ASSUME NEW n \in Nat, NEW S, 0 \in S,
           \A i \in 1 .. n : i - 1 \in S => i \in S
    PROVE  0 .. n \subseteq S
<1> SUFFICES ASSUME (0 .. n) \ S # {}  PROVE FALSE
  OBVIOUS
<1>1. (0 .. n) \ S \in SUBSET Nat
  OBVIOUS
<1>2. PICK m \in (0 .. n) \ S : \A k \in (0 .. n) \ S : m <= k
  BY <1>1, LeastNatural
<1>3. m \in 1 .. n /\ m - 1 \in 0 .. n /\ ~(m <= m - 1)
  BY <1>2
<1> QED
  BY <1>2, <1>3

\* The values of a loop with n rounds.
Loop(f, n, S, b, step) ==
    f \in [0 .. n -> S] /\ f[0] = b /\ \A i \in 1 .. n : f[i] = step[<<i, f[i - 1]>>]

LEMMA LoopExists ==
    ASSUME NEW n \in Nat, NEW S, NEW b \in S, NEW step \in [(1 .. n) \X S -> S]
    PROVE  \E f : Loop(f, n, S, b, step)
<1> DEFINE Done == {m \in 0 .. n : \E f \in [0 .. m -> S] :
                        f[0] = b /\ \A i \in 1 .. m : f[i] = step[<<i, f[i - 1]>>]}
<1>1. 0 \in Done
  <2> DEFINE f == [i \in 0 .. 0 |-> b]
  <2>1. f \in [0 .. 0 -> S] /\ f[0] = b
    OBVIOUS
  <2>2. ~ \E i \in Int : i \in 1 .. 0
    OBVIOUS
  <2> HIDE DEF f
  <2>3. \A i \in 1 .. 0 : f[i] = step[<<i, f[i - 1]>>]
    BY ONLY <2>2
  <2> QED
    BY <2>1, <2>3
<1>2. ASSUME NEW m \in 1 .. n, m - 1 \in Done  PROVE m \in Done
  <2>1. PICK f \in [0 .. m - 1 -> S] :
           f[0] = b /\ \A i \in 1 .. m - 1 : f[i] = step[<<i, f[i - 1]>>]
    BY <1>2
  <2> DEFINE v == step[<<m, f[m - 1]>>]
  <2> DEFINE g == [i \in 0 .. m |-> IF i = m THEN v ELSE f[i]]
  <2>2. m - 1 \in 0 .. m - 1 /\ m \in 1 .. n /\ m \in 0 .. n
    OBVIOUS
  <2>3. v \in S
    BY <2>2
  <2>4. g \in [0 .. m -> S] /\ g[0] = b
    BY <2>1, <2>3
  <2>5. ASSUME NEW i \in 1 .. m  PROVE g[i] = step[<<i, g[i - 1]>>]
    <3>1. PICK k \in 0 .. m : k = i - 1 /\ k # m
      OBVIOUS
    <3>2. g[k] = f[k]
      BY <3>1
    <3>3. v = step[<<m, f[m - 1]>>] /\ g[i] = IF i = m THEN v ELSE f[i]
      OBVIOUS
    <3> HIDE DEF g, v
    <3>4. CASE i = m
      BY ONLY <3>1, <3>2, <3>3, <3>4
    <3>5. CASE i # m
      <4>1. i \in 1 .. m - 1
        BY <3>5
      <4> QED
        BY ONLY <2>1, <3>1, <3>2, <3>3, <3>5, <4>1
    <3> QED
      BY <3>4, <3>5
  <2> HIDE DEF g
  <2> QED
    BY <2>2, <2>4, <2>5
<1>3. n \in Done
  <2> HIDE DEF Done
  <2>1. 0 .. n \subseteq Done
    BY <1>1, <1>2, UpTo
  <2> QED
    BY <2>1
<1> QED
  BY <1>3 DEF Loop

\* Two loops that begin alike, and do alike in each of n rounds.
Alike(f, g, n) ==
    f[0] = g[0] /\ \A i \in 1 .. n : f[i - 1] = g[i - 1] => f[i] = g[i]

LEMMA LoopUnique ==
    ASSUME NEW n \in Nat, NEW f, NEW g, Alike(f, g, n)
    PROVE  \A i \in 0 .. n : f[i] = g[i]
<1> DEFINE Same == {i \in 0 .. n : f[i] = g[i]}
<1>1. 0 \in Same /\ \A i \in 1 .. n : i - 1 \in Same => i \in Same
  BY DEF Alike
<1> HIDE DEF Same
<1>2. 0 .. n \subseteq Same
  BY <1>1, UpTo
<1> QED
  BY <1>2 DEF Same

-----------------------------------------------------------------------------
(* The text of a frame without its line ends.                               *)

Pruned(text, kept) ==
    /\ kept \in [0 .. Len(text) -> Seq(Int)] /\ kept[0] = <<>>
    /\ \A i \in 1 .. Len(text) :
          kept[i] = IF text[i] = LineEnd THEN kept[i - 1] ELSE Append(kept[i - 1], text[i])

LEMMA ContentLoop ==
    ASSUME NEW text \in Seq(Int)
    PROVE  \E kept : Pruned(text, kept) /\ content(text) = kept[Len(text)]
<1>1. PICK n \in Nat : n = Len(text)
  BY LenProperties
<1>2. \A i \in 1 .. n : text[i] \in Int
  BY <1>1, ElementOfSeq
<1> DEFINE S == Seq(Int)
<1> DEFINE step == [x \in (1 .. n) \X S |->
                       IF text[x[1]] = LineEnd THEN x[2] ELSE Append(x[2], text[x[1]])]
<1>3. step \in [(1 .. n) \X S -> S]
  BY <1>2
<1>4. \A i \in 1 .. n, s \in S :
         step[<<i, s>>] = IF text[i] = LineEnd THEN s ELSE Append(s, text[i])
  OBVIOUS
<1>5. <<>> \in S
  OBVIOUS
<1> HIDE DEF S, step
<1>6. PICK f : Loop(f, n, S, <<>>, step)
  BY ONLY <1>3, <1>5, n \in Nat, LoopExists, Zenon
<1>7. \A i \in 1 .. n : i - 1 \in 0 .. n
  OBVIOUS
<1>8. Pruned(text, f)
  BY ONLY <1>1, <1>4, <1>6, <1>7 DEF Loop, Pruned, S
<1>9. ASSUME NEW h, h = [i \in 0 .. n |-> IF i = 0 THEN <<>>
                             ELSE IF text[i] = LineEnd THEN h[i - 1]
                             ELSE Append(h[i - 1], text[i])]
      PROVE  h = f
  <2>1. Alike(h, f, n)
    <3>1. \A i \in 1 .. n : i \in 0 .. n /\ i # 0
      OBVIOUS
    <3>2. 0 \in 0 .. n
      OBVIOUS
    <3>3. h[0] = <<>> /\ f[0] = <<>>
      BY ONLY <1>8, <1>9, <3>2 DEF Pruned
    <3>4. ASSUME NEW i \in 1 .. n, h[i - 1] = f[i - 1]  PROVE h[i] = f[i]
      <4>1. f[i] = IF text[i] = LineEnd THEN f[i - 1] ELSE Append(f[i - 1], text[i])
        BY <1>1, <1>8 DEF Pruned
      <4>2. h[i] = IF text[i] = LineEnd THEN h[i - 1] ELSE Append(h[i - 1], text[i])
        BY ONLY <1>9, <3>1, i \in 1 .. n, Zenon
      <4> QED
        BY ONLY <3>4, <4>1, <4>2, Zenon
    <3> QED
      BY ONLY <3>3, <3>4, Zenon DEF Alike
  <2>2. \A i \in 0 .. n : h[i] = f[i]
    BY ONLY <2>1, n \in Nat, LoopUnique
  <2> QED
    BY <1>1, <1>8, <1>9, <2>2 DEF Pruned
<1>10. f = [i \in 0 .. n |-> IF i = 0 THEN <<>>
                             ELSE IF text[i] = LineEnd THEN f[i - 1]
                             ELSE Append(f[i - 1], text[i])]
  <2> DEFINE body(i) == IF i = 0 THEN <<>>
                        ELSE IF text[i] = LineEnd THEN f[i - 1]
                        ELSE Append(f[i - 1], text[i])
  <2>1. f \in [0 .. n -> Seq(Int)] /\ f[0] = body(0)
    BY <1>1, <1>8 DEF Pruned
  <2>2. \A i \in 1 .. n : f[i] = body(i)
    BY <1>1, <1>8 DEF Pruned
  <2>3. \A i \in 0 .. n : i = 0 \/ i \in 1 .. n
    OBVIOUS
  <2>4. f = [i \in 0 .. n |-> body(i)]
    <3> HIDE DEF body
    <3> QED
      BY ONLY <2>1, <2>2, <2>3
  <2> QED
    BY <2>4
<1>11. content(text) = f[n]
  BY ONLY <1>1, <1>9, <1>10 DEF content
<1> QED
  BY <1>1, <1>8, <1>11

LEMMA NoContent == content(<<>>) = <<>>
<1>1. <<>> \in Seq(Int) /\ Len(<<>>) = 0
  OBVIOUS
<1> QED
  BY <1>1, ContentLoop DEF Pruned

\* A byte more.
LEMMA ContentGrows ==
    ASSUME NEW text \in Seq(Int), NEW b \in Int
    PROVE  content(Append(text, b)) = IF b = LineEnd THEN content(text)
                                      ELSE Append(content(text), b)
<1> DEFINE long == Append(text, b)
<1>1. PICK n \in Nat : n = Len(text)
  BY LenProperties
<1>2. /\ long \in Seq(Int) /\ Len(long) = n + 1 /\ long[n + 1] = b
      /\ \A i \in 1 .. n : long[i] = text[i]
  BY <1>1, AppendProperties
<1> HIDE DEF long
<1>3. PICK f : Pruned(text, f) /\ content(text) = f[n]
  BY <1>1, ContentLoop
<1>4. PICK g : Pruned(long, g) /\ content(long) = g[n + 1]
  BY <1>2, ContentLoop
<1>5. \A i \in 1 .. n : i \in 1 .. n + 1
  OBVIOUS
<1>6. Alike(f, g, n)
  <2>1. f[0] = g[0]
    BY <1>3, <1>4 DEF Pruned
  <2>2. ASSUME NEW i \in 1 .. n, f[i - 1] = g[i - 1]  PROVE f[i] = g[i]
    <3>1. f[i] = IF text[i] = LineEnd THEN f[i - 1] ELSE Append(f[i - 1], text[i])
      BY <1>1, <1>3 DEF Pruned
    <3>2. g[i] = IF long[i] = LineEnd THEN g[i - 1] ELSE Append(g[i - 1], long[i])
      BY <1>2, <1>4, <1>5 DEF Pruned
    <3> QED
      BY ONLY <1>2, <2>2, <3>1, <3>2, i \in 1 .. n, Zenon
  <2> QED
    BY ONLY <2>1, <2>2, Zenon DEF Alike
<1>7. f[n] = g[n]
  <2>1. \A i \in 0 .. n : f[i] = g[i]
    BY ONLY <1>6, n \in Nat, LoopUnique
  <2> QED
    BY <2>1
<1>8. n + 1 \in 1 .. n + 1 /\ (n + 1) - 1 = n
  OBVIOUS
<1>9. g[n + 1] = IF b = LineEnd THEN g[n] ELSE Append(g[n], b)
  BY ONLY <1>2, <1>4, <1>8 DEF Pruned
<1> QED
  BY ONLY <1>3, <1>4, <1>7, <1>9 DEF long

LEMMA ContentType ==
    ASSUME NEW text \in Seq(Int)
    PROVE  content(text) \in Seq(Int)
<1>1. Len(text) \in 0 .. Len(text)
  BY LenProperties
<1> QED
  BY <1>1, ContentLoop DEF Pruned

-----------------------------------------------------------------------------
(* The frames on their way to the client.                                   *)

\* Byte j of frame k, with its NUL and the line end behind it.
Byte(k, j) == IF j <= Len(answered[k]) THEN answered[k][j]
              ELSE IF j = Len(answered[k]) + 1 THEN NUL ELSE LineEnd

\* Nothing of frame k comes behind byte j.
AtEnd(k, j) == k = 0 \/ j = Len(answered[k]) + 2

Follows(k, j, l, i) == (l = k /\ i = j + 1) \/ (AtEnd(k, j) /\ l = k + 1 /\ i = 1)

Within(k, j) == k \in 1 .. Len(answered) /\ j \in 1 .. Len(answered[k]) + 2

\* Byte n of the downlink is byte at[n] of frame of[n]; the last one the client
\* has taken is that of 0.
Places(of, at) ==
    /\ of \in [0 .. Len(downlink) -> Nat] /\ at \in [0 .. Len(downlink) -> Nat]
    /\ Within(of[0], at[0]) \/ (of[0] = 0 /\ at[0] = 0)
    /\ \A n \in 1 .. Len(downlink) :
          /\ Within(of[n], at[n])
          /\ downlink[n] = Byte(of[n], at[n])
          /\ Follows(of[n - 1], at[n - 1], of[n], at[n])
    /\ of[Len(downlink)] = Len(answered)
    /\ AtEnd(of[Len(downlink)], at[Len(downlink)])

\* When byte j of frame k was the last one taken, the frames before it have been
\* processed, and income holds what of this one has come before its NUL.
InHand(k, j) ==
    /\ IF k = 0 \/ j > Len(answered[k])
       THEN Len(processed) = k /\ content(income) = <<>>
       ELSE Len(processed) = k - 1 /\ content(income) = content(SubSeq(answered[k], 1, j))
    /\ \A n \in 1 .. Len(processed) : processed[n] = content(answered[n])

DownTypes ==
    /\ downlink \in Seq(Int) /\ income \in Seq(Int)
    /\ answered \in Seq(Texts) /\ processed \in Seq(Seq(Int))

Downward ==
    /\ DownTypes
    /\ whole => \E of, at : Places(of, at) /\ InHand(of[0], at[0])

LEMMA EmptyDownlink ==
    ASSUME downlink = <<>>, answered = <<>>, processed = <<>>,
           income \in Seq(Int), whole => content(income) = <<>>
    PROVE  Downward
<1> DEFINE z == [n \in 0 .. 0 |-> 0]
<1>1. z \in [0 .. 0 -> Nat] /\ z[0] = 0
  OBVIOUS
<1> HIDE DEF z
<1>2. Len(downlink) = 0 /\ Len(answered) = 0 /\ Len(processed) = 0
  OBVIOUS
<1>3. DownTypes
  BY DEF DownTypes
<1>4. ~ \E n \in Int : n \in 1 .. 0
  OBVIOUS
<1>5. Places(z, z)
  BY ONLY <1>1, <1>2, <1>4 DEF Places, AtEnd
<1>6. whole => InHand(z[0], z[0])
  BY ONLY <1>1, <1>2, <1>4, whole => content(income) = <<>> DEF InHand
<1> QED
  BY <1>3, <1>5, <1>6 DEF Downward

LEMMA DownwardInit == FramingInit => Downward
BY EmptyDownlink, NoContent DEF FramingInit

LEMMA DownFacts ==
    ASSUME DownTypes
    PROVE  /\ Len(downlink) \in Nat /\ Len(answered) \in Nat /\ Len(processed) \in Nat
           /\ \A k \in 1 .. Len(answered) :
                 /\ answered[k] \in Texts /\ answered[k] \in Seq(Int)
                 /\ Len(answered[k]) \in Nat /\ Len(answered[k]) >= 1
                 /\ \A j \in 1 .. Len(answered[k]) :
                       answered[k][j] \in Int /\ answered[k][j] # NUL
<1>1. Len(downlink) \in Nat /\ Len(answered) \in Nat /\ Len(processed) \in Nat
  BY LenProperties DEF DownTypes
<1>2. ASSUME NEW k \in 1 .. Len(answered)
      PROVE  /\ answered[k] \in Texts /\ answered[k] \in Seq(Int)
             /\ Len(answered[k]) \in Nat /\ Len(answered[k]) >= 1
             /\ \A j \in 1 .. Len(answered[k]) :
                   answered[k][j] \in Int /\ answered[k][j] # NUL
  <2>1. answered[k] \in Texts
    BY ElementOfSeq DEF DownTypes
  <2>2. answered[k] # <<>>
    BY <2>1, FramingAssumption
  <2> QED
    BY <2>1, <2>2, TextFacts, EmptySeq
<1> QED
  BY <1>1, <1>2

\* The beginning of a text, and a byte more.
LEMMA Prefix ==
    ASSUME NEW text \in Seq(Int), NEW j \in 1 .. Len(text)
    PROVE  /\ SubSeq(text, 1, j - 1) \in Seq(Int)
           /\ SubSeq(text, 1, j) = Append(SubSeq(text, 1, j - 1), text[j])
<1>1. PICK l \in Nat : l = Len(text)
  BY LenProperties
<1>2. \A n \in 1 .. l : text[n] \in Int
  BY <1>1, ElementOfSeq
<1>3. 1 \in 1 .. l + 1 /\ j \in 1 .. l /\ 1 \in Int /\ j - 1 \in Int
  BY <1>1
<1>4. SubSeq(text, 1, j) = SubSeq(text, 1, j - 1) \o <<text[j]>>
  <2>1. 1 \in 1 .. Len(text) + 1 /\ j \in 1 .. Len(text)
    BY <1>1, <1>3
  <2> QED
    BY <2>1, SubSeqRecursiveSecond
<1>5. SubSeq(text, 1, j - 1) \in Seq(Int)
  <2>1. \A n \in 1 .. j - 1 : text[n] \in Int
    BY <1>2, <1>3
  <2> QED
    BY ONLY <1>3, <2>1, SubSeqProperties
<1>6. text[j] \in Int
  BY <1>2, <1>3
<1> QED
  BY ONLY <1>4, <1>5, <1>6, AppendIsConcat

\* A frame goes out.
LEMMA Encoded ==
    ASSUME NEW text \in Texts
    PROVE  \E l \in Nat : /\ l = Len(text) /\ encode(text) \in Seq(Int)
                          /\ Len(encode(text)) = l + 2
                          /\ \A j \in 1 .. l : encode(text)[j] = text[j]
                          /\ encode(text)[l + 1] = NUL /\ encode(text)[l + 2] = LineEnd
<1>1. PICK l \in Nat : l = Len(text)
  BY TextFacts
<1> DEFINE end == <<NUL, LineEnd>>
<1>2. end \in Seq(Int) /\ Len(end) = 2 /\ end[1] = NUL /\ end[2] = LineEnd
  BY DEF NUL, LineEnd
<1> HIDE DEF end
<1>3. text \in Seq(Int) /\ encode(text) = text \o end
  BY TextFacts DEF encode, end
<1>4. 1 \in 1 .. 2 /\ 2 \in 1 .. 2
  OBVIOUS
<1>5. text \o end \in Seq(Int) /\ Len(text \o end) = l + 2
  <2>1. text \o end \in Seq(Int) /\ Len(text \o end) = Len(text) + Len(end)
    BY <1>2, <1>3, Behind, Zenon
  <2> QED
    BY ONLY <1>1, <1>2, <2>1, Zenon
<1>6. \A i \in 1 .. Len(text) : (text \o end)[i] = text[i]
  BY <1>2, <1>3, Behind, Zenon
<1>7. \A i \in 1 .. Len(end) : (text \o end)[Len(text) + i] = end[i]
  BY <1>2, <1>3, Behind, Zenon
<1>8. (text \o end)[l + 1] = NUL /\ (text \o end)[l + 2] = LineEnd
  BY ONLY <1>1, <1>2, <1>4, <1>7, Zenon
<1> QED
  BY ONLY <1>1, <1>3, <1>5, <1>6, <1>8, Zenon

LEMMA AnswerPlaces ==
    ASSUME DownTypes, NEW text \in Texts, Answer(text),
           NEW of, NEW at, Places(of, at), InHand(of[0], at[0])
    PROVE  \E o, a : Places(o, a)' /\ InHand(o[0], a[0])'
<1>1. PICK l \in Nat : /\ l = Len(text) /\ encode(text) \in Seq(Int)
                       /\ Len(encode(text)) = l + 2
                       /\ \A j \in 1 .. l : encode(text)[j] = text[j]
                       /\ encode(text)[l + 1] = NUL /\ encode(text)[l + 2] = LineEnd
  BY Encoded
<1>2. PICK u \in Nat, m \in Nat : u = Len(downlink) /\ m = Len(answered)
  BY DownFacts
<1>3. /\ answered' = Append(answered, text) /\ downlink' = downlink \o encode(text)
      /\ UNCHANGED <<income, processed, whole>>
  BY DEF Answer
<1>4. /\ Len(answered') = m + 1 /\ answered'[m + 1] = text
      /\ \A k \in 1 .. m : answered'[k] = answered[k]
  BY <1>2, <1>3, AppendProperties DEF DownTypes
<1>5. /\ Len(downlink') = u + (l + 2) /\ \A n \in 1 .. u : downlink'[n] = downlink[n]
      /\ \A n \in 1 .. l + 2 : downlink'[u + n] = encode(text)[n]
  <2>1. downlink \in Seq(Int)
    BY DEF DownTypes
  <2>2. Len(downlink') = Len(downlink) + Len(encode(text))
    BY <1>1, <1>3, <2>1, Behind, Zenon
  <2>3. \A n \in 1 .. Len(downlink) : downlink'[n] = downlink[n]
    BY <1>1, <1>3, <2>1, Behind, Zenon
  <2>4. \A n \in 1 .. Len(encode(text)) : downlink'[Len(downlink) + n] = encode(text)[n]
    BY <1>1, <1>3, <2>1, Behind, Zenon
  <2> QED
    BY ONLY <1>1, <1>2, <2>2, <2>3, <2>4, Zenon
<1>6. /\ of \in [0 .. u -> Nat] /\ at \in [0 .. u -> Nat]
      /\ Within(of[0], at[0]) \/ (of[0] = 0 /\ at[0] = 0)
      /\ of[u] = m /\ AtEnd(m, at[u])
      /\ \A n \in 1 .. u : /\ Within(of[n], at[n]) /\ downlink[n] = Byte(of[n], at[n])
                           /\ Follows(of[n - 1], at[n - 1], of[n], at[n])
  BY <1>2 DEF Places
<1> DEFINE o == [n \in 0 .. u + (l + 2) |-> IF n <= u THEN of[n] ELSE m + 1]
<1> DEFINE a == [n \in 0 .. u + (l + 2) |-> IF n <= u THEN at[n] ELSE n - u]
<1>7. /\ o \in [0 .. u + (l + 2) -> Nat] /\ a \in [0 .. u + (l + 2) -> Nat]
      /\ \A n \in 0 .. u : o[n] = of[n] /\ a[n] = at[n]
      /\ \A n \in u + 1 .. u + (l + 2) : o[n] = m + 1 /\ a[n] = n - u
  <2>1. \A n \in 0 .. u : of[n] \in Nat /\ at[n] \in Nat
    BY <1>6
  <2>2. \A n \in 0 .. u + (l + 2) : n <= u => n \in 0 .. u
    OBVIOUS
  <2>3. \A n \in 0 .. u + (l + 2) : ~(n <= u) => n - u \in Nat
    OBVIOUS
  <2>4. o \in [0 .. u + (l + 2) -> Nat]
    BY <2>1, <2>2
  <2>5. a \in [0 .. u + (l + 2) -> Nat]
    BY <2>1, <2>2, <2>3
  <2> QED
    BY <2>4, <2>5
<1> HIDE DEF o, a
\* What was said of the frames before is still true.
<1>8. ASSUME NEW k \in 1 .. m
      PROVE  /\ \A j : Within(k, j) => Within(k, j)'
             /\ \A j : Byte(k, j)' = Byte(k, j)
             /\ \A j, h, i : Follows(k, j, h, i) => Follows(k, j, h, i)'
             /\ \A j : AtEnd(k, j)' <=> AtEnd(k, j)
  <2>1. answered'[k] = answered[k] /\ k \in 1 .. m + 1
    BY <1>4
  <2> QED
    BY ONLY <1>2, <1>4, <2>1, k \in 1 .. m DEF Within, Byte, Follows, AtEnd
<1>9. ASSUME NEW n \in 1 .. u + (l + 2)
      PROVE  /\ Within(o[n], a[n])' /\ downlink'[n] = Byte(o[n], a[n])'
             /\ Follows(o[n - 1], a[n - 1], o[n], a[n])'
  <2>1. CASE n \in 1 .. u
    <3>1. n \in 0 .. u /\ n - 1 \in 0 .. u
      BY <2>1
    <3>2. /\ o[n] = of[n] /\ a[n] = at[n] /\ o[n - 1] = of[n - 1] /\ a[n - 1] = at[n - 1]
      BY ONLY <1>7, <3>1
    <3>3. of[n] \in 1 .. m /\ Within(of[n], at[n])
      BY <1>2, <1>6, <2>1 DEF Within
    <3>4. Follows(of[n - 1], at[n - 1], of[n], at[n])
      BY <1>6, <2>1
    <3>5. Follows(of[n - 1], at[n - 1], of[n], at[n])'
      <4>1. of[n - 1] \in 0 .. m
        <5>1. of[n - 1] \in Nat /\ of[n] \in Nat
          BY <1>6, <3>1
        <5>2. of[n] = of[n - 1] \/ of[n] = of[n - 1] + 1
          BY <3>4 DEF Follows
        <5> QED
          BY <3>3, <5>1, <5>2
      <4>2. CASE of[n - 1] = 0
        BY ONLY <3>4, <4>2 DEF Follows, AtEnd
      <4>3. CASE of[n - 1] \in 1 .. m
        BY <1>8, <3>4, <4>3
      <4> QED
        BY <4>1, <4>2, <4>3
    <3>6. Within(of[n], at[n])' /\ Byte(of[n], at[n])' = Byte(of[n], at[n])
      BY <1>8, <3>3
    <3>7. downlink'[n] = Byte(of[n], at[n])
      BY <1>5, <1>6, <2>1
    <3> QED
      BY ONLY <3>2, <3>5, <3>6, <3>7
  <2>2. CASE ~(n \in 1 .. u)
    <3>1. PICK j \in 1 .. l + 2 : n = u + j
      <4>1. n - u \in 1 .. l + 2 /\ n = u + (n - u)
        BY <2>2
      <4> QED
        BY <4>1
    <3>2. n \in u + 1 .. u + (l + 2) /\ n - u = j
      BY <3>1
    <3>3. o[n] = m + 1 /\ a[n] = j
      BY ONLY <1>7, <3>2
    <3>4. Within(m + 1, j)'
      <4>1. m + 1 \in 1 .. m + 1
        OBVIOUS
      <4> QED
        BY ONLY <1>1, <1>4, <4>1, j \in 1 .. l + 2 DEF Within
    <3>5. downlink'[n] = Byte(m + 1, j)'
      <4>1. downlink'[n] = encode(text)[j]
        BY <1>5, <3>1
      <4>2. j \in 1 .. l \/ (j = l + 1 /\ ~(j <= l)) \/ (j = l + 2 /\ ~(j <= l) /\ j # l + 1)
        OBVIOUS
      <4> QED
        BY <1>1, <1>4, <4>1, <4>2 DEF Byte
    <3>6. Follows(o[n - 1], a[n - 1], m + 1, j)'
      <4>1. CASE j = 1
        <5>1. n - 1 = u /\ u \in 0 .. u
          BY <3>1, <4>1
        <5>2. o[n - 1] = m /\ a[n - 1] = at[u]
          BY ONLY <1>6, <1>7, <5>1
        <5>3. AtEnd(m, at[u])'
          <6>1. CASE m = 0
            BY <6>1 DEF AtEnd
          <6>2. CASE m # 0
            <7>1. m \in 1 .. m
              BY <6>2
            <7> QED
              BY <1>6, <1>8, <7>1
          <6> QED
            BY <6>1, <6>2
        <5> QED
          BY ONLY <4>1, <5>2, <5>3 DEF Follows
      <4>2. CASE j # 1
        <5>1. n - 1 \in u + 1 .. u + (l + 2) /\ n - 1 - u = j - 1 /\ j = (j - 1) + 1
          BY <3>1, <4>2
        <5>2. o[n - 1] = m + 1 /\ a[n - 1] = j - 1
          BY ONLY <1>7, <5>1
        <5> QED
          BY ONLY <5>1, <5>2 DEF Follows
      <4> QED
        BY <4>1, <4>2
    <3> QED
      BY ONLY <3>3, <3>4, <3>5, <3>6
  <2> QED
    BY <2>1, <2>2
<1>10. o[0] = of[0] /\ a[0] = at[0]
  <2>1. 0 \in 0 .. u
    OBVIOUS
  <2> QED
    BY ONLY <1>7, <2>1
<1>11. Within(o[0], a[0])' \/ (o[0] = 0 /\ a[0] = 0)
  <2>1. CASE Within(of[0], at[0])
    <3>1. of[0] \in 1 .. m
      BY ONLY <1>2, <2>1 DEF Within
    <3> QED
      BY <1>8, <1>10, <2>1, <3>1
  <2> QED
    BY <1>6, <1>10, <2>1
<1>12. o[u + (l + 2)] = m + 1 /\ AtEnd(m + 1, a[u + (l + 2)])'
  <2>1. u + (l + 2) \in u + 1 .. u + (l + 2) /\ u + (l + 2) - u = l + 2
    OBVIOUS
  <2>2. o[u + (l + 2)] = m + 1 /\ a[u + (l + 2)] = l + 2
    BY ONLY <1>7, <2>1
  <2> QED
    BY ONLY <1>1, <1>4, <2>2 DEF AtEnd
<1>13. Places(o, a)'
  BY ONLY <1>4, <1>5, <1>7, <1>9, <1>11, <1>12 DEF Places
<1>14. InHand(of[0], at[0])'
  <2>1. Len(processed) <= m
    <3>1. of[0] \in 0 .. m
      BY <1>2, <1>6 DEF Within
    <3> QED
      BY <3>1 DEF InHand
  <2>2. \A n \in 1 .. Len(processed) : n \in 1 .. m
    BY <2>1, DownFacts
  <2>3. \A n \in 1 .. Len(processed) : processed'[n] = content(answered'[n])
    BY <1>3, <1>4, <2>2 DEF InHand
  <2>4. of[0] # 0 => answered'[of[0]] = answered[of[0]]
    BY <1>2, <1>4, <1>6 DEF Within
  <2> QED
    BY ONLY <1>3, <2>3, <2>4, InHand(of[0], at[0]) DEF InHand
<1> QED
  BY ONLY <1>10, <1>13, <1>14

\* The client takes a byte: byte i of frame l, behind byte j of frame k.
LEMMA NextTaken ==
    ASSUME DownTypes, NEW of, NEW at, Places(of, at), downlink # <<>>,
           downlink' = Tail(downlink), answered' = answered
    PROVE  \E o, a :
              /\ Places(o, a)' /\ Within(o[0], a[0])
              /\ Head(downlink) = Byte(o[0], a[0])
              /\ Follows(of[0], at[0], o[0], a[0])
<1>1. PICK u \in Nat : u = Len(downlink)
  BY DownFacts
<1>2. downlink \in Seq(Int)
  BY DEF DownTypes
<1>3. /\ u >= 1 /\ Len(downlink') = u - 1 /\ Head(downlink) = downlink[1]
      /\ \A n \in 1 .. u - 1 : downlink'[n] = downlink[n + 1]
  BY <1>1, <1>2, HeadTailProperties, EmptySeq
<1>4. /\ of \in [0 .. u -> Nat] /\ at \in [0 .. u -> Nat]
      /\ of[u] = Len(answered) /\ AtEnd(of[u], at[u])
  BY <1>1 DEF Places
<1>5. \A n \in 1 .. u : /\ Within(of[n], at[n]) /\ downlink[n] = Byte(of[n], at[n])
                        /\ Follows(of[n - 1], at[n - 1], of[n], at[n])
  BY <1>1 DEF Places
<1> DEFINE o == [n \in 0 .. u - 1 |-> of[n + 1]]
<1> DEFINE a == [n \in 0 .. u - 1 |-> at[n + 1]]
<1>6. /\ o \in [0 .. u - 1 -> Nat] /\ a \in [0 .. u - 1 -> Nat]
      /\ \A n \in 0 .. u - 1 : o[n] = of[n + 1] /\ a[n] = at[n + 1]
  <2>1. \A n \in 0 .. u - 1 : n + 1 \in 0 .. u
    BY <1>3
  <2> QED
    BY <1>4, <2>1
<1> HIDE DEF o, a
<1>7. o[0] = of[1] /\ a[0] = at[1]
  <2>1. 0 \in 0 .. u - 1 /\ 0 + 1 = 1
    BY <1>3
  <2> QED
    BY ONLY <1>6, <2>1
<1>8. /\ Within(o[0], a[0]) /\ Head(downlink) = Byte(o[0], a[0])
      /\ Follows(of[0], at[0], o[0], a[0])
  <2>1. 1 \in 1 .. u /\ 1 - 1 = 0
    BY <1>3
  <2> QED
    BY ONLY <1>3, <1>5, <1>7, <2>1
<1>9. ASSUME NEW n \in 1 .. u - 1
      PROVE  /\ Within(o[n], a[n]) /\ downlink'[n] = Byte(o[n], a[n])
             /\ Follows(o[n - 1], a[n - 1], o[n], a[n])
  <2>1. /\ n + 1 \in 1 .. u /\ (n + 1) - 1 = n /\ n \in 0 .. u - 1
        /\ n - 1 \in 0 .. u - 1 /\ (n - 1) + 1 = n
    OBVIOUS
  <2>2. o[n] = of[n + 1] /\ a[n] = at[n + 1] /\ o[n - 1] = of[n] /\ a[n - 1] = at[n]
    BY ONLY <1>6, <2>1
  <2>3. /\ Within(of[n + 1], at[n + 1]) /\ downlink[n + 1] = Byte(of[n + 1], at[n + 1])
        /\ Follows(of[n], at[n], of[n + 1], at[n + 1])
    BY ONLY <1>5, <2>1
  <2>4. downlink'[n] = downlink[n + 1]
    BY ONLY <1>3, n \in 1 .. u - 1
  <2> QED
    BY ONLY <2>2, <2>3, <2>4
<1>10. o[u - 1] = Len(answered) /\ AtEnd(o[u - 1], a[u - 1])
  <2>1. u - 1 \in 0 .. u - 1 /\ (u - 1) + 1 = u
    BY <1>3
  <2>2. o[u - 1] = of[u] /\ a[u - 1] = at[u]
    BY ONLY <1>6, <2>1
  <2> QED
    BY ONLY <1>4, <2>2
<1>11. Places(o, a)'
  <2>1. \A k, j : /\ Within(k, j)' <=> Within(k, j)
                  /\ Byte(k, j)' = Byte(k, j) /\ (AtEnd(k, j)' <=> AtEnd(k, j))
    BY DEF Within, Byte, AtEnd
  <2>2. \A k, j, l, i : Follows(k, j, l, i)' <=> Follows(k, j, l, i)
    BY DEF Follows, AtEnd
  <2>3. answered' = answered
    OBVIOUS
  <2> QED
    BY ONLY <1>3, <1>6, <1>8, <1>9, <1>10, <2>1, <2>2, <2>3 DEF Places
<1> QED
  BY <1>8, <1>11

\* Byte l of a frame is in the hands of the client, one more than before.
LEMMA InHandGrows ==
    ASSUME DownTypes, UNCHANGED <<answered, processed>>, NEW k \in Nat, NEW j \in Nat,
           NEW l, NEW i, InHand(k, j), Within(l, i), Follows(k, j, l, i),
           Within(k, j) \/ (k = 0 /\ j = 0),
           Byte(l, i) # NUL, income' = Append(income, Byte(l, i))
    PROVE  InHand(l, i)'
<1>1. PICK s \in Nat : s = Len(answered[l])
  BY DownFacts DEF Within
<1>2. l \in 1 .. Len(answered) /\ i \in 1 .. s + 2 /\ i # s + 1 /\ Len(answered) \in Nat
  BY <1>1, DownFacts DEF Within, Byte
<1>3. answered[l] \in Seq(Int) /\ s >= 1 /\ \A n \in 1 .. s : answered[l][n] \in Int
  BY <1>1, <1>2, DownFacts
<1>4. income \in Seq(Int)
  BY DEF DownTypes
<1>5. \A n \in 1 .. Len(processed) : processed'[n] = content(answered'[n])
  BY DEF InHand
<1>6. CASE i <= s
  <2>1. i \in 1 .. s /\ Byte(l, i) = answered[l][i] /\ answered[l][i] \in Int
    BY <1>1, <1>2, <1>3, <1>6 DEF Byte
  <2>2. content(income) = content(SubSeq(answered[l], 1, i - 1)) /\ Len(processed) = l - 1
    <3>1. CASE l = k /\ i = j + 1
      <4>1. j = i - 1 /\ k # 0 /\ ~(j > s) /\ j \in Nat
        BY <1>2, <1>6, <3>1
      <4> QED
        BY ONLY <1>1, <3>1, <4>1, InHand(k, j) DEF InHand
    <3>2. CASE AtEnd(k, j) /\ l = k + 1 /\ i = 1
      <4>1. SubSeq(answered[l], 1, 0) = <<>>
        BY SubSeqEmpty
      <4>2. k = 0 \/ (j > Len(answered[k]))
        <5>1. CASE k # 0
          <6>1. Len(answered[k]) \in Nat /\ j = Len(answered[k]) + 2
            BY <3>2, <5>1, DownFacts DEF AtEnd, Within
          <6> QED
            BY <6>1
        <5> QED
          BY <5>1
      <4>3. Len(processed) = k /\ content(income) = <<>>
        BY <4>2 DEF InHand
      <4>4. i - 1 = 0 /\ l - 1 = k
        BY <3>2
      <4> QED
        BY ONLY <4>1, <4>3, <4>4, NoContent
    <3> QED
      BY <3>1, <3>2 DEF Follows
  <2>3. /\ SubSeq(answered[l], 1, i - 1) \in Seq(Int)
        /\ SubSeq(answered[l], 1, i) = Append(SubSeq(answered[l], 1, i - 1), answered[l][i])
    BY <1>1, <1>3, <2>1, Prefix
  <2>4. content(income') = content(SubSeq(answered[l], 1, i))
    <3>1. content(Append(income, answered[l][i]))
            = IF answered[l][i] = LineEnd THEN content(income)
              ELSE Append(content(income), answered[l][i])
      BY <1>4, <2>1, ContentGrows
    <3>2. content(Append(SubSeq(answered[l], 1, i - 1), answered[l][i]))
            = IF answered[l][i] = LineEnd THEN content(SubSeq(answered[l], 1, i - 1))
              ELSE Append(content(SubSeq(answered[l], 1, i - 1)), answered[l][i])
      BY <2>1, <2>3, ContentGrows
    <3>3. income' = Append(income, answered[l][i])
      BY <2>1
    <3> QED
      BY ONLY <2>2, <2>3, <3>1, <3>2, <3>3, Zenon
  <2>5. l # 0 /\ ~(i > s)
    BY <1>2, <1>6
  <2> QED
    BY ONLY <1>1, <1>5, <2>2, <2>4, <2>5, UNCHANGED <<answered, processed>> DEF InHand
<1>7. CASE ~(i <= s)
  <2>1. i = s + 2 /\ Byte(l, i) = LineEnd /\ LineEnd \in Int
    BY <1>1, <1>2, <1>7 DEF Byte, LineEnd
  <2>2. content(income') = content(income)
    BY ONLY <1>4, <2>1, ContentGrows, income' = Append(income, Byte(l, i))
  <2>3. Len(processed) = l /\ content(income) = <<>>
    <3>1. l = k /\ j = s + 1
      BY <1>3, <2>1 DEF Follows
    <3>2. j > s
      BY <3>1
    <3> QED
      BY ONLY <1>1, <3>1, <3>2, InHand(k, j) DEF InHand
  <2>4. i > s
    BY <2>1
  <2> QED
    BY ONLY <1>1, <1>5, <2>2, <2>3, <2>4, UNCHANGED <<answered, processed>> DEF InHand
<1> QED
  BY <1>6, <1>7

\* At its NUL the frame is processed.
LEMMA InHandProcessed ==
    ASSUME DownTypes, answered' = answered, NEW k \in Nat, NEW j \in Nat,
           NEW l, NEW i, InHand(k, j), Within(l, i), Follows(k, j, l, i),
           Byte(l, i) = NUL, income' = <<>>,
           processed' = Append(processed, content(income))
    PROVE  InHand(l, i)'
<1>1. PICK s \in Nat : s = Len(answered[l])
  BY DownFacts DEF Within
<1>2. l \in 1 .. Len(answered) /\ i \in 1 .. s + 2 /\ Len(answered) \in Nat
  BY <1>1, DownFacts DEF Within
<1>3. answered[l] \in Seq(Int) /\ s >= 1 /\ \A n \in 1 .. s : answered[l][n] # NUL
  BY <1>1, <1>2, DownFacts
<1>4. i = s + 1
  BY <1>1, <1>2, <1>3 DEF Byte, NUL, LineEnd
<1>5. l = k /\ j = s
  BY <1>3, <1>4 DEF Follows
<1>6. Len(processed) = l - 1 /\ content(income) = content(SubSeq(answered[l], 1, s))
  <2>1. k # 0 /\ ~(j > Len(answered[k]))
    BY <1>1, <1>2, <1>5
  <2> QED
    BY ONLY <1>5, <2>1, InHand(k, j) DEF InHand
<1>7. SubSeq(answered[l], 1, s) = answered[l]
  BY <1>1, <1>3, SubSeqFull
<1>8. /\ Len(processed') = (l - 1) + 1 /\ processed'[(l - 1) + 1] = content(answered[l])
      /\ \A n \in 1 .. l - 1 : processed'[n] = processed[n]
  <2>1. processed \in Seq(Seq(Int)) /\ content(income) \in Seq(Int)
    BY ContentType DEF DownTypes
  <2>2. /\ Len(processed') = Len(processed) + 1
        /\ processed'[Len(processed) + 1] = content(income)
        /\ \A n \in 1 .. Len(processed) : processed'[n] = processed[n]
    BY ONLY <2>1, AppendProperties, processed' = Append(processed, content(income))
  <2> QED
    BY ONLY <1>6, <1>7, <2>2, Zenon
<1>9. (l - 1) + 1 = l /\ \A n \in 1 .. l : n \in 1 .. l - 1 \/ n = l
  BY <1>2
<1>10. \A n \in 1 .. l - 1 : processed[n] = content(answered[n])
  BY <1>6 DEF InHand
<1>11. \A n \in 1 .. l : processed'[n] = content(answered'[n])
  BY <1>8, <1>9, <1>10
<1>12. i > s
  BY <1>4
<1> QED
  BY ONLY <1>1, <1>8, <1>9, <1>11, <1>12, income' = <<>>, answered' = answered, NoContent DEF InHand

LEMMA StillDownward == Downward /\ UNCHANGED downVars => Downward'
<1> SUFFICES ASSUME Downward, UNCHANGED downVars  PROVE Downward'
  OBVIOUS
<1>1. UNCHANGED <<downlink, income, answered, processed, whole>>
  BY DEF downVars
<1>2. DownTypes'
  BY <1>1 DEF Downward, DownTypes
<1>3. ASSUME NEW of, NEW at, Places(of, at), InHand(of[0], at[0])
      PROVE  Places(of, at)' /\ InHand(of[0], at[0])'
  BY <1>1, <1>3, Zenon DEF Places, Within, Byte, AtEnd, Follows, InHand
<1> QED
  BY <1>1, <1>2, <1>3, Zenon DEF Downward

LEMMA DownwardStep == Downward /\ [FramingNext]_frameVars => Downward'
<1> SUFFICES ASSUME Downward, [FramingNext]_frameVars  PROVE Downward'
  OBVIOUS
<1>1. DownTypes
  BY DEF Downward
<1>2. ASSUME NEW text \in Texts, Send(text)  PROVE Downward'
  BY <1>2, StillDownward DEF Send
<1>3. ASSUME NEW text \in Texts, Answer(text)  PROVE Downward'
  <2>1. /\ answered' = Append(answered, text) /\ downlink' = downlink \o encode(text)
        /\ UNCHANGED <<income, processed, whole>>
    BY <1>3 DEF Answer
  <2>2. DownTypes'
    BY <1>1, <2>1, Encoded, AppendProperties, ConcatProperties DEF DownTypes
  <2> QED
    BY <1>1, <1>3, <2>1, <2>2, AnswerPlaces DEF Downward
<1>4. CASE decodeNextByte
  BY <1>4, StillDownward DEF decodeNextByte
<1>5. CASE AppendByte \/ Process \/ ThrowAtFrame
  <2>1. downlink # <<>> /\ downlink' = Tail(downlink) /\ answered' = answered
    BY <1>5 DEF AppendByte, Process, ThrowAtFrame, take_byte
  <2>2. downlink' \in Seq(Int) /\ Head(downlink) \in Int
    BY <1>1, <2>1, HeadTailProperties DEF DownTypes
  <2>3. content(income) \in Seq(Int)
    BY <1>1, ContentType DEF DownTypes
  <2>4. DownTypes'
    <3>1. Append(income, Head(downlink)) \in Seq(Int)
      BY <1>1, <2>2, AppendProperties DEF DownTypes
    <3>2. Append(processed, content(income)) \in Seq(Seq(Int))
      BY <1>1, <2>3, AppendProperties DEF DownTypes
    <3>3. <<>> \in Seq(Int)
      OBVIOUS
    <3>4. income' \in Seq(Int) /\ processed' \in Seq(Seq(Int))
      BY <1>1, <1>5, <3>1, <3>2, <3>3 DEF DownTypes, AppendByte, Process, ThrowAtFrame
    <3> QED
      BY <1>1, <2>1, <2>2, <3>4 DEF DownTypes
  <2>5. ASSUME whole'  PROVE \E o, a : Places(o, a)' /\ InHand(o[0], a[0])'
    <3>1. whole /\ (AppendByte \/ Process)
      BY <1>5, <2>5 DEF AppendByte, Process, ThrowAtFrame
    <3>2. PICK of, at : Places(of, at) /\ InHand(of[0], at[0])
      BY <3>1 DEF Downward
    <3>3. PICK o, a : /\ Places(o, a)' /\ Within(o[0], a[0])
                      /\ Head(downlink) = Byte(o[0], a[0])
                      /\ Follows(of[0], at[0], o[0], a[0])
      BY <1>1, <2>1, <3>2, NextTaken
    <3>4. /\ of[0] \in Nat /\ at[0] \in Nat
          /\ Within(of[0], at[0]) \/ (of[0] = 0 /\ at[0] = 0)
      BY <1>1, <3>2, DownFacts DEF Places
    <3>5. CASE AppendByte
      <4>1. /\ Byte(o[0], a[0]) # NUL /\ income' = Append(income, Byte(o[0], a[0]))
            /\ UNCHANGED <<answered, processed>>
        BY <2>1, <3>3, <3>5 DEF AppendByte
      <4>2. InHand(o[0], a[0])'
        BY <1>1, <3>2, <3>3, <3>4, <4>1, InHandGrows
      <4> QED
        BY <3>3, <4>2
    <3>6. CASE Process
      <4>1. /\ Byte(o[0], a[0]) = NUL /\ income' = <<>>
            /\ processed' = Append(processed, content(income))
        BY <3>3, <3>6 DEF Process
      <4>2. InHand(o[0], a[0])'
        BY <1>1, <2>1, <3>2, <3>3, <3>4, <4>1, InHandProcessed
      <4> QED
        BY <3>3, <4>2
    <3> QED
      BY <3>1, <3>5, <3>6
  <2> QED
    BY <2>4, <2>5 DEF Downward
<1>6. CASE Lose
  <2>1. /\ downlink' = <<>> /\ answered' = <<>> /\ processed' = <<>> /\ income' = income
        /\ whole' = (whole /\ content(income) = <<>>) /\ income \in Seq(Int)
    BY <1>1, <1>6 DEF Lose, DownTypes
  <2>2. /\ (downlink = <<>> /\ answered = <<>> /\ processed = <<>>)'
        /\ (income \in Seq(Int))' /\ (whole => content(income) = <<>>)'
    BY <2>1
  <2> QED
    BY <2>2, EmptyDownlink, PTL
<1>7. CASE UNCHANGED frameVars
  BY <1>7, StillDownward DEF frameVars
<1> QED
  BY <1>2, <1>3, <1>4, <1>5, <1>6, <1>7 DEF FramingNext

\* What the client has processed are the frames sent first, less their blank
\* lines, as long as none was cut off by a loss and none made it throw
\* (getFrameAscii, the line end StompEncoderDecoder.encode puts behind a frame,
\* the string income that outlives a connection).
THEOREM FramesComeDownWhole == FramingSpec => []WholeFramesDown
<1>1. Downward => WholeFramesDown
  <2> SUFFICES ASSUME Downward, whole  PROVE WholeFramesDown
    BY DEF WholeFramesDown
  <2>1. DownTypes
    BY DEF Downward
  <2>2. PICK of, at : Places(of, at) /\ InHand(of[0], at[0])
    BY DEF Downward
  <2>3. PICK p \in Nat, m \in Nat : p = Len(processed) /\ m = Len(answered)
    BY <2>1, DownFacts
  <2> DEFINE kept == [n \in DOMAIN answered |-> content(answered[n])]
  <2>4. DOMAIN answered = 1 .. m
    BY <2>1, <2>3, LenProperties DEF DownTypes
  <2>5. \A n \in 1 .. m : content(answered[n]) \in Seq(Int)
    BY <2>1, <2>3, DownFacts, ContentType
  <2>6. kept \in [1 .. m -> Seq(Int)]
    BY <2>4, <2>5
  <2>7. \A n \in 1 .. m : kept[n] = content(answered[n])
    BY <2>4
  <2> HIDE DEF kept
  <2>8. kept \in Seq(Seq(Int)) /\ Len(kept) = m
    BY ONLY <2>6, m \in Nat, SeqDef, LenProperties
  <2>9. p <= m
    <3>1. of[0] \in 0 .. m
      BY <2>2, <2>3 DEF Places, Within
    <3> QED
      BY <2>2, <2>3, <3>1 DEF InHand
  <2>10. \A n \in 1 .. p : processed[n] = kept[n]
    <3>1. \A n \in 1 .. p : n \in 1 .. m
      BY <2>9
    <3> QED
      BY <2>2, <2>3, <2>7, <3>1 DEF InHand
  <2>11. SubSeq(processed, 1, p) = SubSeq(kept, 1, p)
    <3>1. processed \in Seq(Seq(Int))
      BY <2>1 DEF DownTypes
    <3>2. \A n \in 1 .. p : n \in 1 .. m
      BY <2>9
    <3>3. \A n \in 1 .. p : processed[n] \in Seq(Int) /\ kept[n] \in Seq(Int)
      BY ONLY <2>6, <2>10, <3>2
    <3> DEFINE s == SubSeq(processed, 1, p)
    <3> DEFINE t == SubSeq(kept, 1, p)
    <3>4. /\ s \in Seq(Seq(Int)) /\ Len(s) = (IF 1 <= p THEN p - 1 + 1 ELSE 0)
          /\ \A i \in 1 .. p - 1 + 1 : s[i] = processed[1 + i - 1]
      BY ONLY <3>3, p \in Nat, SubSeqProperties
    <3>5. /\ t \in Seq(Seq(Int)) /\ Len(t) = (IF 1 <= p THEN p - 1 + 1 ELSE 0)
          /\ \A i \in 1 .. p - 1 + 1 : t[i] = kept[1 + i - 1]
      BY ONLY <3>3, p \in Nat, SubSeqProperties
    <3> HIDE DEF s, t
    <3>6. Len(s) = p /\ Len(t) = p
      BY ONLY <3>4, <3>5, p \in Nat
    <3>7. \A i \in 1 .. p : i \in 1 .. p - 1 + 1 /\ 1 + i - 1 = i
      OBVIOUS
    <3>8. \A i \in 1 .. Len(s) : s[i] = t[i]
      BY ONLY <2>10, <3>4, <3>5, <3>6, <3>7
    <3>9. s = t
      BY ONLY <3>4, <3>5, <3>6, <3>8, SeqEqual
    <3> QED
      BY <3>9 DEF s, t
  <2> QED
    BY ONLY <2>3, <2>8, <2>9, <2>11 DEF WholeFramesDown, IsPrefix, kept
<1> QED
  BY <1>1, DownwardInit, DownwardStep, PTL DEF FramingSpec
=============================================================================
