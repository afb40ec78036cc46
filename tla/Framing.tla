------------------------------ MODULE Framing ------------------------------
(***************************************************************************)
(* Frames and bytes, between one client and the server, over connections   *)
(* that may be lost.  Towards the server, StompEncoderDecoder collects the *)
(* bytes of a frame in an array; each connection has a decoder of its own. *)
(* Towards the client, getFrameAscii appends to a string of socketReader,  *)
(* which is the same one for all connections.  A frame ends at NUL in both *)
(* directions; the server's encoder writes a line end behind it.           *)
(***************************************************************************)
EXTENDS Integers, SequencesExt

CONSTANTS
    Texts,           \* what frames hold: sequences of letters
    Bad,             \* those the client throws at
    InitialCapacity, \* bytes in the array of a new decoder
    MaxFrames,       \* bound: frames sent on one connection, in each direction
    MaxLosses        \* bound: connections lost

NUL == 0
LineEnd == 10

ASSUME FramingAssumption ==
    /\ Texts \subseteq Seq(Int)
    /\ \A text \in Texts : text # <<>> /\ NUL \notin Range(text)
    /\ Bad \subseteq Texts
    /\ InitialCapacity \in Nat \ {0}
    /\ MaxFrames \in Nat /\ MaxLosses \in Nat

VARIABLES
    uplink, downlink,  \* bytes on their way
    bytes, len,        \* StompEncoderDecoder
    income,            \* socketReader.run
    sent, answered,    \* history: frames sent up and down on this connection
    decoded,           \* history: frames the decoder has returned on it
    processed,         \* history: frames stompReceivedProcess was given on it
    losses,            \* connections lost so far
    whole              \* history: income was empty when it should have been

upVars == <<uplink, bytes, len, sent, decoded>>
downVars == <<downlink, income, answered, processed, whole>>
frameVars == <<upVars, downVars, losses>>

FramingInit ==
    /\ uplink = <<>> /\ downlink = <<>>
    /\ bytes = [i \in 1 .. InitialCapacity |-> NUL] /\ len = 0
    /\ income = <<>>
    /\ sent = <<>> /\ answered = <<>>
    /\ decoded = <<>> /\ processed = <<>>
    /\ losses = 0
    /\ whole = TRUE

-----------------------------------------------------------------------------
(* Client to server.                                                        *)

\* sendFrameAscii writes the frame and the delimiter.
Send(text) ==
    /\ Len(sent) < MaxFrames
    /\ uplink' = uplink \o Append(text, NUL)
    /\ sent' = Append(sent, text)
    /\ UNCHANGED <<bytes, len, decoded, downVars, losses>>

\* Seeded fault: the new array does not take over the bytes of the old one.
grow_empty == [i \in 1 .. 2 * len |-> NUL]

\* Arrays.copyOf.
grow == [i \in 1 .. 2 * len |-> IF i <= len THEN bytes[i] ELSE NUL]

pushByte(b) ==
    /\ bytes' = [(IF len >= Len(bytes) THEN grow ELSE bytes) EXCEPT ![len + 1] = b]
    /\ len' = len + 1
    /\ UNCHANGED decoded

\* The array stays as large as it is, with its bytes.
popString ==
    /\ decoded' = Append(decoded, SubSeq(bytes, 1, len))
    /\ len' = 0
    /\ UNCHANGED bytes

decodeNextByte ==
    /\ uplink # <<>>
    /\ IF Head(uplink) = NUL THEN popString ELSE pushByte(Head(uplink))
    /\ uplink' = Tail(uplink)
    /\ UNCHANGED <<sent, downVars, losses>>

-----------------------------------------------------------------------------
(* Server to client.                                                        *)

\* The message ends with NUL; encode puts a line end behind it.
encode(text) == text \o <<NUL, LineEnd>>

Answer(text) ==
    /\ Len(answered) < MaxFrames
    /\ downlink' = downlink \o encode(text)
    /\ answered' = Append(answered, text)
    /\ UNCHANGED <<upVars, income, processed, whole, losses>>

take_byte ==
    /\ downlink # <<>>
    /\ downlink' = Tail(downlink)
    /\ UNCHANGED <<upVars, answered, losses>>

\* getFrameAscii.
AppendByte ==
    /\ take_byte
    /\ Head(downlink) # NUL
    /\ income' = Append(income, Head(downlink))
    /\ UNCHANGED <<processed, whole>>

\* Lines without text are left out before the frame is looked at.
content(text) ==
    LET kept[n \in 0 .. Len(text)] ==
            IF n = 0 THEN <<>>
            ELSE IF text[n] = LineEnd THEN kept[n - 1]
            ELSE Append(kept[n - 1], text[n])
    IN  kept[Len(text)]

\* Seeded fault: income is not emptied.
ProcessAndKeep ==
    /\ take_byte
    /\ Head(downlink) = NUL
    /\ content(income) \notin Bad
    /\ processed' = Append(processed, content(income))
    /\ UNCHANGED <<income, whole>>

\* A text that is no frame of the server is processed like any other.
Process ==
    /\ take_byte
    /\ Head(downlink) = NUL
    /\ content(income) \notin Bad
    /\ processed' = Append(processed, content(income))
    /\ income' = <<>>
    /\ UNCHANGED whole

\* An exception: income keeps the frame.
ThrowAtFrame ==
    /\ take_byte
    /\ Head(downlink) = NUL
    /\ content(income) \in Bad \/ content(income) \notin Texts
    /\ processed' = Append(processed, content(income))
    /\ whole' = FALSE
    /\ UNCHANGED income

-----------------------------------------------------------------------------
\* The connection is lost and a new one made, with a new decoder; income is
\* the one of before.
Lose ==
    /\ losses < MaxLosses
    /\ losses' = losses + 1
    /\ uplink' = <<>> /\ downlink' = <<>>
    /\ bytes' = [i \in 1 .. InitialCapacity |-> NUL] /\ len' = 0
    /\ sent' = <<>> /\ answered' = <<>>
    /\ decoded' = <<>> /\ processed' = <<>>
    /\ whole' = (whole /\ content(income) = <<>>)
    /\ UNCHANGED income

FramingNext ==
    \/ \E text \in Texts : Send(text) \/ Answer(text)
    \/ decodeNextByte
    \/ AppendByte \/ Process \/ ThrowAtFrame
    \/ Lose

\* As long as a connection lasts its thread at the server reads from it: when
\* it stops, it closes the connection, which is then lost.  Nothing is assumed
\* of the client's reader, which reads only while it counts on an answer.
FramingSpec ==
    /\ FramingInit
    /\ [][FramingNext]_frameVars
    /\ WF_frameVars(decodeNextByte)
-----------------------------------------------------------------------------
\* Towards the server the bytes implement a channel of frames, whatever was in
\* the array before, however often it has to grow (StompEncoderDecoder).
Up == INSTANCE FrameChannel WITH
          queue <- SubSeq(sent, Len(decoded) + 1, Len(sent)), out <- decoded
UpIsAChannel == Up!Spec

\* Towards the client they do, but for lines without text, as long as no
\* connection was lost in the middle of a frame and no frame made it throw: the
\* line end behind each frame does not count, nor one left over from the
\* connection before.
WholeFramesDown ==
    whole => IsPrefix(processed, [n \in DOMAIN answered |-> content(answered[n])])
=============================================================================
