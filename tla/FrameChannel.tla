---------------------------- MODULE FrameChannel ----------------------------
(***************************************************************************)
(* What a connection promises to carry in one direction: whole frames, in  *)
(* order, each once, until the connection is lost.                         *)
(***************************************************************************)
EXTENDS Sequences

CONSTANT Texts   \* what a frame may hold

VARIABLES
    queue,   \* frames sent and not delivered on this connection
    out      \* frames delivered on this connection

channelVars == <<queue, out>>

Init == queue = <<>> /\ out = <<>>

Send(text) == queue' = Append(queue, text) /\ UNCHANGED out

Deliver ==
    /\ queue # <<>>
    /\ out' = Append(out, Head(queue))
    /\ queue' = Tail(queue)

Lose == queue' = <<>> /\ out' = <<>>

Next == (\E text \in Texts : Send(text)) \/ Deliver \/ Lose

\* A connection that lasts delivers what was sent.
Spec == Init /\ [][Next]_channelVars /\ WF_channelVars(Deliver)
=============================================================================
