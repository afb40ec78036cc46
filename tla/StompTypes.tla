----------------------------- MODULE StompTypes -----------------------------
(***************************************************************************)
(* The values the STOMP server of bgu.spl.net passes around: account       *)
(* names, topic names, subscription ids, connection ids, reply frames and  *)
(* the command strings that tell a handler thread what to do with a reply. *)
(* Text is abstracted: a frame keeps its command, the connection whose     *)
(* request it answers, its topic and the text of a receipt.                *)
(***************************************************************************)
EXTENDS Integers, Sequences

CONSTANTS
    Users,           \* account names a client may log in with
    Passwords,       \* passcodes a client may present
    Topics,          \* destinations a client may name (strings, as in commands)
    NumericTopics,   \* those that Integer.valueOf can parse
    TopicNumber,     \* the integer such a destination is parsed to
    SubIds,          \* subscription ids the clients choose (integers)
    MaxConns,        \* bound: connections accepted in a run
    Receipts,        \* whether requests may carry ("recipt") a receipt header
    NoUser,          \* TreeMap.get found no session
    NoPassword,      \* the account was never created
    NoTopic          \* TreeMap.get found no topic

Conns == 1 .. MaxConns
NoConn == 0          \* TreeMap.get found no connection id

\* The strings process() compares a command with; any other one is a topic.
ControlWords == {"self", "Error", "disconnect", "empty"}
Commands == Topics \cup (ControlWords \ {"empty"})
Responses == Commands \cup {"", "empty"}

ASSUME ConnsAssumption == MaxConns \in Nat \ {0}
ASSUME IdAssumption == SubIds \subseteq Int
ASSUME TopicAssumption ==
    /\ NumericTopics \subseteq Topics
    /\ TopicNumber \in [NumericTopics -> Int]
    /\ Topics \cap (ControlWords \cup {""}) = {}
ASSUME ReceiptAssumption == Receipts \subseteq BOOLEAN
ASSUME NullAssumption ==
    /\ NoUser \notin Users \cup Conns \cup {NoConn}
    /\ NoPassword \notin Passwords
    /\ NoTopic \notin Topics

\* What ResponseManager.recipt_message can hold.
ReciptTexts == [verb: {"", "report works!", "Joined channel", "Exited channel"},
                topic: Topics \cup {NoTopic}]
EmptyText == [verb |-> "", topic |-> NoTopic]

\* A reply.  "null" is the text the encoder writes for a null message.
FrameKinds == {"CONNECTED", "MESSAGE", "RECIPT", "ERROR", "null"}
Frames == [kind: FrameKinds, owner: Conns, topic: Topics \cup {NoTopic},
           text: ReciptTexts]

MakeFrame(kind, c, t, text) ==
    [kind |-> kind, owner |-> c, topic |-> t, text |-> text]
Frame(kind, c) == MakeFrame(kind, c, NoTopic, EmptyText)
MessageFrame(c, t) == MakeFrame("MESSAGE", c, t, EmptyText)
ReciptFrame(c, text) == MakeFrame("RECIPT", c, NoTopic, text)
NullFrame(c) == Frame("null", c)
=============================================================================
