--------------------------- MODULE MCClientParts ---------------------------
(***************************************************************************)
(* Three parts that share no variable: typed lines, game reports, and the  *)
(* bytes of frames.  In each behaviour one of them moves and the other two *)
(* stay as they were, so the states are those of each part alone.          *)
(*                                                                         *)
(* Lines: servers on a port beyond 2^15 and on the one that 70000 comes    *)
(* out as, and one at the address the client starts with.  Reports: files  *)
(* of the same game and of another one, with values that change, values    *)
(* with a colon, and texts that hold the words the reader looks for; times *)
(* of three and four digits.  Frames: one to three letters, in an array of *)
(* one byte, which grows twice (the code's has 1024).                      *)
(***************************************************************************)
EXTENDS ClientCommands, GameReports, Framing

CONSTANTS local, remote

SomePorts == {7777, 40000, 70000}
LocalHome == <<local, 7777>>
Servers == {LocalHome, <<remote, 40000>>, <<remote, 4464>>}
-----------------------------------------------------------------------------
AllWords == STRING
Times == [w \in {"100", "600", "1980"} |->
             CASE w = "100" -> 100 [] w = "600" -> 600 [] w = "1980" -> 1980]
SortedKeys == <<"goals", "score">>
SortedNames == <<<<"full", "time", ":">>, <<"goal">>, <<"kickoff">>>>

Event(name, time, game, a, b) ==
    [name |-> name, time |-> time, game |-> game, a |-> a, b |-> b,
     description |-> <<"words", NL, "more", NL>>]
Game(team, events) ==
    [team_a |-> <<"Germany">>, team_b |-> <<team>>, events |-> events]

Kickoff == Event(<<"kickoff">>, 100, "score" :> <<"0", ":", "0">>, <<>>, <<>>)
Goal == Event(<<"goal">>, 600, <<>>, "goals" :> <<"1">>, "score" :> <<"low">>)
Another == Event(<<"goal">>, 1980, <<>>,
                 ("goals" :> <<"2">>) @@ ("score" :> <<"2", ":", "0">>), <<>>)
FullTime == Event(<<"full", "time", ":">>, 1980, <<>>, <<>>, <<>>)
Torn == Event(<<"goal">>, 600, <<>>, "goals" :> <<"1", NL, "so far">>, <<>>)

SomeFiles == {Game("Japan", <<Kickoff, Goal>>), Game("Japan", <<Another>>),
              Game("Spain", <<Goal>>), Game("Japan", <<Goal, FullTime>>),
              Game("Japan", <<Torn>>)}
-----------------------------------------------------------------------------
Short == <<1>>
Long == <<2, 3, 4>>
Unread == <<5>>
AllTexts == {Short, Long, Unread}
BadTexts == {Unread}
-----------------------------------------------------------------------------
PartsInit == Init /\ ReportsInit /\ FramingInit

PartsNext ==
    \/ ReportsInit /\ FramingInit /\ Next /\ UNCHANGED <<reportVars, frameVars>>
    \/ Init /\ FramingInit /\ ReportsNext /\ UNCHANGED <<vars, frameVars>>
    \/ Init /\ ReportsInit /\ FramingNext /\ UNCHANGED <<vars, reportVars>>

PartsSpec ==
    /\ PartsInit
    /\ [][PartsNext]_<<vars, reportVars, frameVars>>
    /\ WF_frameVars(decodeNextByte /\ UNCHANGED <<vars, reportVars>>)
=============================================================================
