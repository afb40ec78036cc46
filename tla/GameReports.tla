---------------------------- MODULE GameReports ----------------------------
(***************************************************************************)
(* Game reports: a client reads events from a file, turns each into a text *)
(* that goes through the server to the clients of the channel, every       *)
(* client takes the text apart and stores the update, and summary folds    *)
(* what it has stored for one user and one game.                           *)
(* A text is a sequence of words.  Labels, line ends, tabs and colons are  *)
(* words, since the reader looks for them wherever they are; everything    *)
(* between them is one.  Of the headers of a MESSAGE only the destination  *)
(* is kept, which holds the names of the teams; the others hold no label.  *)
(***************************************************************************)
EXTENDS Integers, SequencesExt, Functions

CONSTANTS
    Vocabulary,  \* words
    Reporters,   \* users
    Files,       \* what the files of events hold
    Broken,      \* a file that cannot be parsed
    Keys,        \* what updates are about, in the order of the words
    EventNames,  \* names of events, in the order of the words
    Number,      \* the number a word of digits stands for
    MaxReports   \* bound: report commands

NL == "\n"
TAB == "\t"

\* Words with a meaning of their own.
reserved ==
    {NL, TAB, ":", " ", "_", " updates", "destination", "user", "team a", "team b",
     "event name", "time", "general game updates", "description"}

Text == Seq(Vocabulary)
is_map(map) == \A k \in DOMAIN map : k \in Range(Keys) /\ map[k] \in Text

\* A file has team_a and team_b, texts, and events, as parseEventsFile makes
\* them (a value that is no string is dumped): name and description, texts;
\* time, a number; and game, a and b, maps from Keys to texts.
is_event(e) ==
    /\ e.name \in Text /\ e.description \in Text
    /\ \E w \in DOMAIN Number : Number[w] = e.time
    /\ is_map(e.game) /\ is_map(e.a) /\ is_map(e.b)

ASSUME ReportAssumption ==
    /\ reserved \subseteq Vocabulary
    /\ Reporters \subseteq Vocabulary \ {NL}
    /\ Broken \notin Files
    /\ \A file \in Files :
          /\ file.team_a \in Text /\ file.team_b \in Text
          /\ file.events \in Seq(Range(file.events))
          /\ \A e \in Range(file.events) : is_event(e)
    /\ Keys \in Text /\ IsInjective(Keys)
    /\ DOMAIN Number \subseteq Vocabulary \ {NL}
    /\ \A w, x \in DOMAIN Number : Number[w] \in Nat /\ (Number[w] = Number[x] => w = x)
    /\ MaxReports \in Nat

VARIABLES
    wire,       \* frames on their way to this client
    updates,    \* updates_from_user_about_game
    reading,    \* the thread of the socket has neither thrown nor ended
    reports,    \* report commands so far
    reported    \* history: the events reported, with their user and file

reportVars == <<wire, updates, reading, reports, reported>>

ReportsInit ==
    /\ wire = <<>>
    /\ updates = <<>>
    /\ reading = TRUE
    /\ reports = 0
    /\ reported = <<>>

-----------------------------------------------------------------------------
(* User::report_game.                                                       *)

Line(label, text) == label \o <<":">> \o text \o <<NL>>

update_lines(map) ==
    LET text[n \in 0 .. Len(Keys)] ==
            IF n = 0 THEN <<>>
            ELSE IF Keys[n] \in DOMAIN map
            THEN text[n - 1] \o Line(<<TAB, Keys[n]>>, map[Keys[n]])
            ELSE text[n - 1]
    IN  text[Len(Keys)]

to_string(n) == CHOOSE w \in DOMAIN Number : Number[w] = n

head_lines(user, file, e) ==
    Line(<<"user">>, <<user>>) \o Line(<<"team a">>, file.team_a)
    \o Line(<<"team b">>, file.team_b) \o Line(<<"event name">>, e.name)
    \o Line(<<"time">>, <<to_string(e.time)>>)

team_lines(label, team, map) ==
    Line(<<label, " updates">>, <<" ">> \o team) \o update_lines(map)

\* Seeded fault: the teams change places.
report_game_b_first(user, file, e) ==
    head_lines(user, file, e)
    \o Line(<<"general game updates">>, <<>>) \o update_lines(e.game)
    \o team_lines("team b", file.team_b, e.b)
    \o team_lines("team a", file.team_a, e.a)
    \o <<"description", ":">> \o e.description \o <<NL, NL>>

report_game(user, file, e) ==
    head_lines(user, file, e)
    \o Line(<<"general game updates">>, <<>>) \o update_lines(e.game)
    \o team_lines("team a", file.team_a, e.a)
    \o team_lines("team b", file.team_b, e.b)
    \o <<"description", ":">> \o e.description \o <<NL, NL>>

\* The server splits the body at line ends, which drops the empty lines at its
\* end, and puts an empty line behind it.
trimmed(text) ==
    LET last == CHOOSE n \in 0 .. Len(text) :
                    /\ n = 0 \/ text[n] # NL
                    /\ \A i \in n + 1 .. Len(text) : text[i] = NL
    IN  SubSeq(text, 1, last)

-----------------------------------------------------------------------------
(* parseServerMessage of a MESSAGE.                                         *)

\* string::find, 0 if the pattern is not there.
find(text, pattern, from) ==
    LET at == {i \in from .. Len(text) - Len(pattern) + 1 :
                   SubSeq(text, i, i + Len(pattern) - 1) = pattern}
    IN  IF at = {} THEN 0 ELSE CHOOSE i \in at : \A j \in at : i <= j

\* From behind the first occurrence of start up to the next one of end.
my_extract(text, start, end) ==
    LET from == find(text, start, 1) + Len(start)
        to == IF end = <<>> THEN 0 ELSE find(text, end, from)
    IN  SubSeq(text, from, IF to = 0 THEN Len(text) ELSE to - 1)

split(text, word) ==
    LET pieces[n \in 0 .. Len(text)] ==
            IF n = 0 THEN <<<<>>>>
            ELSE IF text[n] = word THEN Append(pieces[n - 1], <<>>)
            ELSE Append(Front(pieces[n - 1]), Append(Last(pieces[n - 1]), text[n]))
    IN  pieces[Len(text)]

\* The lines of one of the three sections.
section(text, start, end) == split(my_extract(text, start, end), NL)

\* Seeded fault: the empty line behind the last one counts.
blank_never(line) == FALSE

blank(line) == line = <<>>

has_colon(line) == \E n \in DOMAIN line : line[n] = ":"
readable(lines) == \A n \in DOMAIN lines : blank(lines[n]) \/ has_colon(lines[n])

\* What f tells, and of the rest what g does; std::map::insert.
filled(f, g) ==
    [k \in DOMAIN f \cup DOMAIN g |-> IF k \in DOMAIN f THEN f[k] ELSE g[k]]
insert(map, k, v) == filled(map, [key \in {k} |-> v])

\* Only what is between the first colon and the second is kept; of two lines
\* with one key the first is.  Without a colon ("?"), what is read lies behind
\* the end of a vector.
key_of(line) == IF has_colon(line) THEN Last(split(line, ":")[1]) ELSE "?"
value_of(line) == IF has_colon(line) THEN split(line, ":")[2] ELSE <<"?">>
parse_updates(lines) ==
    LET map[n \in 0 .. Len(lines)] ==
            IF n = 0 THEN <<>>
            ELSE IF blank(lines[n]) THEN map[n - 1]
            ELSE insert(map[n - 1], key_of(lines[n]), value_of(lines[n]))
    IN  map[Len(lines)]

game_name(a, b) == a \o <<"_">> \o b

field(text, label) == my_extract(text, <<label, ":">>, <<NL>>)

\* The channel that a report is sent to.
topic_name(text) == game_name(field(text, "team a"), field(text, "team b"))

\* What a report comes to the reader as: the server names the channel in front
\* of the body.
relay(text) ==
    Line(<<"destination">>, topic_name(text))
    \o <<NL, NL, NL>> \o trimmed(text) \o <<NL, NL>>

sections(text) ==
    [game |-> section(text, <<"general game updates", ":", NL>>, <<"team a">>),
     a |-> section(text, <<"team a", " updates", ":", " ">>
                         \o field(text, "team a") \o <<NL>>, <<"team b">>),
     b |-> section(text, <<"team b", " updates", ":", " ">>
                         \o field(text, "team b") \o <<NL>>, <<"description">>)]

time_of(text) == field(text, "time")

\* stoi throws at anything that does not begin with a number.
parsable(text) == time_of(text) # <<>> /\ time_of(text)[1] \in DOMAIN Number

parse_message(text) ==
    [user |-> field(text, "user")[1],
     game |-> game_name(field(text, "team a"), field(text, "team b")),
     event |-> [name |-> field(text, "event name"),
                time |-> Number[time_of(text)[1]],
                game |-> parse_updates(sections(text).game),
                a |-> parse_updates(sections(text).a),
                b |-> parse_updates(sections(text).b),
                description |-> my_extract(text, <<"description", ":">>, <<>>)]]

-----------------------------------------------------------------------------
(* User::summary.                                                           *)

\* Seeded fault: insert alone, which leaves what is there.
construct_first(map, event_map) == filled(map, event_map)

construct_summary(map, event_map) == filled(event_map, map)

tells(u, user, game) == u.user = user /\ u.game = game

stats(user, game, part) ==
    LET map[n \in 0 .. Len(updates)] ==
            IF n = 0 THEN <<>>
            ELSE IF tells(updates[n], user, game)
            THEN construct_summary(map[n - 1], updates[n].event[part])
            ELSE map[n - 1]
    IN  map[Len(updates)]

\* The digits of a number are the last ones of what is left as one after the
\* other is taken away.
digits(n) ==
    LET left[i \in 0 .. n + 1] == IF i = 0 THEN n ELSE left[i - 1] \div 10
        width == CHOOSE w \in 1 .. n + 1 :
                     left[w] = 0 /\ \A i \in 1 .. w - 1 : left[i] # 0
    IN  [i \in 1 .. width |-> left[width - i] % 10]

text_before(d, e) ==
    \/ IsStrictPrefix(d, e)
    \/ \E i \in DOMAIN d \cap DOMAIN e :
          SubSeq(d, 1, i - 1) = SubSeq(e, 1, i - 1) /\ d[i] < e[i]

name_before(k, l) ==
    \E i, j \in DOMAIN EventNames :
        EventNames[i] = k.name /\ EventNames[j] = l.name /\ i < j

\* Seeded fault: the name comes first.
key_by_name(k, l) == name_before(k, l)

\* The keys are texts, to_string(time) + " - " + name.
key_before(k, l) ==
    \/ text_before(digits(k.time), digits(l.time))
    \/ digits(k.time) = digits(l.time) /\ name_before(k, l)

entry(e) == [time |-> e.time, name |-> e.name, description |-> e.description]

\* insert into the sorted map: the first description of a key is kept.
place(list, e) ==
    IF \E i \in DOMAIN list : list[i].time = e.time /\ list[i].name = e.name
    THEN list
    ELSE LET at == CHOOSE i \in 1 .. Len(list) + 1 :
                       /\ i = Len(list) + 1 \/ key_before(e, list[i])
                       /\ \A j \in 1 .. i - 1 : ~key_before(e, list[j])
         IN  InsertAt(list, at, e)

event_stats(user, game) ==
    LET list[n \in 0 .. Len(updates)] ==
            IF n = 0 THEN <<>>
            ELSE IF tells(updates[n], user, game)
            THEN place(list[n - 1], entry(updates[n].event))
            ELSE list[n - 1]
    IN  list[Len(updates)]

-----------------------------------------------------------------------------
\* report: a file that cannot be parsed is reported to nobody.
Report(user, file) ==
    /\ reports < MaxReports
    /\ reports' = reports + 1
    /\ IF file = Broken THEN UNCHANGED <<wire, reported>>
       ELSE LET n == DOMAIN file.events
            IN  /\ wire' = wire \o [i \in n |->
                                relay(report_game(user, file, file.events[i]))]
                /\ reported' = reported \o [i \in n |->
                       [user |-> user, file |-> file, event |-> file.events[i]]]
    /\ UNCHANGED <<updates, reading>>

take_frame ==
    /\ reading
    /\ wire # <<>>
    /\ wire' = Tail(wire)
    /\ UNCHANGED <<reports, reported>>

Receive ==
    /\ take_frame
    /\ parsable(Head(wire))
    /\ updates' = Append(updates, parse_message(Head(wire)))
    /\ UNCHANGED reading

\* stoi throws; or the end of a vector is passed, which may end the process.
ThrowAtReport ==
    /\ take_frame
    /\ \/ ~parsable(Head(wire))
       \/ \E part \in {"game", "a", "b"} : ~readable(sections(Head(wire))[part])
    /\ reading' = FALSE
    /\ UNCHANGED updates

ReportsNext ==
    \/ \E user \in Reporters, file \in Files \cup {Broken} : Report(user, file)
    \/ Receive \/ ThrowAtReport

ReportsSpec == ReportsInit /\ [][ReportsNext]_reportVars
-----------------------------------------------------------------------------
\* What the reader takes for the end of an update, and of those before it.
ends_b == {NL, "description"}
ends_a == ends_b \cup {"team b"}
ends_game == ends_a \cup {"team a"}

free_of(text, ends) == Range(text) \cap ends = {}
map_free_of(map, ends) ==
    \A k \in DOMAIN map : k \notin ends \cup {":"} /\ free_of(map[k], ends)

\* No text of the report has a word in it that the reader takes for the end of
\* the text or for a label that comes later; nor is a key a colon.
tame(r) ==
    /\ \A team \in {r.file.team_a, r.file.team_b} :
          free_of(team, ends_game \cup {"user", "event name", "time",
                                         "general game updates"})
    /\ free_of(r.event.name, ends_game \cup {"time", "general game updates"})
    /\ map_free_of(r.event.game, ends_game)
    /\ map_free_of(r.event.a, ends_a)
    /\ map_free_of(r.event.b, ends_b)

all_tame == \A n \in DOMAIN reported : tame(reported[n])

\* What of a text is in front of its first colon.
cut(map) == [k \in DOMAIN map |-> split(map[k], ":")[1]]

game_of(r) == game_name(r.file.team_a, r.file.team_b)

\* What should be stored of a report.
expected(r) ==
    [user |-> r.user, game |-> game_of(r),
     event |-> [name |-> r.event.name, time |-> r.event.time,
                game |-> cut(r.event.game), a |-> cut(r.event.a),
                b |-> cut(r.event.b),
                description |-> trimmed(r.event.description) \o <<NL, NL>>]]

\* The updates are stored in the order of the reports, each one as it was
\* reported but for the line ends of its description and for what follows a
\* colon in a value: report_game writes what parseServerMessage, through the
\* server, reads.
StoredAsReported ==
    \A n \in DOMAIN updates :
        tame(reported[n]) => updates[n] = expected(reported[n])

\* And the thread of the socket gets through all of them.
TameReportsAreRead == all_tame => reading

\* The reports of the game by the user, among the first n, that are about k.
about(user, game, part, k, n) ==
    {i \in 1 .. n : /\ reported[i].user = user /\ game_of(reported[i]) = game
                    /\ k \in DOMAIN reported[i].event[part]}

\* A summary tells of each key the value in the latest report about it, by that
\* user of that game, and of no other key, however the reports of several users
\* came in between (update_game_from_user, construct_summary).
SummaryTellsLatest ==
    all_tame =>
        \A r \in Range(reported), part \in {"game", "a", "b"} :
            LET latest == stats(r.user, game_of(r), part)
                told(k) == about(r.user, game_of(r), part, k, Len(updates))
            IN  /\ DOMAIN latest = {k \in Range(Keys) : told(k) # {}}
                /\ \A k \in DOMAIN latest :
                      latest[k] = cut(reported[Max(told(k))].event[part])[k]

\* The events come in the order of their times as long as these have the same
\* number of digits (event_stats_map).
OrderedWithinWidth ==
    \A r \in Range(reported) :
        LET list == event_stats(r.user, game_of(r))
        IN  \A i, j \in DOMAIN list :
                i < j /\ Len(digits(list[i].time)) = Len(digits(list[j].time))
                    => list[i].time <= list[j].time
=============================================================================
