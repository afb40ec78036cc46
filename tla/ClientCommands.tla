--------------------------- MODULE ClientCommands ---------------------------
(***************************************************************************)
(* A line typed at the C++ client: whether it logs in, where the           *)
(* connection goes, whose User object is used, and which lines and frames  *)
(* end the process.                                                        *)
(* stompProcessClientInput looks for login ANYWHERE in the line            *)
(* and connects before parseInput has read the address that is in it.      *)
(* What becomes of the requests is the subject of ClientSession.           *)
(***************************************************************************)
EXTENDS Integers

CONSTANTS
    Names,       \* user names
    Hosts,       \* hosts that pass host_format_check
    Ports,       \* numbers of at most five digits
    Word,        \* values of a short, 2^16
    Listening,   \* <<host, port>> where a server listens
    Home,        \* connection_ip and connection_port at the start
    NoUser,      \* connected_user is null
    NoPeer,      \* the socket is closed
    MaxLines     \* bound: lines typed

Addresses == Hosts \X Ports
Endpoints == Hosts \X (0 .. Word - 1)

ASSUME AddressAssumption ==
    /\ Ports \subseteq Nat
    /\ Word \in Nat \ {0}
    /\ Home \in Addresses
    /\ \A a \in Listening : a \in Endpoints
    /\ NoUser \notin Names
    /\ NoPeer \notin Endpoints
    /\ MaxLines \in Nat

VARIABLES
    alive,               \* the process
    logout,              \* StateControler
    waiting_for_logout,  \* StateControler: the keyboard is not read
    connected_user,      \* ConnectionHandler
    connection,          \* connection_ip and connection_port
    peer,                \* what the socket is connected to
    session,             \* name in the last CONNECT on this connection
    lines,               \* lines typed so far
    wanted,              \* history: the address in the last whole login
    premature,           \* history: a command was sent without a session
    careful,             \* history: every line was a whole one
    unbroken             \* history: no report lacked the end of a line

vars == <<alive, logout, waiting_for_logout, connected_user, connection, peer,
          session, lines, wanted, premature, careful, unbroken>>

TypeOK ==
    /\ alive \in BOOLEAN
    /\ logout \in BOOLEAN
    /\ waiting_for_logout \in BOOLEAN
    /\ connected_user \in Names \cup {NoUser}
    /\ connection \in Addresses
    /\ peer \in Endpoints \cup {NoPeer}
    /\ session \in Names \cup {NoUser}
    /\ lines \in 0 .. MaxLines
    /\ wanted \in Addresses
    /\ premature \in BOOLEAN
    /\ careful \in BOOLEAN
    /\ unbroken \in BOOLEAN

Init ==
    /\ alive = TRUE
    /\ logout = TRUE
    /\ waiting_for_logout = FALSE
    /\ connected_user = NoUser
    /\ connection = Home
    /\ peer = NoPeer
    /\ session = NoUser
    /\ lines = 0
    /\ wanted = Home
    /\ premature = FALSE
    /\ careful = TRUE
    /\ unbroken = TRUE

-----------------------------------------------------------------------------
(* stompProcessClientInput, before the line is parsed.                      *)

\* whole: all its words are there, login is its first word or nowhere, and a
\* game has the names of two teams.
type_line(whole) ==
    /\ alive
    /\ ~waiting_for_logout
    /\ lines < MaxLines
    /\ lines' = lines + 1
    /\ careful' = (careful /\ whole)
    /\ UNCHANGED unbroken

\* Seeded fault: as a signed number it is no port from 2^15 on.
signed_port(n) == IF n % Word < Word \div 2 THEN n % Word ELSE 0

\* port_ is a short, which boost takes for an unsigned one.
as_port(n) == n % Word

\* Seeded fault: the connection is taken to be there, at the number typed.
connect_unchecked == peer' = IF peer # NoPeer THEN peer ELSE connection

\* A socket that is connected already stays what it is.
connect ==
    LET endpoint == <<connection[1], as_port(connection[2])>>
    IN  peer' = IF peer # NoPeer THEN peer
                ELSE IF endpoint \in Listening THEN endpoint ELSE NoPeer

kept_session == IF peer = NoPeer THEN NoUser ELSE session

\* The line contains login; whatever comes of it, the client is logged in.
log_in ==
    /\ logout
    /\ connect
    /\ logout' = FALSE
    /\ UNCHANGED waiting_for_logout

send_request == premature' = (premature \/ (peer' # NoPeer /\ session' = NoUser))

-----------------------------------------------------------------------------
(* parseInput of a login.                                                   *)

\* The address is stored after the connection was made.
Login(name, a) ==
    /\ type_line(TRUE)
    /\ log_in
    /\ session' = IF peer' = NoPeer THEN NoUser ELSE name
    /\ connected_user' = name
    /\ connection' = a
    /\ wanted' = a
    /\ UNCHANGED <<alive, premature>>

\* A host without four numbers, or too long a port: the complaint is sent.
LoginBadAddress(name) ==
    /\ type_line(FALSE)
    /\ log_in
    /\ session' = kept_session
    /\ connected_user' = name
    /\ UNCHANGED <<alive, connection, wanted, premature>>

\* stoi of a port that is no number: nobody catches it in this thread.
LoginBadPort(name, host) ==
    /\ type_line(FALSE)
    /\ log_in
    /\ session' = kept_session
    /\ connected_user' = name
    /\ connection' = <<host, connection[2]>>
    /\ alive' = FALSE
    /\ UNCHANGED <<wanted, premature>>

\* Without a passcode, the word behind the end of the vector is read: it ends
\* the process or goes into the CONNECT, whatever it is.
LoginShort(name, a) ==
    /\ type_line(FALSE)
    /\ log_in
    /\ connected_user' = name
    /\ connection' = a
    /\ wanted' = a
    /\ \/ alive' = FALSE /\ session' = kept_session
       \/ alive' = alive /\ session' = IF peer' = NoPeer THEN NoUser ELSE name
    /\ UNCHANGED premature

-----------------------------------------------------------------------------
(* parseInput of the other lines.                                           *)

\* Every command asks the User object for something.
use_user ==
    /\ IF connected_user = NoUser
       THEN alive' = FALSE /\ UNCHANGED premature
       ELSE send_request /\ UNCHANGED alive

\* login comes later in the line: what it calls itself, or nothing, is done.
CommandWithLogin ==
    /\ type_line(FALSE)
    /\ log_in
    /\ session' = kept_session
    /\ use_user \/ UNCHANGED <<alive, premature>>
    /\ UNCHANGED <<connected_user, connection, wanted>>

\* join, exit, report or summary.
Command ==
    /\ type_line(TRUE)
    /\ ~logout
    /\ UNCHANGED <<peer, session>>
    /\ use_user
    /\ UNCHANGED <<logout, waiting_for_logout, connected_user, connection, wanted>>

\* Seeded fault: the flags stay as they are.
LogoutStaying ==
    /\ type_line(TRUE)
    /\ ~logout
    /\ session' = NoUser
    /\ UNCHANGED peer
    /\ use_user
    /\ UNCHANGED <<logout, waiting_for_logout, connected_user, connection, wanted>>

\* Seeded fault: the user is deleted with the session.
LogoutDeleting ==
    /\ type_line(TRUE)
    /\ ~logout
    /\ logout' = TRUE
    /\ waiting_for_logout' = TRUE
    /\ connected_user' = NoUser
    /\ session' = NoUser
    /\ UNCHANGED <<alive, connection, peer, wanted, premature>>

\* The DISCONNECT ends the session.
Logout ==
    /\ type_line(TRUE)
    /\ ~logout
    /\ logout' = TRUE
    /\ waiting_for_logout' = TRUE
    /\ UNCHANGED peer
    /\ IF connected_user = NoUser THEN alive' = FALSE ELSE UNCHANGED alive
    /\ premature' = (premature \/ (peer # NoPeer /\ session = NoUser))
    /\ session' = NoUser
    /\ UNCHANGED <<connected_user, connection, wanted>>

\* A word is missing, the first one of an empty line even: what is read lies
\* behind the end of the vector.  Or summary is asked for a game of less than
\* three letters, and the substring after " vs " throws.
ShortLine ==
    /\ type_line(FALSE)
    /\ ~logout
    /\ alive' \in BOOLEAN
    /\ UNCHANGED <<logout, waiting_for_logout, connected_user, connection,
                   peer, session, wanted, premature>>

\* A word it does not know; login when logged in; anything else when not.
OtherLine ==
    /\ type_line(TRUE)
    /\ UNCHANGED <<alive, logout, waiting_for_logout, connected_user,
                   connection, peer, session, wanted, premature>>

-----------------------------------------------------------------------------
(* The thread of the socket.                                                *)

\* stompReceivedProcess asks the User object for its receipt id once the flag
\* is set.
use_disconnect_id == alive' = (connected_user # NoUser)

\* The receipt of the DISCONNECT.
EndLogout ==
    /\ alive
    /\ use_disconnect_id
    /\ waiting_for_logout
    /\ peer # NoPeer
    /\ peer' = NoPeer
    /\ waiting_for_logout' = FALSE
    /\ UNCHANGED <<logout, connected_user, connection, session, lines,
                   wanted, premature, careful, unbroken>>

\* An ERROR frame.
EndSession ==
    /\ alive
    /\ use_disconnect_id
    /\ peer # NoPeer
    /\ peer' = NoPeer
    /\ logout' = TRUE
    /\ session' = NoUser
    /\ UNCHANGED <<waiting_for_logout, connected_user, connection, lines, wanted,
                   premature, careful, unbroken>>

\* A frame it cannot parse: logged out with the socket open.
ReaderThrows ==
    /\ alive
    /\ peer # NoPeer
    /\ logout' = TRUE
    /\ UNCHANGED <<alive, waiting_for_logout, connected_user, connection, peer,
                   session, lines, wanted, premature, careful, unbroken>>

\* A report in which a line of updates has no value: the word behind the end of
\* the vector is read.  It ends the process, throws, or is taken for a value.
ReaderOverruns ==
    /\ alive
    /\ peer # NoPeer
    /\ alive' \in BOOLEAN
    /\ logout' = TRUE \/ UNCHANGED logout
    /\ unbroken' = FALSE
    /\ UNCHANGED <<waiting_for_logout, connected_user, connection, peer, session,
                   lines, wanted, premature, careful>>

Keyboard ==
    \/ \E name \in Names, a \in Addresses : Login(name, a) \/ LoginShort(name, a)
    \/ \E name \in Names : LoginBadAddress(name)
    \/ \E name \in Names, host \in Hosts : LoginBadPort(name, host)
    \/ CommandWithLogin \/ Command \/ Logout \/ ShortLine \/ OtherLine

Next == Keyboard \/ EndLogout \/ EndSession \/ ReaderThrows \/ ReaderOverruns

Spec == Init /\ [][Next]_vars
-----------------------------------------------------------------------------
\* Whole lines never end the process as long as no report comes with a line cut
\* short: a user exists by the time a command or a frame asks for one, whichever
\* way the session ends (connected_user in ConnectionHandler, parseInput).
WholeLinesSurvive == careful /\ unbroken => alive

\* With whole lines only, no request goes out ahead of the CONNECT or after the
\* DISCONNECT of its connection, and the commands of a session use the User
\* object of the name that logged in, though sessions end in four ways.
SessionBeforeRequests ==
    careful => /\ ~premature
               /\ session # NoUser => session = connected_user

\* A login goes where the last whole one before it said, or to Home: its own
\* address counts for the next, which there is only when the session that came
\* about in the wrong place has ended.  The number typed survives the short
\* (stompProcessClientInput, set_host and set_port, port_).
LoginGoesWhereTheLastSaid ==
    [][\A name \in Names, a \in Addresses :
          Login(name, a) /\ peer = NoPeer /\ wanted \in Listening
              => peer' = wanted]_vars
=============================================================================
