----------------------------- MODULE LazyProofs -----------------------------
(***************************************************************************)
(* Proofs about LazySingletons, for every set of threads: as long as one   *)
(* ResponseManager was made, its lock makes up for the locks that the other *)
(* managers do not have, and the race is that of the first requests only.  *)
(***************************************************************************)
EXTENDS LazySingletons, TLAPS

-----------------------------------------------------------------------------
(* The inductive invariant.                                                 *)

\* Inside generateResponse.
Inside == {"check users", "create users", "look", "add", "login", "logout"}

\* A thread has got where it is by way of the managers it needs.
Places ==
    \A t \in Threads :
        /\ pc[t] \in {"fetch", "enter", "drain", "send"} \cup Inside
               => responsemanager # 0
        /\ pc[t] \in {"enter", "drain", "send"} \cup Inside => mine[t] # 0
        /\ pc[t] \in Inside => monitor[mine[t]] = t
        /\ pc[t] \in {"look", "add", "login", "logout", "drain", "send"}
               => usermanager # 0
        /\ request[t] = "DISCONNECT" => usermanager # 0

\* With one ResponseManager there is one account, which a thread finds as it
\* has left it, and one session at most.
Single ==
    ~raced =>
        /\ Len(registers) <= 1
        /\ usermanager = 0 => Len(registers) = 0
        /\ \A m \in DOMAIN registers : registers[m] <= 1
        /\ \A s1, s2 \in sessions : s1 = s2
        /\ sessions # {} => <<1, 1>> \in connected
        /\ \A t \in Threads :
              /\ pc[t] = "create users" => usermanager = 0
              /\ pc[t] = "add" => registers[1] = 0 /\ sessions = {}
              /\ pc[t] = "login" => registers[1] = 1 /\ sessions = {}
        /\ \A m \in DOMAIN registers : registers[m] = 0 => sessions = {}

IInv == TypeOK /\ Places /\ Single /\ RequestsCarriedOut

-----------------------------------------------------------------------------
\* It holds before any request has come.
LEMMA LazyInit == Init => IInv
<1> SUFFICES ASSUME Init  PROVE IInv
  OBVIOUS
<1>1. TypeOK
  BY DEF Init, TypeOK
<1>2. Places
  BY DEF Init, Places, Inside
<1>3. Single /\ RequestsCarriedOut
  BY DEF Init, Single, RequestsCarriedOut
<1> QED  BY <1>1, <1>2, <1>3 DEF IInv

Commands == {"CONNECTED", "Error", "disconnect", "RECIPT"}

Pcs == {"idle", "check", "create", "fetch", "enter", "check users", "create users",
        "look", "add", "login", "logout", "drain", "send", "done", "dead"}

\* The three parts of the type invariant.
ManagerTypes ==
    /\ monitor \in Seq(Threads \cup {NoThread})
    /\ responsemanager \in 0 .. Len(monitor)
    /\ queues \subseteq (1 .. Len(monitor)) \X Threads
    /\ commands \subseteq (1 .. Len(monitor)) \X Threads \X Commands

UserTypes ==
    /\ registers \in Seq(Nat)
    /\ usermanager \in 0 .. Len(registers)
    /\ connected \subseteq (1 .. Len(registers)) \X Nat
    /\ sessions \subseteq (1 .. Len(registers)) \X Nat \X Threads

ThreadTypes ==
    /\ request \in [Threads -> {"CONNECT", "DISCONNECT"}]
    /\ mine \in [Threads -> 0 .. Len(monitor)]
    /\ pc \in [Threads -> Pcs]

LEMMA TypeParts == TypeOK <=> ManagerTypes /\ UserTypes /\ ThreadTypes
  BY DEF TypeOK, ManagerTypes, UserTypes, ThreadTypes, Commands, Pcs

\* A thread that goes somewhere moves no other.
LEMMA GotoMoves ==
  ASSUME NEW t \in Threads, pc \in [Threads -> Pcs], NEW place \in Pcs, goto(t, place)
  PROVE  /\ pc' \in [Threads -> Pcs]
         /\ pc'[t] = place
         /\ \A u \in Threads \ {t} : pc'[u] = pc[u]
  BY DEF goto

\* What sequences of monitors and of registers become.
LEMMA ExceptSeq ==
  ASSUME NEW S, NEW s \in Seq(S), NEW i \in 1 .. Len(s), NEW e \in S
  PROVE  LET r == [s EXCEPT ![i] = e]
         IN  /\ r \in Seq(S) /\ Len(r) = Len(s) /\ r[i] = e
             /\ \A j \in 1 .. Len(s) : j # i => r[j] = s[j]
  OBVIOUS

LEMMA AppendSeq ==
  ASSUME NEW S, NEW s \in Seq(S), NEW e \in S
  PROVE  LET r == Append(s, e)
         IN  /\ r \in Seq(S) /\ Len(r) = Len(s) + 1 /\ r[Len(r)] = e
             /\ \A j \in 1 .. Len(s) : r[j] = s[j]
  OBVIOUS

LEMMA OneOfOne ==
  ASSUME NEW n \in Nat, ~(n > 1), NEW i \in 0 .. n, i # 0
  PROVE  i = 1 /\ n = 1
  OBVIOUS

\* What leaving generateResponse does to the managers.
LEMMA LeaveTypes ==
  ASSUME ManagerTypes, ThreadTypes, Places, NEW t \in Threads, pc[t] \in Inside,
         NEW new \in SUBSET Commands, NEW place \in Pcs, leave(t, new, place)
  PROVE  /\ ManagerTypes' /\ ThreadTypes'
         /\ Len(monitor') = Len(monitor)
         /\ monitor' \in Seq(Threads \cup {NoThread})
         /\ monitor'[mine[t]] = NoThread
         /\ \A i \in 1 .. Len(monitor) : i # mine[t] => monitor'[i] = monitor[i]
<1>1. mine[t] \in 1 .. Len(monitor)
  BY DEF Places, ThreadTypes
<1>2. /\ monitor' \in Seq(Threads \cup {NoThread}) /\ Len(monitor') = Len(monitor)
      /\ monitor'[mine[t]] = NoThread
      /\ \A i \in 1 .. Len(monitor) : i # mine[t] => monitor'[i] = monitor[i]
  BY <1>1 DEF leave, ManagerTypes
<1>3. commands' \subseteq (1 .. Len(monitor)) \X Threads \X Commands
  <2>1. \A c \in new : <<mine[t], t, c>> \in (1 .. Len(monitor)) \X Threads \X Commands
    BY <1>1
  <2> QED  BY <2>1 DEF leave, ManagerTypes
<1>4. ManagerTypes'
  BY <1>2, <1>3 DEF leave, ManagerTypes
<1>5. pc' \in [Threads -> Pcs]
  BY GotoMoves DEF leave, ThreadTypes
<1>6. ThreadTypes'
  BY <1>2, <1>5 DEF leave, ThreadTypes
<1> QED  BY <1>2, <1>4, <1>6

\* The types, one action at a time.
LEMMA TypeStep ==
  ASSUME TypeOK, Places, NEW t \in Threads, Step(t)
  PROVE  TypeOK'
<1> SUFFICES ManagerTypes' /\ UserTypes' /\ ThreadTypes'
  BY TypeParts, PTL
<1>1. ManagerTypes /\ UserTypes /\ ThreadTypes
  BY TypeParts
<1>2. ASSUME NEW place \in Pcs, goto(t, place),
             UNCHANGED <<managerVars, userVars, request, mine>>
      PROVE  ManagerTypes' /\ UserTypes' /\ ThreadTypes'
  <2>1. pc' \in [Threads -> Pcs]
    BY <1>1, <1>2, GotoMoves DEF ThreadTypes
  <2>2. ManagerTypes' /\ UserTypes'
    BY <1>1, <1>2 DEF ManagerTypes, UserTypes, managerVars, userVars
  <2>3. ThreadTypes'
    BY <1>1, <1>2, <2>1 DEF ThreadTypes, managerVars
  <2> QED  BY <2>2, <2>3
<1>3. CASE Receive(t) \/ Check(t) \/ CheckUsers(t) \/ SendReply(t)
  <2>1. "check" \in Pcs /\ "create" \in Pcs /\ "fetch" \in Pcs /\ "look" \in Pcs
        /\ "create users" \in Pcs /\ "drain" \in Pcs /\ "dead" \in Pcs
    BY DEF Pcs
  <2>2. CASE Receive(t)
    BY <1>1, <1>2, <2>1, <2>2 DEF Receive
  <2>3. CASE Check(t)
    BY <1>1, <1>2, <2>1, <2>3 DEF Check
  <2>4. CASE CheckUsers(t)
    BY <1>1, <1>2, <2>1, <2>4 DEF CheckUsers
  <2>5. CASE SendReply(t)
    BY <1>1, <1>2, <2>1, <2>5 DEF SendReply
  <2> QED  BY <1>3, <2>2, <2>3, <2>4, <2>5
<1>4. CASE Create(t)
  <2>1. pc' \in [Threads -> Pcs]
    BY <1>1, <1>4, GotoMoves DEF Create, ThreadTypes, Pcs, userVars
  <2>2. monitor' \in Seq(Threads \cup {NoThread}) /\ Len(monitor') = Len(monitor) + 1
    BY <1>1, <1>4 DEF Create, ManagerTypes, userVars
  <2>3. ManagerTypes'
    BY <1>1, <1>4, <2>2 DEF Create, ManagerTypes, userVars
  <2>4. ThreadTypes'
    BY <1>1, <1>4, <2>1, <2>2 DEF Create, ThreadTypes, ManagerTypes, userVars
  <2>5. UserTypes'
    BY <1>1, <1>4 DEF Create, userVars, UserTypes
  <2> QED  BY <2>3, <2>4, <2>5
<1>5. CASE Fetch(t)
  <2>1. pc' \in [Threads -> Pcs]
    BY <1>1, <1>5, GotoMoves DEF Fetch, ThreadTypes, Pcs, managerVars, userVars
  <2>2. ManagerTypes' /\ UserTypes'
    BY <1>1, <1>5 DEF Fetch, ManagerTypes, UserTypes, managerVars, userVars
  <2>3. ThreadTypes'
    BY <1>1, <1>5, <2>1 DEF Fetch, ThreadTypes, ManagerTypes, managerVars, userVars
  <2> QED  BY <2>2, <2>3
<1>6. CASE Enter(t)
  <2>1. pc' \in [Threads -> Pcs]
    <3>1. "check users" \in Pcs /\ "logout" \in Pcs
      BY DEF Pcs
    <3> QED  BY <1>1, <1>6, <3>1, GotoMoves DEF Enter, ThreadTypes, userVars
  <2>0. pc[t] = "enter" /\ monitor' = [monitor EXCEPT ![mine[t]] = t]
        /\ queues' = queues \cup {<<mine[t], t>>}
    BY <1>6, Zenon DEF Enter
  <2>2. mine[t] \in 1 .. Len(monitor)
    BY <1>1, <2>0 DEF Places, ThreadTypes
  <2>3. monitor' \in Seq(Threads \cup {NoThread}) /\ Len(monitor') = Len(monitor)
    BY <1>1, <2>0, <2>2, ExceptSeq DEF ManagerTypes
  <2>4. queues' \subseteq (1 .. Len(monitor)) \X Threads
    BY <1>1, <2>0, <2>2 DEF ManagerTypes
  <2>5. ManagerTypes'
    BY <1>1, <1>6, <2>3, <2>4 DEF Enter, ManagerTypes, userVars
  <2>6. ThreadTypes'
    BY <1>1, <1>6, <2>1, <2>3 DEF Enter, ThreadTypes, userVars
  <2>7. UserTypes'
    BY <1>1, <1>6 DEF Enter, userVars, UserTypes
  <2> QED  BY <2>5, <2>6, <2>7
<1>7. CASE CreateUsers(t)
  <2>1. pc' \in [Threads -> Pcs]
    BY <1>1, <1>7, GotoMoves DEF CreateUsers, ThreadTypes, Pcs, managerVars
  <2>0. /\ registers' = Append(registers, 0) /\ usermanager' = Len(registers')
        /\ UNCHANGED <<connected, sessions>>
    BY <1>7, Zenon DEF CreateUsers
  <2>2. registers' \in Seq(Nat) /\ Len(registers') = Len(registers) + 1
    BY <1>1, <2>0, AppendSeq DEF UserTypes
  <2>3. UserTypes'
    BY <1>1, <2>0, <2>2 DEF UserTypes
  <2>4. ManagerTypes' /\ ThreadTypes'
    BY <1>1, <1>7, <2>1 DEF CreateUsers, ManagerTypes, ThreadTypes, managerVars
  <2> QED  BY <2>3, <2>4
<1>8. CASE Add(t)
  <2>1. pc' \in [Threads -> Pcs]
    BY <1>1, <1>8, GotoMoves DEF Add, ThreadTypes, Pcs, managerVars
  <2>2. usermanager \in 1 .. Len(registers)
    BY <1>1, <1>8 DEF Add, Places, UserTypes, managerVars
  <2>3. registers' \in Seq(Nat) /\ Len(registers') = Len(registers)
    BY <1>1, <1>8, <2>2 DEF Add, UserTypes, managerVars
  <2>4. UserTypes'
    BY <1>1, <1>8, <2>3 DEF Add, UserTypes, managerVars
  <2>5. ManagerTypes' /\ ThreadTypes'
    BY <1>1, <1>8, <2>1 DEF Add, ManagerTypes, ThreadTypes, managerVars
  <2> QED  BY <2>4, <2>5
<1>9. CASE Take(t)
  <2>1. pc' \in [Threads -> Pcs]
    <3>1. "drain" \in Pcs /\ "send" \in Pcs
      BY DEF Pcs
    <3> QED  BY <1>1, <1>9, <3>1, GotoMoves DEF Take, ThreadTypes, userVars
  <2>2. commands' \subseteq commands
    BY <1>1, <1>9 DEF Take, userVars
  <2>3. ManagerTypes'
    BY <1>1, <1>9, <2>2 DEF Take, ManagerTypes, userVars
  <2>4. UserTypes' /\ ThreadTypes'
    BY <1>1, <1>9, <2>1 DEF Take, UserTypes, ThreadTypes, userVars
  <2> QED  BY <2>3, <2>4
<1>10. CASE Stop(t)
  <2>1. pc' \in [Threads -> Pcs]
    <3>1. "idle" \in Pcs /\ "done" \in Pcs
      BY DEF Pcs
    <3> QED  BY <1>1, <1>10, <3>1, GotoMoves DEF Stop, next_request, ThreadTypes
  <2>2. ManagerTypes' /\ UserTypes'
    BY <1>1, <1>10 DEF Stop, next_request, ManagerTypes, UserTypes, managerVars, userVars
  <2>3. ThreadTypes'
    BY <1>1, <1>10, <2>1 DEF Stop, next_request, ThreadTypes, managerVars
  <2> QED  BY <2>2, <2>3
<1>11. "dead" \in Pcs /\ "drain" \in Pcs /\ "add" \in Pcs /\ "login" \in Pcs
  BY DEF Pcs
<1>12. CASE Look(t)
  <2>1. CASE leave(t, {"Error"}, "dead")
    <3>1. pc[t] \in Inside /\ {"Error"} \in SUBSET Commands
      BY <1>1, <1>12 DEF Look, Inside, Commands
    <3>2. ManagerTypes' /\ ThreadTypes'
      BY <1>1, <1>11, <2>1, <3>1, LeaveTypes
    <3> QED  BY <1>1, <1>12, <3>2 DEF Look, userVars, UserTypes
  <2>2. CASE /\ goto(t, "add") \/ goto(t, "login")
             /\ UNCHANGED <<managerVars, request, mine>>
    BY <1>1, <1>2, <1>11, <1>12, <2>2 DEF Look
  <2> QED  BY <1>1, <1>12, <2>1, <2>2 DEF Look
<1>13. CASE Login(t)
  <2>1. usermanager \in 1 .. Len(registers) /\ registers[usermanager] \in Nat
    BY <1>1, <1>13 DEF Login, Places, UserTypes
  <2>2. pc[t] \in Inside /\ {} \in SUBSET Commands /\ {"CONNECTED"} \in SUBSET Commands
    BY <1>1, <1>13 DEF Login, Inside, Commands
  <2>3. ManagerTypes' /\ ThreadTypes'
    BY <1>1, <1>11, <1>13, <2>2, LeaveTypes DEF Login
  <2>4. CASE UNCHANGED <<connected, sessions>>
    BY <1>1, <1>13, <2>3, <2>4 DEF Login, UserTypes
  <2>5. CASE /\ connected' = connected \cup {<<usermanager, registers[usermanager]>>}
             /\ sessions' = sessions \cup {<<usermanager, registers[usermanager], t>>}
    BY <1>1, <1>13, <2>1, <2>3, <2>5 DEF Login, UserTypes
  <2> QED  BY <1>1, <1>13, <2>4, <2>5 DEF Login
<1>14. CASE Logout(t)
  <2>1. /\ pc[t] \in Inside /\ {} \in SUBSET Commands
        /\ {"disconnect", "RECIPT"} \in SUBSET Commands
    BY <1>1, <1>14 DEF Logout, Inside, Commands
  <2>2. leave(t, {"disconnect", "RECIPT"}, "drain") \/ leave(t, {}, "dead")
    BY <1>1, <1>14 DEF Logout
  <2>3. ManagerTypes' /\ ThreadTypes'
    BY <1>1, <1>11, <2>1, <2>2, LeaveTypes
  <2>4. sessions' \subseteq sessions /\ connected' \subseteq connected
    BY <1>1, <1>14 DEF Logout
  <2>5. UserTypes'
    BY <1>1, <1>14, <2>4 DEF Logout, UserTypes
  <2> QED  BY <2>3, <2>5
<1> QED  BY <1>3, <1>4, <1>5, <1>6, <1>7, <1>8, <1>9, <1>10, <1>12, <1>13, <1>14 DEF Step

-----------------------------------------------------------------------------
(* Where the threads are.                                                   *)

\* A step moves one thread only, and nobody else's lock.
LEMMA OthersStay ==
  ASSUME TypeOK, Places, NEW t \in Threads, Step(t), NEW u \in Threads, u # t
  PROVE  /\ pc'[u] = pc[u] /\ mine'[u] = mine[u] /\ request'[u] = request[u]
         /\ pc[u] \in Inside => monitor'[mine[u]] = monitor[mine[u]]
<1>1. ManagerTypes /\ ThreadTypes
  BY TypeParts
<1>2. /\ u \notin {NoThread, t}
      /\ pc[u] \in Inside => mine[u] \in 1 .. Len(monitor) /\ monitor[mine[u]] = u
  BY <1>1, SingletonAssumption DEF Places, ThreadTypes
<1>3. ASSUME NEW place, goto(t, place)  PROVE pc'[u] = pc[u]
  BY <1>1, <1>3 DEF goto, ThreadTypes
<1>4. CASE Receive(t) \/ Check(t) \/ CheckUsers(t) \/ SendReply(t) \/ CreateUsers(t)
           \/ Add(t) \/ Take(t)
  <2>1. UNCHANGED <<monitor, mine, request>>
    BY <1>4 DEF Receive, Check, CheckUsers, SendReply, CreateUsers, Add, Take, managerVars
  <2>2. pc'[u] = pc[u]
    <3>1. \E place : goto(t, place)
      BY <1>4, Zenon DEF Receive, Check, CheckUsers, SendReply, CreateUsers, Add, Take
    <3> QED  BY <1>3, <3>1
  <2> QED  BY <2>1, <2>2
<1>5. CASE Create(t)
  <2>1. monitor' = Append(monitor, NoThread) /\ goto(t, "fetch") /\ UNCHANGED <<mine, request>>
    BY <1>5, Zenon DEF Create
  <2>2. \A i \in 1 .. Len(monitor) : monitor'[i] = monitor[i]
    BY <1>1, <2>1, AppendSeq DEF ManagerTypes
  <2> QED  BY <1>2, <1>3, <2>1, <2>2
<1>6. CASE Fetch(t)
  <2>1. /\ mine' = [mine EXCEPT ![t] = responsemanager] /\ goto(t, "enter")
        /\ UNCHANGED <<monitor, request>>
    BY <1>6 DEF Fetch, managerVars
  <2>2. mine'[u] = mine[u]
    BY <1>1, <2>1 DEF ThreadTypes
  <2> QED  BY <1>3, <2>1, <2>2
<1>7. CASE Enter(t)
  <2>1. /\ monitor' = [monitor EXCEPT ![mine[t]] = t] /\ monitor[mine[t]] = NoThread
        /\ pc[t] = "enter" /\ UNCHANGED <<mine, request>>
    BY <1>7, Zenon DEF Enter
  <2>2. pc'[u] = pc[u]
    <3>1. \E place : goto(t, place)
      BY <1>7, Zenon DEF Enter
    <3> QED  BY <1>3, <3>1
  <2>3. mine[t] \in 1 .. Len(monitor)
    BY <1>1, <2>1 DEF Places, ThreadTypes
  <2>4. \A j \in 1 .. Len(monitor) : j # mine[t] => monitor'[j] = monitor[j]
    BY <1>1, <2>1, <2>3, ExceptSeq DEF ManagerTypes
  <2> QED  BY <1>2, <2>1, <2>2, <2>4
<1>8. ASSUME pc[t] \in Inside, NEW new \in SUBSET Commands, NEW place \in Pcs,
             leave(t, new, place)
      PROVE  /\ pc'[u] = pc[u] /\ mine'[u] = mine[u] /\ request'[u] = request[u]
             /\ pc[u] \in Inside => monitor'[mine[u]] = monitor[mine[u]]
  <2>1. goto(t, place) /\ UNCHANGED <<mine, request>>
    BY <1>8 DEF leave
  <2>2. \A i \in 1 .. Len(monitor) : i # mine[t] => monitor'[i] = monitor[i]
    BY <1>1, <1>8, LeaveTypes
  <2>3. monitor[mine[t]] = t
    BY <1>8 DEF Places
  <2> QED  BY <1>2, <1>3, <2>1, <2>2, <2>3
<1>9. "dead" \in Pcs /\ "drain" \in Pcs
  BY DEF Pcs
<1>10. CASE Look(t)
  <2>1. CASE leave(t, {"Error"}, "dead")
    <3>1. pc[t] \in Inside /\ {"Error"} \in SUBSET Commands
      BY <1>10 DEF Look, Inside, Commands
    <3> QED  BY <1>8, <1>9, <2>1, <3>1
  <2>2. CASE /\ goto(t, "add") \/ goto(t, "login")
             /\ UNCHANGED <<managerVars, request, mine>>
    BY <1>3, <2>2 DEF managerVars
  <2> QED  BY <1>10, <2>1, <2>2 DEF Look
<1>11. CASE Login(t)
  <2>1. pc[t] \in Inside /\ {} \in SUBSET Commands /\ {"CONNECTED"} \in SUBSET Commands
    BY <1>11 DEF Login, Inside, Commands
  <2>2. leave(t, {"CONNECTED"}, "drain") \/ leave(t, {}, "dead")
    BY <1>11 DEF Login
  <2> QED  BY <1>8, <1>9, <2>1, <2>2
<1>12. CASE Logout(t)
  <2>1. /\ pc[t] \in Inside /\ {} \in SUBSET Commands
        /\ {"disconnect", "RECIPT"} \in SUBSET Commands
    BY <1>12 DEF Logout, Inside, Commands
  <2>2. leave(t, {"disconnect", "RECIPT"}, "drain") \/ leave(t, {}, "dead")
    BY <1>12 DEF Logout
  <2> QED  BY <1>8, <1>9, <2>1, <2>2
<1>13. CASE Stop(t)
  <2>1. UNCHANGED <<monitor, mine>> /\ request' = [request EXCEPT ![t] = "DISCONNECT"]
    BY <1>13 DEF Stop, next_request, managerVars
  <2>2. pc'[u] = pc[u]
    <3>1. \E place : goto(t, place)
      BY <1>13, Zenon DEF Stop, next_request
    <3> QED  BY <1>3, <3>1
  <2>3. request'[u] = request[u]
    BY <1>1, <2>1 DEF ThreadTypes
  <2> QED  BY <2>1, <2>2, <2>3
<1> QED  BY <1>4, <1>5, <1>6, <1>7, <1>10, <1>11, <1>12, <1>13 DEF Step

\* A manager that was made is never null again, and none is unmade.
LEMMA ManagersStay ==
  ASSUME TypeOK, NEW t \in Threads, Step(t)
  PROVE  /\ responsemanager # 0 => responsemanager' # 0
         /\ usermanager # 0 => usermanager' # 0
         /\ Len(monitor) <= Len(monitor')
<1>1. ManagerTypes /\ UserTypes
  BY TypeParts
<1>2. CASE Create(t)
  <2>1. /\ monitor' = Append(monitor, NoThread) /\ responsemanager' = Len(monitor')
        /\ usermanager' = usermanager
    BY <1>2 DEF Create, userVars
  <2> QED  BY <1>1, <2>1, AppendSeq DEF ManagerTypes
<1>3. CASE CreateUsers(t)
  <2>1. /\ registers' = Append(registers, 0) /\ usermanager' = Len(registers')
        /\ UNCHANGED <<responsemanager, monitor>>
    BY <1>3 DEF CreateUsers, managerVars
  <2> QED  BY <1>1, <2>1, AppendSeq DEF UserTypes, ManagerTypes
<1>4. CASE ~Create(t) /\ ~CreateUsers(t)
  <2>1. UNCHANGED <<responsemanager, usermanager>>
    BY <1>4, Zenon DEF Step, Receive, Check, Fetch, Enter, CheckUsers, Look, Add, Login,
       Logout, Take, SendReply, Stop, leave, next_request, managerVars, userVars
  <2>2. monitor' = monitor \/ \E i, e : monitor' = [monitor EXCEPT ![i] = e]
    BY <1>4, Zenon DEF Step, Receive, Check, Fetch, Enter, CheckUsers, Look, Add, Login,
       Logout, Take, SendReply, Stop, leave, next_request, managerVars, userVars
  <2>3. Len(monitor') = Len(monitor)
    BY <1>1, <2>2 DEF ManagerTypes
  <2> QED  BY <1>1, <2>1, <2>3 DEF ManagerTypes
<1> QED  BY <1>2, <1>3, <1>4

\* Where a step takes the thread that makes it.
PlacesOf(t) ==
    /\ pc[t] \in {"fetch", "enter", "drain", "send"} \cup Inside
           => responsemanager # 0
    /\ pc[t] \in {"enter", "drain", "send"} \cup Inside => mine[t] # 0
    /\ pc[t] \in Inside => monitor[mine[t]] = t
    /\ pc[t] \in {"look", "add", "login", "logout", "drain", "send"}
           => usermanager # 0
    /\ request[t] = "DISCONNECT" => usermanager # 0

LEMMA SelfPlaces ==
  ASSUME TypeOK, Places, NEW t \in Threads, Step(t)
  PROVE  PlacesOf(t)'
<1>1. ManagerTypes /\ UserTypes /\ ThreadTypes /\ PlacesOf(t)
  BY TypeParts DEF Places, PlacesOf
<1>2. /\ responsemanager # 0 => responsemanager' # 0
      /\ usermanager # 0 => usermanager' # 0
  BY ManagersStay
<1>3. ASSUME NEW place \in Pcs, goto(t, place)  PROVE pc'[t] = place
  BY <1>1, <1>3, GotoMoves DEF ThreadTypes
<1>4. CASE Receive(t)
  <2>1. pc'[t] = "check" /\ request' = request
    BY <1>4, <1>3, Zenon DEF Receive, Pcs
  <2> QED  BY <1>1, <1>2, <2>1 DEF PlacesOf, Inside
<1>5. CASE Check(t)
  <2>1. /\ pc'[t] \in {"create", "fetch"} /\ (pc'[t] = "fetch" => responsemanager # 0)
        /\ request' = request
    <3>1. CASE responsemanager = 0
      BY <1>5, <1>3, <3>1 DEF Check, Pcs
    <3>2. CASE responsemanager # 0
      BY <1>5, <1>3, <3>2 DEF Check, Pcs
    <3> QED  BY <3>1, <3>2
  <2> QED  BY <1>1, <1>2, <2>1 DEF PlacesOf, Inside
<1>6. CASE Create(t)
  <2>1. pc'[t] = "fetch" /\ request' = request
    BY <1>6, <1>3, Zenon DEF Create, Pcs
  <2>2. responsemanager' # 0
    <3>1. monitor' = Append(monitor, NoThread) /\ responsemanager' = Len(monitor')
      BY <1>6, Zenon DEF Create
    <3> QED  BY <1>1, <3>1, AppendSeq DEF ManagerTypes
  <2> QED  BY <1>1, <1>2, <2>1, <2>2 DEF PlacesOf, Inside
<1>7. CASE Fetch(t)
  <2>1. /\ pc'[t] = "enter" /\ request' = request /\ pc[t] = "fetch"
        /\ mine' = [mine EXCEPT ![t] = responsemanager]
    BY <1>7, <1>3, Zenon DEF Fetch, Pcs
  <2>2. mine'[t] # 0
    BY <1>1, <2>1 DEF PlacesOf, ThreadTypes
  <2> QED  BY <1>1, <1>2, <2>1, <2>2 DEF PlacesOf, Inside
<1>8. CASE Enter(t)
  <2>1. /\ request' = request /\ mine' = mine /\ pc[t] = "enter"
        /\ monitor' = [monitor EXCEPT ![mine[t]] = t]
    BY <1>8, Zenon DEF Enter
  <2>2. /\ pc'[t] \in {"check users", "logout"}
        /\ pc'[t] = "logout" => request[t] # "CONNECT"
    <3>1. CASE request[t] = "CONNECT"
      BY <1>8, <1>3, <3>1, Zenon DEF Enter, Pcs
    <3>2. CASE request[t] # "CONNECT"
      BY <1>8, <1>3, <3>2, Zenon DEF Enter, Pcs
    <3> QED  BY <3>1, <3>2
  <2>3. mine[t] \in 1 .. Len(monitor)
    BY <1>1, <2>1 DEF PlacesOf, ThreadTypes
  <2>4. monitor'[mine[t]] = t
    BY <1>1, <2>1, <2>3, ExceptSeq DEF ManagerTypes
  <2>5. request[t] \in {"CONNECT", "DISCONNECT"}
    BY <1>1 DEF ThreadTypes
  <2> QED  BY <1>1, <1>2, <2>1, <2>2, <2>4, <2>5 DEF PlacesOf, Inside
<1>9. CASE CheckUsers(t)
  <2>1. /\ pc[t] = "check users" /\ request' = request /\ mine' = mine
        /\ monitor' = monitor
    BY <1>9 DEF CheckUsers, managerVars
  <2>2. /\ pc'[t] \in {"create users", "look"}
        /\ pc'[t] = "look" => usermanager # 0
    <3>1. CASE usermanager = 0
      BY <1>9, <1>3, <3>1 DEF CheckUsers, Pcs
    <3>2. CASE usermanager # 0
      BY <1>9, <1>3, <3>2 DEF CheckUsers, Pcs
    <3> QED  BY <3>1, <3>2
  <2> QED  BY <1>1, <1>2, <2>1, <2>2 DEF PlacesOf, Inside
<1>10. CASE CreateUsers(t)
  <2>1. /\ pc[t] = "create users" /\ request' = request /\ mine' = mine
        /\ monitor' = monitor /\ pc'[t] = "look"
    BY <1>10, <1>3 DEF CreateUsers, managerVars, Pcs
  <2>2. usermanager' # 0
    <3>1. registers' = Append(registers, 0) /\ usermanager' = Len(registers')
      BY <1>10, Zenon DEF CreateUsers
    <3> QED  BY <1>1, <3>1, AppendSeq DEF UserTypes
  <2> QED  BY <1>1, <1>2, <2>1, <2>2 DEF PlacesOf, Inside
<1>11. ASSUME NEW new, NEW place \in {"dead", "drain"}, leave(t, new, place),
             pc[t] \in {"look", "login", "logout"}
      PROVE  PlacesOf(t)'
  <2>1. pc'[t] = place /\ request' = request /\ mine' = mine
    BY <1>3, <1>11 DEF leave, Pcs
  <2> QED  BY <1>1, <1>2, <1>11, <2>1 DEF PlacesOf, Inside
<1>12. CASE Look(t)
  <2>1. CASE leave(t, {"Error"}, "dead")
    BY <1>11, <1>12, <2>1 DEF Look
  <2>2. CASE /\ goto(t, "add") \/ goto(t, "login")
             /\ UNCHANGED <<managerVars, request, mine>>
    <3>1. /\ pc[t] = "look" /\ pc'[t] \in {"add", "login"} /\ request' = request
          /\ mine' = mine /\ monitor' = monitor
      BY <1>3, <1>12, <2>2 DEF Look, managerVars, Pcs
    <3> QED  BY <1>1, <1>2, <3>1 DEF PlacesOf, Inside
  <2> QED  BY <1>12, <2>1, <2>2 DEF Look
<1>13. CASE Add(t)
  <2>1. /\ pc[t] = "add" /\ pc'[t] = "login" /\ request' = request
        /\ mine' = mine /\ monitor' = monitor
    BY <1>3, <1>13 DEF Add, managerVars, Pcs
  <2> QED  BY <1>1, <1>2, <2>1 DEF PlacesOf, Inside
<1>14. CASE Login(t)
  <2>1. pc[t] = "login" /\ (leave(t, {"CONNECTED"}, "drain") \/ leave(t, {}, "dead"))
    BY <1>14 DEF Login
  <2> QED  BY <1>11, <2>1
<1>15. CASE Logout(t)
  <2>1. /\ pc[t] = "logout"
        /\ leave(t, {"disconnect", "RECIPT"}, "drain") \/ leave(t, {}, "dead")
    BY <1>15 DEF Logout
  <2> QED  BY <1>11, <2>1
<1>16. CASE Take(t) \/ SendReply(t)
  <2>1. pc[t] \in {"drain", "send"} /\ request' = request /\ mine' = mine
    BY <1>16, Zenon DEF Take, SendReply
  <2>2. pc'[t] \in {"drain", "send", "dead"}
    <3>1. CASE Take(t)
      BY <1>3, <3>1, Zenon DEF Take, Pcs
    <3>2. CASE SendReply(t)
      BY <1>3, <3>2, Zenon DEF SendReply, Pcs
    <3> QED  BY <1>16, <3>1, <3>2
  <2> QED  BY <1>1, <1>2, <2>1, <2>2 DEF PlacesOf, Inside
<1>17. CASE Stop(t)
  <2>1. pc[t] = "drain" /\ pc'[t] \in {"idle", "done"}
    <3>1. "idle" \in Pcs /\ "done" \in Pcs
      BY DEF Pcs
    <3> QED  BY <1>3, <1>17, <3>1, Zenon DEF Stop, next_request
  <2> QED  BY <1>1, <1>2, <2>1 DEF PlacesOf, Inside
<1> QED  BY <1>4, <1>5, <1>6, <1>7, <1>8, <1>9, <1>10, <1>12, <1>13, <1>14, <1>15,
            <1>16, <1>17 DEF Step

LEMMA PlacesStep ==
  ASSUME TypeOK, Places, NEW t \in Threads, Step(t)
  PROVE  Places'
<1>1. ASSUME NEW u \in Threads  PROVE PlacesOf(u)'
  <2>1. CASE u = t
    BY <2>1, SelfPlaces
  <2>2. CASE u # t
    <3>1. PlacesOf(u)
      BY DEF Places, PlacesOf
    <3>2. /\ pc'[u] = pc[u] /\ mine'[u] = mine[u] /\ request'[u] = request[u]
          /\ pc[u] \in Inside => monitor'[mine[u]] = monitor[mine[u]]
      BY <2>2, OthersStay
    <3>3. /\ responsemanager # 0 => responsemanager' # 0
          /\ usermanager # 0 => usermanager' # 0
      BY ManagersStay
    <3> QED  BY <3>1, <3>2, <3>3 DEF PlacesOf, Inside
  <2> QED  BY <2>1, <2>2
<1> QED  BY <1>1 DEF Places, PlacesOf

-----------------------------------------------------------------------------
(* One ResponseManager.                                                     *)

\* Its lock is held by one thread.
LEMMA AloneInside ==
  ASSUME TypeOK, Places, ~raced, NEW t \in Threads, NEW u \in Threads,
         pc[t] \in Inside, pc[u] \in Inside
  PROVE  t = u
<1>1. mine[t] \in 0 .. Len(monitor) /\ mine[u] \in 0 .. Len(monitor) /\ Len(monitor) \in Nat
  BY TypeParts DEF ManagerTypes, ThreadTypes
<1>2. /\ mine[t] # 0 /\ mine[u] # 0
      /\ monitor[mine[t]] = t /\ monitor[mine[u]] = u
  BY DEF Places
<1>3. mine[t] = mine[u]
  BY <1>1, <1>2 DEF raced
<1> QED  BY <1>2, <1>3

\* What Single says of a thread.
SingleOf(t) ==
    /\ pc[t] = "create users" => usermanager = 0
    /\ pc[t] = "add" => registers[1] = 0 /\ sessions = {}
    /\ pc[t] = "login" => registers[1] = 1 /\ sessions = {}

\* And of the users.
SingleUsers ==
    /\ Len(registers) <= 1
    /\ usermanager = 0 => Len(registers) = 0
    /\ \A m \in DOMAIN registers : registers[m] <= 1
    /\ \A s1, s2 \in sessions : s1 = s2
    /\ sessions # {} => <<1, 1>> \in connected
    /\ \A m \in DOMAIN registers : registers[m] = 0 => sessions = {}

LEMMA SingleParts ==
  Single <=> (~raced => SingleUsers /\ \A t \in Threads : SingleOf(t))
  BY DEF Single, SingleUsers, SingleOf

\* Whoever is inside alone need care for the users and itself.
LEMMA SingleInside ==
  ASSUME TypeOK, Places, ~raced, NEW t \in Threads, Step(t), pc[t] \in Inside,
         SingleUsers', SingleOf(t)'
  PROVE  \A u \in Threads : SingleOf(u)'
<1>1. ASSUME NEW u \in Threads, u # t  PROVE SingleOf(u)'
  <2>1. pc[u] \notin Inside
    BY <1>1, AloneInside
  <2>2. pc'[u] = pc[u]
    BY <1>1, OthersStay
  <2> QED  BY <2>1, <2>2 DEF SingleOf, Inside
<1> QED  BY <1>1

LEMMA SingleStep ==
  ASSUME IInv, NEW t \in Threads, Step(t), ~raced'
  PROVE  SingleUsers' /\ \A u \in Threads : SingleOf(u)'
<1>1. TypeOK /\ Places /\ ManagerTypes /\ UserTypes /\ ThreadTypes
  BY TypeParts DEF IInv
<1>2. Len(monitor) \in Nat /\ Len(monitor') \in Nat
  <2>1. ManagerTypes'
    <3>1. TypeOK'
      BY <1>1, TypeStep
    <3> QED  BY <3>1, TypeParts, PTL
  <2> QED  BY <1>1, <2>1 DEF ManagerTypes
<1>3. ~raced
  BY <1>1, <1>2, ManagersStay DEF raced
<1>4. SingleUsers /\ SingleOf(t) /\ \A u \in Threads : SingleOf(u)
  BY <1>3, SingleParts DEF IInv
<1>5. ASSUME NEW place \in Pcs, goto(t, place)  PROVE pc'[t] = place
  BY <1>1, <1>5, GotoMoves DEF ThreadTypes
<1>6. ASSUME UNCHANGED userVars, SingleOf(t)'
      PROVE  SingleUsers' /\ \A u \in Threads : SingleOf(u)'
  <2>1. SingleUsers'
    BY <1>4, <1>6 DEF SingleUsers, userVars
  <2>2. ASSUME NEW u \in Threads, u # t  PROVE SingleOf(u)'
    <3>1. pc'[u] = pc[u]
      BY <1>1, <2>2, OthersStay
    <3> QED  BY <1>4, <1>6, <3>1 DEF SingleOf, userVars
  <2> QED  BY <1>6, <2>1, <2>2
<1>7. usermanager # 0 => /\ usermanager = 1 /\ Len(registers) = 1
                         /\ registers[1] \in {0, 1}
  <2>1. Len(registers) \in Nat /\ Len(registers) <= 1 /\ usermanager \in 0 .. Len(registers)
    BY <1>1, <1>4 DEF UserTypes, SingleUsers
  <2>2. 1 <= Len(registers) => registers[1] \in Nat /\ 1 \in DOMAIN registers
    BY <1>1 DEF UserTypes
  <2>3. 1 <= Len(registers) => registers[1] <= 1
    BY <1>4, <2>2 DEF SingleUsers
  <2>4. usermanager # 0 => usermanager = 1 /\ Len(registers) = 1 /\ 1 <= Len(registers)
    <3>1. ~(Len(registers) > 1)
      BY <2>1
    <3>2. 1 <= 1
      OBVIOUS
    <3> QED  BY <2>1, <3>1, <3>2, OneOfOne, Zenon
  <2>5. \A n \in Nat : n <= 1 => n \in {0, 1}
    OBVIOUS
  <2> QED  BY <2>2, <2>3, <2>4, <2>5, Zenon
<1>8. CASE Receive(t)
  <2>1. UNCHANGED userVars /\ pc'[t] = "check"
    BY <1>5, <1>8, Zenon DEF Receive, Pcs
  <2> QED  BY <1>6, <2>1 DEF SingleOf
<1>9. CASE Check(t)
  <2>1. UNCHANGED userVars /\ pc'[t] \in {"create", "fetch"}
    <3>1. CASE responsemanager = 0
      BY <1>9, <1>5, <3>1, Zenon DEF Check, Pcs
    <3>2. CASE responsemanager # 0
      BY <1>9, <1>5, <3>2, Zenon DEF Check, Pcs
    <3> QED  BY <3>1, <3>2
  <2> QED  BY <1>6, <2>1 DEF SingleOf
<1>10. CASE Create(t)
  <2>1. UNCHANGED userVars /\ pc'[t] = "fetch"
    BY <1>5, <1>10, Zenon DEF Create, Pcs
  <2> QED  BY <1>6, <2>1 DEF SingleOf
<1>11. CASE Fetch(t)
  <2>1. UNCHANGED userVars /\ pc'[t] = "enter"
    BY <1>5, <1>11, Zenon DEF Fetch, Pcs
  <2> QED  BY <1>6, <2>1 DEF SingleOf
<1>12. CASE Enter(t)
  <2>1. UNCHANGED userVars /\ pc'[t] \in {"check users", "logout"}
    <3>1. CASE request[t] = "CONNECT"
      BY <1>12, <1>5, <3>1, Zenon DEF Enter, Pcs
    <3>2. CASE request[t] # "CONNECT"
      BY <1>12, <1>5, <3>2, Zenon DEF Enter, Pcs
    <3> QED  BY <3>1, <3>2
  <2> QED  BY <1>6, <2>1 DEF SingleOf
<1>13. CASE CheckUsers(t)
  <2>1. UNCHANGED userVars
    BY <1>13, Zenon DEF CheckUsers
  <2>2. pc'[t] = "look" \/ (pc'[t] = "create users" /\ usermanager = 0)
    <3>1. CASE usermanager = 0
      BY <1>13, <1>5, <3>1, Zenon DEF CheckUsers, Pcs
    <3>2. CASE usermanager # 0
      BY <1>13, <1>5, <3>2, Zenon DEF CheckUsers, Pcs
    <3> QED  BY <3>1, <3>2
  <2>3. usermanager' = usermanager
    BY <2>1 DEF userVars
  <2> QED  BY <1>6, <2>1, <2>2, <2>3 DEF SingleOf
<1>14. CASE CreateUsers(t)
  <2>1. /\ pc[t] = "create users" /\ pc'[t] = "look"
        /\ registers' = Append(registers, 0) /\ usermanager' = Len(registers')
        /\ UNCHANGED <<connected, sessions>>
    BY <1>5, <1>14, Zenon DEF CreateUsers, Pcs
  <2>2. Len(registers) = 0
    BY <1>4, <2>1 DEF SingleOf, SingleUsers
  <2>3. sessions = {}
    BY <1>1, <2>2 DEF UserTypes
  <2>4. Len(registers') = 1 /\ registers' \in Seq(Nat) /\ registers'[1] = 0
    <3>1. registers \in Seq(Nat) /\ 0 \in Nat
      BY <1>1 DEF UserTypes
    <3>2. LET r == Append(registers, 0)
          IN  r \in Seq(Nat) /\ Len(r) = Len(registers) + 1 /\ r[Len(r)] = 0
      BY <3>1, AppendSeq, Zenon
    <3>3. LET r == Append(registers, 0)
          IN  r \in Seq(Nat) /\ Len(r) = 1 /\ r[1] = 0
      BY <2>2, <3>2
    <3> QED  BY <2>1, <3>3, Zenon
  <2>5. SingleUsers'
    <3>1. DOMAIN registers' = {1}
      BY <2>4
    <3>2. Len(registers') <= 1
      BY <2>4
    <3>3. registers'[1] <= 1
      BY <2>4
    <3>4. usermanager' # 0 /\ sessions' = {}
      <4>1. usermanager' = 1 /\ sessions' = {}
        BY <2>1, <2>4, <2>3, Zenon
      <4> QED  BY <4>1
    <3> QED  BY <3>1, <3>2, <3>3, <3>4, Zenon DEF SingleUsers
  <2>6. SingleOf(t)' /\ pc[t] \in Inside
    BY <2>1 DEF SingleOf, Inside
  <2> QED  BY <1>1, <1>3, <2>5, <2>6, SingleInside
<1>15. CASE Look(t)
  <2>1. pc[t] = "look" /\ UNCHANGED userVars
    BY <1>15, Zenon DEF Look
  <2>2. usermanager = 1 /\ Len(registers) = 1 /\ registers[1] \in {0, 1}
    BY <1>7, <1>1, <2>1 DEF Places
  <2>3. CASE registers[1] = 0
    <3>1. pc'[t] = "add"
      BY <1>5, <1>15, <2>2, <2>3 DEF Look, Pcs
    <3>2. sessions = {}
      BY <1>1, <1>4, <2>2, <2>3 DEF SingleUsers, UserTypes
    <3> QED  BY <1>6, <2>1, <2>3, <3>1, <3>2 DEF SingleOf, userVars
  <2>4. CASE registers[1] = 1 /\ <<1, 1>> \in connected
    <3>1. pc'[t] = "dead"
      <4>1. leave(t, {"Error"}, "dead")
        <5>1. <<usermanager, 1>> \in connected /\ ~(registers[usermanager] = 0)
          BY <2>2, <2>4
        <5> QED  BY <1>15, <5>1, Zenon DEF Look
      <4> QED  BY <1>5, <4>1, Zenon DEF leave, Pcs
    <3> QED  BY <1>6, <2>1, <3>1 DEF SingleOf
  <2>5. CASE registers[1] = 1 /\ <<1, 1>> \notin connected
    <3>1. pc'[t] = "login"
      <4>1. goto(t, "login")
        <5>1. <<usermanager, 1>> \notin connected /\ ~(registers[usermanager] = 0)
          BY <2>2, <2>5
        <5> QED  BY <1>15, <5>1, Zenon DEF Look
      <4> QED  BY <1>5, <4>1, Zenon DEF Pcs
    <3>2. sessions = {}
      BY <1>4, <2>5 DEF SingleUsers
    <3> QED  BY <1>6, <2>1, <2>5, <3>1, <3>2 DEF SingleOf, userVars
  <2> QED  BY <2>2, <2>3, <2>4, <2>5
<1>16. CASE Add(t)
  <2>1. /\ pc[t] = "add" /\ pc'[t] = "login" /\ UNCHANGED <<usermanager, connected, sessions>>
        /\ registers' = [registers EXCEPT ![usermanager] = registers[usermanager] + 1]
    BY <1>5, <1>16, Zenon DEF Add, Pcs
  <2>2. usermanager = 1 /\ Len(registers) = 1 /\ registers[1] = 0 /\ sessions = {}
    BY <1>7, <1>1, <1>4, <2>1 DEF Places, SingleOf
  <2>3. Len(registers') = 1 /\ registers' \in Seq(Nat) /\ registers'[1] = 1
    BY <1>1, <2>1, <2>2, ExceptSeq DEF UserTypes
  <2>4. SingleUsers'
    <3>1. DOMAIN registers' = {1}
      BY <2>3
    <3>2. Len(registers') <= 1
      BY <2>3
    <3>3. registers'[1] <= 1
      BY <2>3
    <3>4. usermanager' # 0 /\ sessions' = {}
      <4>1. usermanager' = 1 /\ sessions' = {}
        BY <2>1, <2>2, <2>2, Zenon
      <4> QED  BY <4>1
    <3> QED  BY <3>1, <3>2, <3>3, <3>4, Zenon DEF SingleUsers
  <2>5. SingleOf(t)' /\ pc[t] \in Inside
    BY <2>1, <2>2, <2>3 DEF SingleOf, Inside
  <2> QED  BY <1>1, <1>3, <2>4, <2>5, SingleInside
<1>17. CASE Login(t)
  <2>1. /\ pc[t] = "login" /\ UNCHANGED <<usermanager, registers>>
        /\ leave(t, {"CONNECTED"}, "drain") \/ leave(t, {}, "dead")
    BY <1>17 DEF Login
  <2>2. usermanager = 1 /\ Len(registers) = 1 /\ registers[1] = 1 /\ sessions = {}
    BY <1>7, <1>1, <1>4, <2>1 DEF Places, SingleOf
  <2>3. /\ connected' = connected \cup {<<1, 1>>}
        /\ sessions' = {<<1, 1, t>>}
    BY <1>17, <2>2 DEF Login
  <2>4. pc'[t] \in {"drain", "dead"}
    BY <1>5, <2>1, Zenon DEF leave, Pcs
  <2>5. SingleUsers'
    <3>1. DOMAIN registers = {1}
      BY <1>1, <2>2 DEF UserTypes
    <3> QED  BY <2>1, <2>2, <2>3, <3>1 DEF SingleUsers
  <2>6. SingleOf(t)' /\ pc[t] \in Inside
    BY <2>1, <2>4 DEF SingleOf, Inside
  <2> QED  BY <1>1, <1>3, <2>5, <2>6, SingleInside
<1>18. CASE Logout(t)
  <2>1. /\ pc[t] = "logout" /\ UNCHANGED <<usermanager, registers>>
        /\ leave(t, {"disconnect", "RECIPT"}, "drain") \/ leave(t, {}, "dead")
    BY <1>18 DEF Logout
  <2>2. pc'[t] \in {"drain", "dead"}
    BY <1>5, <2>1, Zenon DEF leave, Pcs
  <2>3. \/ \E s \in sessions : sessions' = sessions \ {s}
        \/ UNCHANGED <<sessions, connected>>
    BY <1>18 DEF Logout
  <2>4. sessions' = {} \/ UNCHANGED <<sessions, connected>>
    BY <1>4, <2>3 DEF SingleUsers
  <2>5. SingleUsers'
    BY <1>4, <2>1, <2>4 DEF SingleUsers
  <2>6. SingleOf(t)' /\ pc[t] \in Inside
    BY <2>1, <2>2 DEF SingleOf, Inside
  <2> QED  BY <1>1, <1>3, <2>5, <2>6, SingleInside
<1>19. CASE Take(t) \/ SendReply(t)
  <2>1. UNCHANGED userVars
    BY <1>19, Zenon DEF Take, SendReply
  <2>2. pc'[t] \in {"drain", "send", "dead"}
    <3>1. CASE Take(t)
      BY <1>5, <3>1, Zenon DEF Take, Pcs
    <3>2. CASE SendReply(t)
      BY <1>5, <3>2, Zenon DEF SendReply, Pcs
    <3> QED  BY <1>19, <3>1, <3>2
  <2> QED  BY <1>6, <2>1, <2>2 DEF SingleOf
<1>20. CASE Stop(t)
  <2>1. UNCHANGED userVars /\ pc'[t] \in {"idle", "done"}
    <3>1. "idle" \in Pcs /\ "done" \in Pcs
      BY DEF Pcs
    <3> QED  BY <1>5, <1>20, <3>1, Zenon DEF Stop, next_request
  <2> QED  BY <1>6, <2>1 DEF SingleOf
<1> QED  BY <1>8, <1>9, <1>10, <1>11, <1>12, <1>13, <1>14, <1>15, <1>16, <1>17, <1>18,
            <1>19, <1>20 DEF Step

-----------------------------------------------------------------------------
\* A thread goes to wait for a request only when no command is left.
LEMMA CarriedOutStep ==
  ASSUME IInv, NEW t \in Threads, Step(t), ~raced'
  PROVE  \A entry \in commands' : pc'[entry[2]] \notin {"idle", "done"}
<1>1. TypeOK /\ Places /\ ManagerTypes /\ UserTypes /\ ThreadTypes
  BY TypeParts DEF IInv
<1>2. Len(monitor) \in Nat /\ Len(monitor') \in Nat
  <2>1. ManagerTypes'
    <3>1. TypeOK'
      BY <1>1, TypeStep
    <3> QED  BY <3>1, TypeParts, PTL
  <2> QED  BY <1>1, <2>1 DEF ManagerTypes
<1>3. ~raced
  BY <1>1, <1>2, ManagersStay DEF raced
<1>4. \A entry \in commands : entry[2] \in Threads /\ pc[entry[2]] \notin {"idle", "done"}
  BY <1>1, <1>3 DEF IInv, RequestsCarriedOut, ManagerTypes
<1>5. ASSUME NEW place \in Pcs, goto(t, place)  PROVE pc'[t] = place
  BY <1>1, <1>5, GotoMoves DEF ThreadTypes
<1>6. CASE Stop(t)
  <2>1. /\ pc[t] = "drain" /\ commands' = commands
        /\ \A entry \in commands : entry[1] # responsemanager
    BY <1>6 DEF Stop, next_request, managerVars
  <2>2. responsemanager = 1 /\ Len(monitor) = 1
    <3>1. responsemanager # 0
      BY <1>1, <2>1 DEF Places
    <3>2. responsemanager \in 0 .. Len(monitor) /\ ~(Len(monitor) > 1)
      BY <1>1, <1>3 DEF ManagerTypes, raced
    <3> QED  BY <1>2, <3>1, <3>2, OneOfOne, Zenon
  <2>3. \A entry \in commands : entry[1] = 1
    BY <1>1, <2>2 DEF ManagerTypes
  <2> QED  BY <2>1, <2>2, <2>3
<1>7. ASSUME pc'[t] \notin {"idle", "done"},
             \A entry \in commands' : entry \in commands \/ entry[2] = t
      PROVE  \A entry \in commands' : pc'[entry[2]] \notin {"idle", "done"}
  <2>1. ASSUME NEW u \in Threads, u # t  PROVE pc'[u] = pc[u]
    BY <1>1, <2>1, OthersStay
  <2> QED  BY <1>4, <1>7, <2>1
<1>8. ASSUME NEW place \in Pcs \ {"idle", "done"}, goto(t, place), commands' \subseteq commands
      PROVE  \A entry \in commands' : pc'[entry[2]] \notin {"idle", "done"}
  <2>1. pc'[t] = place /\ pc'[t] \notin {"idle", "done"}
    BY <1>5, <1>8
  <2> QED  BY <1>7, <1>8, <2>1
<1>9. ASSUME NEW new, NEW place \in {"dead", "drain"}, leave(t, new, place)
      PROVE  \A entry \in commands' : pc'[entry[2]] \notin {"idle", "done"}
  <2>1. pc'[t] = place
    <3>1. place \in Pcs
      BY DEF Pcs
    <3> QED  BY <1>5, <1>9, <3>1 DEF leave
  <2>2. \A entry \in commands' : entry \in commands \/ entry[2] = t
    BY <1>9 DEF leave
  <2> QED  BY <1>7, <2>1, <2>2
<1>10. CASE \E place \in Pcs \ {"idle", "done"} : goto(t, place) /\ commands' \subseteq commands
  BY <1>8, <1>10
<1>11. Receive(t) \/ Check(t) \/ Create(t) \/ Fetch(t) \/ Enter(t) \/ CheckUsers(t)
      \/ CreateUsers(t) \/ Add(t) \/ Take(t) \/ SendReply(t)
      => \E place \in Pcs \ {"idle", "done"} : goto(t, place) /\ commands' \subseteq commands
  <2> DEFINE Busy == Pcs \ {"idle", "done"}
  <2>1. /\ "check" \in Busy /\ "create" \in Busy /\ "fetch" \in Busy /\ "enter" \in Busy
        /\ "check users" \in Busy /\ "create users" \in Busy /\ "look" \in Busy
        /\ "login" \in Busy /\ "logout" \in Busy /\ "drain" \in Busy
        /\ "send" \in Busy /\ "dead" \in Busy
    BY DEF Pcs
  <2>2. Receive(t) => goto(t, "check") /\ commands' \subseteq commands
    BY DEF Receive, managerVars
  <2>3. Check(t) => (goto(t, "create") \/ goto(t, "fetch")) /\ commands' \subseteq commands
    BY DEF Check, managerVars
  <2>4. Create(t) => goto(t, "fetch") /\ commands' \subseteq commands
    BY DEF Create, userVars
  <2>5. Fetch(t) => goto(t, "enter") /\ commands' \subseteq commands
    BY DEF Fetch, managerVars
  <2>6. Enter(t) => (goto(t, "check users") \/ goto(t, "logout")) /\ commands' \subseteq commands
    BY Zenon DEF Enter
  <2>7. CheckUsers(t) => (goto(t, "create users") \/ goto(t, "look")) /\ commands' \subseteq commands
    BY DEF CheckUsers, managerVars
  <2>8. CreateUsers(t) => goto(t, "look") /\ commands' \subseteq commands
    BY DEF CreateUsers, managerVars
  <2>9. Add(t) => goto(t, "login") /\ commands' \subseteq commands
    BY DEF Add, managerVars
  <2>10. Take(t) => (goto(t, "drain") \/ goto(t, "send")) /\ commands' \subseteq commands
    BY Zenon DEF Take
  <2>11. SendReply(t) => (goto(t, "drain") \/ goto(t, "dead")) /\ commands' \subseteq commands
    BY DEF SendReply, managerVars
  <2> HIDE DEF Busy
  <2>12. Receive(t) \/ Check(t) \/ Create(t) \/ Fetch(t) \/ Enter(t) \/ CheckUsers(t)
         \/ CreateUsers(t) \/ Add(t) \/ Take(t) \/ SendReply(t)
         => \E place \in Busy : goto(t, place) /\ commands' \subseteq commands
    BY <2>1, <2>2, <2>3, <2>4, <2>5, <2>6, <2>7, <2>8, <2>9, <2>10, <2>11, Zenon
  <2> QED  BY <2>12 DEF Busy
<1>12. CASE Look(t)
  <2>1. CASE leave(t, {"Error"}, "dead")
    BY <1>9, <2>1
  <2>2. CASE (goto(t, "add") \/ goto(t, "login")) /\ UNCHANGED <<managerVars, request, mine>>
    <3>1. commands' \subseteq commands
      BY <2>2 DEF managerVars
    <3>2. "add" \in Pcs \ {"idle", "done"} /\ "login" \in Pcs \ {"idle", "done"}
      BY DEF Pcs
    <3> QED  BY <1>8, <2>2, <3>1, <3>2
  <2> QED  BY <1>12, <2>1, <2>2 DEF Look
<1>13. CASE Login(t)
  <2>1. leave(t, {"CONNECTED"}, "drain") \/ leave(t, {}, "dead")
    BY <1>13 DEF Login
  <2> QED  BY <1>9, <2>1
<1>14. CASE Logout(t)
  <2>1. leave(t, {"disconnect", "RECIPT"}, "drain") \/ leave(t, {}, "dead")
    BY <1>14 DEF Logout
  <2> QED  BY <1>9, <2>1
<1> QED  BY <1>6, <1>10, <1>11, <1>12, <1>13, <1>14, Zenon DEF Step

-----------------------------------------------------------------------------
(* The theorems.                                                            *)

\* And every step keeps it.
LEMMA LazyStep == IInv /\ [Next]_vars => IInv'
<1> SUFFICES ASSUME IInv, [Next]_vars  PROVE IInv'
  OBVIOUS
<1>1. CASE UNCHANGED vars
  BY <1>1 DEF IInv, TypeOK, Places, Single, RequestsCarriedOut, raced, vars, managerVars,
              userVars
<1>2. ASSUME NEW t \in Threads, Step(t)  PROVE IInv'
  <2>1. TypeOK' /\ Places'
    BY <1>2, TypeStep, PlacesStep DEF IInv
  <2>2. ~raced' => SingleUsers' /\ \A u \in Threads : SingleOf(u)'
    BY <1>2, SingleStep
  <2>3. Single'
    BY <2>2 DEF Single, SingleUsers, SingleOf
  <2>4. RequestsCarriedOut'
    BY <1>2, CarriedOutStep DEF RequestsCarriedOut
  <2> QED  BY <2>1, <2>3, <2>4 DEF IInv
<1> QED  BY <1>1, <1>2 DEF Next

\* The invariant holds throughout: the lock of the one ResponseManager, if there
\* is one, stands in for the locks UserManager and its singleton do not have.
THEOREM LazyInvariant == Spec => []IInv
  BY LazyInit, LazyStep, PTL DEF Spec

\* UserManagerSingleton makes one UserManager, and CreateUser one register for
\* the account, as long as one ResponseManager was made.
THEOREM UsersAreOne == Spec => []OneUserManager
<1>1. IInv => OneUserManager
  BY DEF IInv, Single, OneUserManager
<1> QED  BY <1>1, LazyInvariant, PTL

\* Two connections never share the account (check_connect_conditions, then
\* user_connect).
THEOREM LoginsAreOne == Spec => []OneLogin
<1>1. IInv => OneLogin
  BY DEF IInv, Single, OneLogin
<1> QED  BY <1>1, LazyInvariant, PTL

\* The loop of process() leaves no command of its request behind.
THEOREM CommandsAreTaken == Spec => []RequestsCarriedOut
<1>1. IInv => RequestsCarriedOut
  BY DEF IInv
<1> QED  BY <1>1, LazyInvariant, PTL

\* get_response_manager and get_user_manager create nothing once a manager is
\* there and nobody is between their test and their assignment.
THEOREM CreationEnds == Spec => RaceIsOver
<1> DEFINE Over ==
      /\ responsemanager # 0 /\ no_thread_at("create")
            => responsemanager' = responsemanager /\ no_thread_at("create")'
      /\ usermanager # 0 /\ no_thread_at("create users")
            => usermanager' = usermanager /\ no_thread_at("create users")'
<1>1. ASSUME IInv, [Next]_vars  PROVE [Over]_vars
  <2>1. SUFFICES ASSUME NEW t \in Threads, Step(t)  PROVE Over
    BY <1>1 DEF Next
  <2>2. TypeOK /\ Places /\ ThreadTypes
    BY <1>1, TypeParts DEF IInv
  <2>3. \A u \in Threads \ {t} : pc'[u] = pc[u]
    BY <2>1, <2>2, OthersStay
  <2>4. ASSUME NEW place \in Pcs, goto(t, place)  PROVE pc'[t] = place
    BY <2>2, <2>4, GotoMoves DEF ThreadTypes
  <2>5. responsemanager' = responsemanager \/ pc[t] = "create"
    BY <2>1, Zenon DEF Step, Receive, Check, Create, Fetch, Enter, CheckUsers, CreateUsers,
       Look, Add, Login, Logout, Take, SendReply, Stop, leave, next_request, managerVars
  <2>6. usermanager' = usermanager \/ pc[t] = "create users"
    BY <2>1, Zenon DEF Step, Receive, Check, Create, Fetch, Enter, CheckUsers, CreateUsers,
       Look, Add, Login, Logout, Take, SendReply, Stop, leave, next_request, userVars
  <2>7. /\ responsemanager # 0 => pc'[t] # "create"
        /\ usermanager # 0 => pc'[t] # "create users"
    <3>1. \/ Check(t) \/ CheckUsers(t)
          \/ \E place \in Pcs \ {"create", "create users"} : goto(t, place)
      <4> DEFINE Other == Pcs \ {"create", "create users"}
      <4>1. /\ "check" \in Other /\ "fetch" \in Other /\ "enter" \in Other
            /\ "check users" \in Other /\ "look" \in Other /\ "add" \in Other
            /\ "login" \in Other /\ "logout" \in Other /\ "drain" \in Other
            /\ "send" \in Other /\ "dead" \in Other /\ "idle" \in Other /\ "done" \in Other
        BY DEF Pcs
      <4> HIDE DEF Other
      <4>2. \/ Check(t) \/ CheckUsers(t) \/ \E place \in Other : goto(t, place)
        <5>1. CASE Receive(t) \/ Create(t) \/ Fetch(t) \/ CreateUsers(t) \/ Add(t)
          BY <4>1, <5>1, Zenon DEF Receive, Create, Fetch, CreateUsers, Add
        <5>2. CASE Enter(t)
          BY <4>1, <5>2, Zenon DEF Enter
        <5>3. CASE Look(t)
          BY <4>1, <5>3, Zenon DEF Look, leave
        <5>4. CASE Login(t)
          BY <4>1, <5>4, Zenon DEF Login, leave
        <5>5. CASE Logout(t)
          BY <4>1, <5>5, Zenon DEF Logout, leave
        <5>6. CASE Take(t)
          BY <4>1, <5>6, Zenon DEF Take
        <5>7. CASE SendReply(t)
          BY <4>1, <5>7, Zenon DEF SendReply
        <5>8. CASE Stop(t)
          BY <4>1, <5>8, Zenon DEF Stop, next_request
        <5> QED  BY <2>1, <5>1, <5>2, <5>3, <5>4, <5>5, <5>6, <5>7, <5>8, Zenon DEF Step
      <4> QED  BY <4>2 DEF Other
    <3>2. CASE Check(t)
      <4>1. CASE responsemanager = 0
        <5>1. pc'[t] = "create"
          BY <2>4, <3>2, <4>1, Zenon DEF Check, Pcs
        <5> QED  BY <4>1, <5>1
      <4>2. CASE responsemanager # 0
        <5>1. pc'[t] = "fetch"
          BY <2>4, <3>2, <4>2, Zenon DEF Check, Pcs
        <5> QED  BY <5>1
      <4> QED  BY <4>1, <4>2
    <3>3. CASE CheckUsers(t)
      <4>1. CASE usermanager = 0
        <5>1. pc'[t] = "create users"
          BY <2>4, <3>3, <4>1, Zenon DEF CheckUsers, Pcs
        <5> QED  BY <4>1, <5>1
      <4>2. CASE usermanager # 0
        <5>1. pc'[t] = "look"
          BY <2>4, <3>3, <4>2, Zenon DEF CheckUsers, Pcs
        <5> QED  BY <5>1
      <4> QED  BY <4>1, <4>2
    <3>4. CASE \E place \in Pcs \ {"create", "create users"} : goto(t, place)
      BY <2>4, <3>4
    <3> QED  BY <3>1, <3>2, <3>3, <3>4
  <2> QED  BY <2>3, <2>5, <2>6, <2>7 DEF no_thread_at
<1> QED  BY <1>1, LazyInvariant, PTL DEF Spec, RaceIsOver
=============================================================================
