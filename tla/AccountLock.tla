----------------------------- MODULE AccountLock -----------------------------
(***************************************************************************)
(* What the server promises about logging in: an account is a lock.  One   *)
(* connection at a time holds it, only the holder gives it back, and a     *)
(* connection that is gone does neither again.  A lock whose holder goes   *)
(* away with it, or takes another one on top of it, is never free again:   *)
(* the server has no session timeout.                                      *)
(***************************************************************************)
EXTENDS Naturals

CONSTANTS
    Accounts,   \* the locks
    Holders,    \* the connections that may hold one
    Free,       \* owner of an account nobody is logged in to
    Leaked      \* owner of one whose holder has moved on to another account

VARIABLES
    owner,      \* owner[a]: a holder, Free or Leaked
    gone        \* holders that will not act again

Init == owner = [a \in Accounts |-> Free] /\ gone = {}

\* h logs in to a free account; one it still holds is leaked.
Acquire(h, a) ==
    /\ h \notin gone
    /\ owner[a] = Free
    /\ owner' = [b \in Accounts |-> IF b = a THEN h
                                    ELSE IF owner[b] = h THEN Leaked
                                    ELSE owner[b]]
    /\ UNCHANGED gone

Release(h, a) ==
    /\ h \notin gone
    /\ owner[a] = h
    /\ owner' = [owner EXCEPT ![a] = Free]
    /\ UNCHANGED gone

Leave(h) ==
    /\ h \notin gone
    /\ gone' = gone \cup {h}
    /\ UNCHANGED owner

Next ==
    \/ \E h \in Holders, a \in Accounts : Acquire(h, a) \/ Release(h, a)
    \/ \E h \in Holders : Leave(h)

Spec == Init /\ [][Next]_<<owner, gone>>
=============================================================================
