-------------------------- MODULE MCClientChannels --------------------------
(***************************************************************************)
(* Two clients and two channels.  Where the clients are to get anywhere    *)
(* both channels are numbers; football is a channel with a name.           *)
(***************************************************************************)
EXTENDS ClientChannels

CONSTANTS alice, bob

TwoAccounts == <<alice, bob>>
Numbers == {"7", "8"}
All == Numbers \cup {"football"}
NumberOf == [t \in Numbers |-> IF t = "7" THEN 7 ELSE 8]
Ids == {rand_of(n) : n \in Seconds}
WithReceipt == {TRUE}
=============================================================================
