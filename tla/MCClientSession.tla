--------------------------- MODULE MCClientSession ---------------------------
(***************************************************************************)
(* The configurations of ClientSession: everything that can go wrong, for  *)
(* what always holds; nothing that can, for the logout that never ends.    *)
(***************************************************************************)
EXTENDS ClientSession

AllTroubles == {"refuse", "throw", "unparsable"}
=============================================================================
