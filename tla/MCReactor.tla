------------------------------ MODULE MCReactor ------------------------------
(***************************************************************************)
(* Values for model checking Reactor: the acts are the connections.        *)
(***************************************************************************)
EXTENDS Reactor

MCActs == 1 .. MaxConns
=============================================================================
