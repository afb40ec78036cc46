-------------------------- MODULE MCActorThreadPool --------------------------
(***************************************************************************)
(* Three handlers share two threads: a job waits in the executor's queue   *)
(* while each thread has one and every handler has another task pending.   *)
(***************************************************************************)
EXTENDS ActorThreadPool
=============================================================================
