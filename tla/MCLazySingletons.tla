-------------------------- MODULE MCLazySingletons --------------------------
(***************************************************************************)
(* Three connections: two can race for the managers while the third comes  *)
(* later.                                                                  *)
(***************************************************************************)
EXTENDS LazySingletons, TLC

CONSTANTS t1, t2, t3

ThreeThreads == {t1, t2, t3}
Symmetric == Permutations(ThreeThreads)
=============================================================================
