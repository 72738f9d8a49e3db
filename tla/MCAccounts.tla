----------------------------- MODULE MCAccounts -----------------------------
(* Accounts on a small instance. Names but Root, subjects and threads are
   interchangeable. *)
EXTENDS Accounts, TLC

Symmetry == Permutations(Names \ {Root}) \cup Permutations(Subjects) \cup Permutations(Threads)
=============================================================================
