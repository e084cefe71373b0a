------------------------------ MODULE MCBooter ------------------------------
(* TLC instances of Booter: the pids are interchangeable. *)
EXTENDS Booter, TLC

PidSymmetry == Permutations(Pids)
=============================================================================
