------------------------------- MODULE KeyMap -------------------------------
(***************************************************************************)
(* What the int hash map of main/cel_hashmap.c promises: a function from   *)
(* the keys put so far to their numbers.  Smartdisk shows that its map of  *)
(* partition counts, with its buckets, chains and rebuilds, implements it. *)
(***************************************************************************)
EXTENDS Integers

CONSTANT Keys   \* the strings used as keys

VARIABLE m

Init == m = [k \in {} |-> 0]

Clear == m' = [k \in {} |-> 0]

Put(k, n) == m' = [x \in DOMAIN m \cup {k} |-> IF x = k THEN n ELSE m[x]]

Inc(k, n) == k \in DOMAIN m /\ m' = [m EXCEPT ![k] = @ + n]

Next == \/ Clear
        \/ \E k \in Keys : \E n \in {0, 1} : Put(k, n)
        \/ \E k \in Keys : Inc(k, 1)

Spec == Init /\ [][Next]_m
=============================================================================
