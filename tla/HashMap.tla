------------------------------ MODULE HashMap -------------------------------
(***************************************************************************)
(* The int hash map of main/cel_hashmap.c, as far as the smart disk uses   *)
(* it (init, clear, exists, get, put, inc), and the primes of              *)
(* main/cel_math.c its table grows by.  A map is a record of the fields of *)
(* cel_hashmap_t; a bucket is the sequence of its chain's nodes.           *)
(***************************************************************************)
EXTENDS Integers, Sequences, FiniteSets

CONSTANTS
    Keys,    \* the strings used as keys
    Hash,    \* cel_hash
    Factor,  \* the load factor in percent
    MaxInt   \* the largest int, 2^31 - 1 in the code

Node == [key : Keys, num : Int]

\* cel_is_prime: the trial division stops before the root, so that the square
\* of an odd prime passes
IsPrime(n) ==
    \/ n \in {2, 3}
    \/ n > 1 /\ n % 2 = 1 /\ \A j \in 3 .. n : j * j < n => n % j # 0

\* cel_next_prime: from an odd number on by twos
NextPrime(n) ==
    LET odd   == IF n % 2 = 0 THEN n + 1 ELSE n
        ok(p) == p % 2 = 1 /\ IsPrime(p)
    IN  CHOOSE p \in odd .. MaxInt : ok(p) /\ \A q \in odd .. p - 1 : ~ok(q)

ASSUME HashMapAssumption ==
    /\ IsFiniteSet(Keys) /\ Hash \in [Keys -> Nat]
    /\ Factor \in 1 .. 100
    \* the largest int is a prime, so that every search for one ends
    /\ MaxInt \in Nat /\ MaxInt % 2 = 1 /\ IsPrime(MaxInt)
    \* the table of a map that holds every key has a length that is an int
    /\ 200 * Cardinality(Keys) <= Factor * (MaxInt - 1)

Threshold(length) == (Factor * length) \div 100

\* cel_ihashmap_init
MapInit(length) ==
    [table |-> [b \in 0 .. length - 1 |-> <<>>], length |-> length, size |-> 0,
     threshold |-> Threshold(length)]

Slot(map, k) == Hash[k] % map.length

\* the positions of key k in its chain
Hits(map, k) ==
    LET chain == map.table[Slot(map, k)]
    IN  {i \in DOMAIN chain : chain[i].key = k}
First(hits) == CHOOSE i \in hits : \A j \in hits : i <= j

\* cel_ihashmap_exists and cel_ihashmap_get
Exists(map, k) == Hits(map, k) # {}
Get(map, k) ==
    IF Exists(map, k) THEN map.table[Slot(map, k)][First(Hits(map, k))].num ELSE 0

\* where the nodes are, and the order in which rebuild_hash walks the table
Places(map)  == UNION {{b} \X DOMAIN map.table[b] : b \in DOMAIN map.table}
At(map, p)   == map.table[p[1]][p[2]]
Before(p, q) == p[1] < q[1] \/ (p[1] = q[1] /\ p[2] < q[2])

\* (mutant) the chains are taken over where they are
Rebuild_KeepsChains(map) ==
    LET length == NextPrime(map.length * 2 + 1)
    IN  [table |-> [b \in 0 .. length - 1 |->
                       IF b < map.length THEN map.table[b] ELSE <<>>],
         length |-> length, size |-> map.size, threshold |-> Threshold(length)]

\* the nodes that go to bucket b, the one that is walked last at the head
Behind(S, p) == {q \in S : Before(p, q)}
Chain(map, length, b) ==
    LET S == {p \in Places(map) : Hash[At(map, p).key] % length = b}
    IN  [i \in 1 .. Cardinality(S) |->
            At(map, CHOOSE p \in S : Cardinality(Behind(S, p)) = i - 1)]

\* rebuild_hash: each node becomes the head of its new chain
Rebuild(map) ==
    LET length == NextPrime(map.length * 2 + 1)
    IN  [table |-> [b \in 0 .. length - 1 |-> Chain(map, length, b)], length |-> length,
         size |-> map.size, threshold |-> Threshold(length)]

Updated(map, k, n) ==
    [map EXCEPT !.table[Slot(map, k)][First(Hits(map, k))].num = n]

\* cel_ihashmap_put: a new node goes to the head of its chain
Put(map, k, n) ==
    IF Exists(map, k) THEN Updated(map, k, n)
    ELSE LET grown == [map EXCEPT !.table[Slot(map, k)] = <<[key |-> k, num |-> n]>> \o @,
                                  !.size = @ + 1]
         IN  IF grown.size > grown.threshold THEN Rebuild(grown) ELSE grown

\* cel_ihashmap_inc
Inc(map, k, n) ==
    IF Exists(map, k) THEN Updated(map, k, Get(map, k) + n) ELSE map

\* cel_ihashmap_clear: the table keeps its length
Clear(map) == [map EXCEPT !.table = [b \in DOMAIN @ |-> <<>>], !.size = 0]

\* what a reader of the map sees
Contents(map) == [k \in {x \in Keys : Exists(map, x)} |-> Get(map, k)]
=============================================================================
