---------------------------- MODULE HashMapProofs ---------------------------
(***************************************************************************)
(* Proofs about HashMap, for any keys, hash codes and load factor: every   *)
(* operation keeps the table well formed and does to the contents what its *)
(* name says; a rebuild loses and doubles nothing.                         *)
(***************************************************************************)
EXTENDS HashMap, SequenceTheorems, FiniteSetTheorems, FunctionTheorems, TLAPS

-----------------------------------------------------------------------------
(***************************************************************************)
(* The length of a table.                                                  *)
(***************************************************************************)

\* The sizes that the arithmetic is about.
LEMMA MapSizes ==
    /\ Factor \in 1 .. 100 /\ MaxInt \in Nat /\ Cardinality(Keys) \in Nat
    /\ 200 * Cardinality(Keys) <= Factor * (MaxInt - 1)
    BY HashMapAssumption, FS_CardinalityType

\* A set of numbers has a least one.
LEMMA LeastNumber ==
    ASSUME NEW S \in SUBSET Nat, S # {}
    PROVE  \E i \in S : \A j \in S : i <= j
<1>1. PICK x \in S : \A y \in S : ~(<<y, x>> \in OpToRel(<, Nat))
    BY WFMin, NatLessThanWellFounded
<1>2. ASSUME NEW y \in S
      PROVE  x <= y
    <2>1. x \in Nat /\ y \in Nat
        OBVIOUS
    <2>2. ~(y < x)
        BY <1>1, <2>1 DEF OpToRel
    <2> QED
        BY <2>1, <2>2
<1> QED
    BY <1>2

\* cel_next_prime finds a prime that is not less, where there is room for one.
LEMMA NextPrimeFound ==
    ASSUME NEW n \in 1 .. MaxInt
    PROVE  NextPrime(n) \in n .. MaxInt
<1> DEFINE odd   == IF n % 2 = 0 THEN n + 1 ELSE n
           ok(p) == p % 2 = 1 /\ IsPrime(p)
           S     == {p \in odd .. MaxInt : ok(p)}
<1>1. MaxInt \in Nat /\ MaxInt % 2 = 1 /\ IsPrime(MaxInt)
    BY HashMapAssumption
<1>2. n \in Nat /\ odd \in n .. MaxInt
    BY <1>1
<1>3. MaxInt \in S
    BY <1>1, <1>2
<1>4. PICK p \in S : \A q \in S : p <= q
    <2>1. S \in SUBSET Nat
        BY <1>2
    <2> HIDE DEF S
    <2> QED
        BY <1>3, <2>1, LeastNumber
<1> HIDE DEF ok
<1>5. p \in odd .. MaxInt /\ ok(p) /\ \A q \in odd .. p - 1 : ~ok(q)
    BY <1>1, <1>2, <1>4
<1> HIDE DEF odd
<1>6. (CHOOSE x \in odd .. MaxInt : ok(x) /\ \A q \in odd .. x - 1 : ~ok(q)) \in odd .. MaxInt
    BY <1>5
<1>7. NextPrime(n) = CHOOSE x \in odd .. MaxInt : ok(x) /\ \A q \in odd .. x - 1 : ~ok(q)
    BY DEF NextPrime, odd, ok
<1> QED
    BY <1>1, <1>2, <1>6, <1>7

\* A map that is rebuilt holds too few keys for its new length to leave int.
LEMMA NewLength ==
    ASSUME NEW length \in Nat \ {0}, NEW size \in 0 .. Cardinality(Keys),
           size > Threshold(length)
    PROVE  NextPrime(length * 2 + 1) \in Nat \ {0}
<1>1. Factor * length < 100 * size
    <2>1. Factor * length \in Nat /\ size \in Nat
        BY MapSizes
    <2>2. PICK x \in Nat : x = Factor * length
        BY <2>1
    <2>3. x < 100 * ((x \div 100) + 1) /\ x \div 100 \in Nat
        BY <2>2
    <2>4. size >= (x \div 100) + 1
        BY <2>1, <2>2, <2>3 DEF Threshold
    <2> QED
        BY <2>1, <2>2, <2>3, <2>4
<1>2. Factor * (2 * length) < Factor * (MaxInt - 1)
    <2>1. 100 * size <= 100 * Cardinality(Keys)
        BY MapSizes
    <2>2. Factor * (2 * length) = 2 * (Factor * length)
        BY MapSizes
    <2> QED
        BY <1>1, <2>1, <2>2, MapSizes
<1>3. 2 * length < MaxInt - 1
    <2>1. PICK a \in Int, b \in Int : a = 2 * length /\ b = MaxInt - 1
        BY MapSizes
    <2>2. a >= b => Factor * a >= Factor * b
        BY MapSizes
    <2>3. Factor * a \in Int /\ Factor * b \in Int
        BY MapSizes
    <2> QED
        BY <1>2, <2>1, <2>2, <2>3
<1>4. PICK n \in 1 .. MaxInt : n = length * 2 + 1
    BY <1>3, MapSizes
<1>5. NextPrime(n) \in n .. MaxInt
    BY NextPrimeFound
<1> QED
    BY <1>4, <1>5, MapSizes

-----------------------------------------------------------------------------
(***************************************************************************)
(* The order of the walk.                                                  *)
(***************************************************************************)

\* Of two places one comes before the other, and the order is transitive.
LEMMA WalkOrder ==
    /\ \A p, q \in Nat \X Nat : p = q \/ Before(p, q) \/ Before(q, p)
    /\ \A p \in Nat \X Nat : ~Before(p, p)
    /\ \A p, q, r \in Nat \X Nat : Before(p, q) /\ Before(q, r) => Before(p, r)
<1>1. ASSUME NEW p \in Nat \X Nat, NEW q \in Nat \X Nat
      PROVE  p = q \/ Before(p, q) \/ Before(q, p)
    <2>1. PICK a \in Nat, b \in Nat : p = <<a, b>>
        OBVIOUS
    <2>2. PICK c \in Nat, d \in Nat : q = <<c, d>>
        OBVIOUS
    <2> QED
        BY <2>1, <2>2 DEF Before
<1>2. ASSUME NEW p \in Nat \X Nat
      PROVE  ~Before(p, p)
    BY DEF Before
<1>3. ASSUME NEW p \in Nat \X Nat, NEW q \in Nat \X Nat, NEW r \in Nat \X Nat,
             Before(p, q), Before(q, r)
      PROVE  Before(p, r)
    BY <1>3 DEF Before
<1> QED
    BY <1>1, <1>2, <1>3

\* The places of a finite set are numbered by how many of them come behind.
LEMMA WalkRanks ==
    ASSUME NEW S \in SUBSET (Nat \X Nat), IsFiniteSet(S)
    PROVE  /\ Cardinality(S) \in Nat
           /\ \A p \in S : Cardinality(Behind(S, p)) \in 0 .. Cardinality(S) - 1
           /\ \A p, q \in S :
                Cardinality(Behind(S, p)) = Cardinality(Behind(S, q)) => p = q
           /\ \A i \in 1 .. Cardinality(S) :
                \E p \in S : Cardinality(Behind(S, p)) = i - 1
<1> DEFINE n == Cardinality(S)
           rank == [p \in S |-> Cardinality(Behind(S, p))]
<1>1. n \in Nat
    BY FS_CardinalityType
<1>2. ASSUME NEW p \in S
      PROVE  /\ IsFiniteSet(Behind(S, p)) /\ rank[p] \in 0 .. n - 1
    <2>1. Behind(S, p) \subseteq S \ {p}
        BY WalkOrder DEF Behind
    <2>2. IsFiniteSet(S \ {p}) /\ Cardinality(S \ {p}) = n - 1
        BY FS_RemoveElement
    <2>3. /\ IsFiniteSet(Behind(S, p))
          /\ Cardinality(Behind(S, p)) <= Cardinality(S \ {p})
        BY <2>1, <2>2, FS_Subset
    <2>4. Cardinality(Behind(S, p)) \in Nat
        BY <2>3, FS_CardinalityType
    <2> QED
        BY <1>1, <2>2, <2>3, <2>4
<1>3. ASSUME NEW p \in S, NEW q \in S, Before(p, q)
      PROVE  rank[q] # rank[p]
    <2>1. Behind(S, q) \subseteq Behind(S, p)
        BY <1>3, WalkOrder DEF Behind
    <2>2. q \in Behind(S, p) /\ q \notin Behind(S, q)
        BY <1>3, WalkOrder DEF Behind
    <2>3. Cardinality(Behind(S, q)) # Cardinality(Behind(S, p))
        BY <1>2, <2>1, <2>2, FS_Subset
    <2> QED
        BY <2>3
<1>4. \A p, q \in S : rank[p] = rank[q] => p = q
    BY <1>3, WalkOrder
<1>5. rank \in Injection(S, 0 .. n - 1)
    <2>1. rank \in [S -> 0 .. n - 1]
        BY <1>2
    <2> HIDE DEF rank
    <2> QED
        BY <1>4, <2>1 DEF Injection, IsInjective
<1>6. IsFiniteSet(0 .. n - 1) /\ Cardinality(0 .. n - 1) = n
    <2> HIDE DEF n
    <2>1. 0 \in Int /\ n - 1 \in Int /\ (0 > n - 1 <=> n = 0) /\ n - 1 - 0 + 1 = n
        BY <1>1
    <2>2. /\ IsFiniteSet(0 .. n - 1)
          /\ Cardinality(0 .. n - 1) = IF 0 > n - 1 THEN 0 ELSE n - 1 - 0 + 1
        BY <2>1, FS_Interval
    <2> QED
        BY <1>1, <2>1, <2>2
<1>7. rank \in Surjection(S, 0 .. n - 1)
    BY <1>5, <1>6, FS_Injection
<1>8. ASSUME NEW i \in 1 .. n
      PROVE  \E p \in S : rank[p] = i - 1
    <2> HIDE DEF rank, n
    <2>1. i - 1 \in 0 .. n - 1
        BY <1>1
    <2>2. \A t \in 0 .. n - 1 : \E p \in S : rank[p] = t
        <3> DEFINE T == 0 .. n - 1
        <3>1. rank \in Surjection(S, T)
            BY <1>7
        <3> HIDE DEF T
        <3>2. \A t \in T : \E p \in S : rank[p] = t
            BY <3>1 DEF Surjection
        <3> QED
            BY <3>2 DEF T
    <2> QED
        BY <2>1, <2>2
<1> QED
    BY <1>1, <1>2, <1>4, <1>8

-----------------------------------------------------------------------------
(***************************************************************************)
(* Well-formed maps.                                                       *)
(***************************************************************************)

\* A chain holds nodes of its bucket, each key once.
SoundChain(chain, b, length) ==
    /\ chain \in Seq(Node)
    /\ \A i \in DOMAIN chain : Hash[chain[i].key] % length = b
    /\ \A i, j \in DOMAIN chain : chain[i].key = chain[j].key => i = j

Buckets(map) == 0 .. map.length - 1

Sound(map) ==
    /\ map = [table |-> map.table, length |-> map.length, size |-> map.size,
              threshold |-> map.threshold]
    /\ map.length \in Nat \ {0}
    /\ map.threshold = Threshold(map.length)
    /\ DOMAIN map.table = Buckets(map)
    /\ map.table = [b \in Buckets(map) |-> map.table[b]]
    /\ \A b \in Buckets(map) : SoundChain(map.table[b], b, map.length)

\* The keys of a map, which its size counts.
Held(map) == {k \in Keys : Exists(map, k)}

WellFormed(map) == Sound(map) /\ map.size = Cardinality(Held(map))

\* What membership in Node says.
LEMMA NodeFacts ==
    ASSUME NEW x \in Node
    PROVE  x.key \in Keys /\ x.num \in Int
    BY DEF Node

\* A hash code chooses a bucket.
LEMMA BucketOf ==
    ASSUME NEW k \in Keys, NEW length \in Nat \ {0}
    PROVE  Hash[k] % length \in 0 .. length - 1
<1>1. PICK h \in Nat : h = Hash[k]
    BY HashMapAssumption
<1>2. h % length \in 0 .. length - 1
    OBVIOUS
<1> QED
    BY <1>1, <1>2

\* A node is found by its key, and nothing else is.
LEMMA Lookup ==
    ASSUME NEW map, Sound(map), NEW b \in Buckets(map), NEW i \in DOMAIN map.table[b]
    PROVE  LET x == map.table[b][i]
           IN  /\ x \in Node /\ x.key \in Held(map)
               /\ Slot(map, x.key) = b /\ Hits(map, x.key) = {i}
               /\ First(Hits(map, x.key)) = i /\ Get(map, x.key) = x.num
<1> DEFINE chain == map.table[b]
           x     == chain[i]
<1>1. SoundChain(chain, b, map.length)
    BY DEF Sound
<1>2. DOMAIN chain = 1 .. Len(chain) /\ Len(chain) \in Nat /\ x \in Node /\ i \in Int
    <2>1. chain \in Seq(Node) /\ i \in DOMAIN chain
        BY <1>1 DEF SoundChain
    <2> HIDE DEF chain
    <2> QED
        BY <2>1, LenProperties, ElementOfSeq
<1>3. x.key \in Keys /\ Slot(map, x.key) = b
    BY <1>1, <1>2, NodeFacts DEF SoundChain, Slot
<1>4. Hits(map, x.key) = {j \in DOMAIN chain : chain[j].key = x.key}
    BY <1>3 DEF Hits
<1>5. Hits(map, x.key) = {i}
    BY <1>1, <1>4 DEF SoundChain
<1>6. First({i}) = i
    BY <1>2 DEF First
<1>7. Exists(map, x.key)
    BY <1>5 DEF Exists
<1>8. Get(map, x.key) = x.num
    BY <1>3, <1>5, <1>6, <1>7 DEF Get
<1> QED
    BY <1>2, <1>3, <1>5, <1>6, <1>7, <1>8 DEF Held

\* A key that is held has a node.
LEMMA HeldHasNode ==
    ASSUME NEW map, Sound(map), NEW k \in Held(map)
    PROVE  /\ Slot(map, k) \in Buckets(map)
           /\ \E i \in DOMAIN map.table[Slot(map, k)] : map.table[Slot(map, k)][i].key = k
<1>1. k \in Keys /\ Hits(map, k) # {}
    BY DEF Held, Exists
<1>2. Slot(map, k) \in Buckets(map)
    BY <1>1, BucketOf DEF Slot, Buckets, Sound
<1>3. \E i \in DOMAIN map.table[Slot(map, k)] : map.table[Slot(map, k)][i].key = k
    BY <1>1 DEF Hits
<1> QED
    BY <1>2, <1>3

\* The keys of a map are finitely many.
LEMMA HeldFinite ==
    ASSUME NEW map
    PROVE  /\ IsFiniteSet(Held(map))
           /\ Cardinality(Held(map)) \in 0 .. Cardinality(Keys)
<1>1. Held(map) \subseteq Keys /\ IsFiniteSet(Keys)
    BY HashMapAssumption DEF Held
<1>2. IsFiniteSet(Held(map)) /\ Cardinality(Held(map)) <= Cardinality(Keys)
    BY <1>1, FS_Subset
<1>3. Cardinality(Held(map)) \in Nat /\ Cardinality(Keys) \in Nat
    BY <1>1, <1>2, FS_CardinalityType
<1> QED
    BY <1>2, <1>3

\* What a reader sees: for each key that is held the number of its node.
LEMMA ContentsFacts ==
    ASSUME NEW map
    PROVE  /\ DOMAIN Contents(map) = Held(map)
           /\ \A k \in Held(map) : Contents(map)[k] = Get(map, k)
           /\ Contents(map) = [k \in Held(map) |-> Contents(map)[k]]
    BY DEF Contents, Held

\* The nodes are as many as the keys.
LEMMA PlacesCounted ==
    ASSUME NEW map, Sound(map)
    PROVE  /\ IsFiniteSet(Places(map))
           /\ Cardinality(Places(map)) = Cardinality(Held(map))
           /\ Places(map) \subseteq Nat \X Nat
           /\ \A p \in Places(map) : /\ p[1] \in Buckets(map)
                                     /\ p[2] \in DOMAIN map.table[p[1]]
                                     /\ At(map, p) \in Node
                                     /\ At(map, p).key \in Held(map)
           /\ \A p, q \in Places(map) : At(map, p).key = At(map, q).key => p = q
           /\ \A k \in Held(map) : \E p \in Places(map) : At(map, p).key = k
<1> DEFINE P == Places(map)
           f == [p \in P |-> At(map, p).key]
<1>1. \A p : p \in P <=> \E b \in Buckets(map) : \E i \in DOMAIN map.table[b] : p = <<b, i>>
    BY DEF Places, Sound
<1>2. ASSUME NEW b \in Buckets(map), NEW i \in DOMAIN map.table[b]
      PROVE  /\ b \in Nat /\ i \in Nat
             /\ At(map, <<b, i>>) = map.table[b][i]
             /\ At(map, <<b, i>>) \in Node /\ At(map, <<b, i>>).key \in Held(map)
             /\ Slot(map, At(map, <<b, i>>).key) = b
             /\ Hits(map, At(map, <<b, i>>).key) = {i}
    <2>1. At(map, <<b, i>>) = map.table[b][i]
        BY DEF At
    <2>2. b \in Nat
        BY DEF Buckets, Sound
    <2>3. i \in Nat
        <3>1. map.table[b] \in Seq(Node)
            BY DEF Sound, SoundChain
        <3> QED
            BY <3>1, LenProperties
    <2> QED
        BY <2>1, <2>2, <2>3, Lookup
<1>3. ASSUME NEW p \in P
      PROVE  /\ p \in Nat \X Nat
             /\ p[1] \in Buckets(map) /\ p[2] \in DOMAIN map.table[p[1]]
             /\ At(map, p) \in Node /\ At(map, p).key \in Held(map)
    <2>1. PICK b \in Buckets(map) : \E i \in DOMAIN map.table[b] : p = <<b, i>>
        BY <1>1
    <2>2. PICK i \in DOMAIN map.table[b] : p = <<b, i>>
        BY <2>1
    <2> QED
        BY <1>2, <2>2
<1>4. ASSUME NEW p \in P, NEW q \in P, At(map, p).key = At(map, q).key
      PROVE  p = q
    <2>1. PICK b \in Buckets(map) : \E i \in DOMAIN map.table[b] : p = <<b, i>>
        BY <1>1
    <2>2. PICK i \in DOMAIN map.table[b] : p = <<b, i>>
        BY <2>1
    <2>3. PICK c \in Buckets(map) : \E j \in DOMAIN map.table[c] : q = <<c, j>>
        BY <1>1
    <2>4. PICK j \in DOMAIN map.table[c] : q = <<c, j>>
        BY <2>3
    <2>5. b = c /\ {i} = {j}
        BY <1>2, <1>4, <2>2, <2>4
    <2> QED
        BY <2>2, <2>4, <2>5
<1>5. ASSUME NEW k \in Held(map)
      PROVE  \E p \in P : At(map, p).key = k
    <2> DEFINE b == Slot(map, k)
    <2>1. PICK i \in DOMAIN map.table[b] : map.table[b][i].key = k
        BY HeldHasNode
    <2>2. b \in Buckets(map)
        BY HeldHasNode
    <2> HIDE DEF b
    <2>3. <<b, i>> \in P
        BY <1>1, <2>1, <2>2
    <2> QED
        BY <1>2, <2>1, <2>2, <2>3
<1> HIDE DEF P
<1>6. f \in Injection(P, Held(map)) /\ f \in Surjection(P, Held(map))
    <2>1. f \in [P -> Held(map)]
        BY <1>3
    <2>2. \A p, q \in P : f[p] = f[q] => p = q
        BY <1>4
    <2>3. \A k \in Held(map) : \E p \in P : f[p] = k
        BY <1>5
    <2> HIDE DEF f
    <2>4. f \in Injection(P, Held(map))
        BY <2>1, <2>2 DEF Injection, IsInjective
    <2>5. f \in Surjection(P, Held(map))
        BY <2>1, <2>3 DEF Surjection
    <2> QED
        BY <2>4, <2>5
<1>7. IsFiniteSet(P) /\ Cardinality(P) = Cardinality(Held(map))
    BY <1>6, HeldFinite, FS_Injection
<1> QED
    BY <1>3, <1>4, <1>5, <1>7 DEF P

-----------------------------------------------------------------------------
(***************************************************************************)
(* The rebuild.                                                            *)
(***************************************************************************)

\* A new chain holds the nodes that belong to it, each once.
LEMMA ChainOf ==
    ASSUME NEW map, Sound(map), NEW length \in Nat \ {0}, NEW b \in 0 .. length - 1
    PROVE  LET chain == Chain(map, length, b)
           IN  /\ SoundChain(chain, b, length)
               /\ \A i \in DOMAIN chain : \E p \in Places(map) : chain[i] = At(map, p)
               /\ \A p \in Places(map) :
                    Hash[At(map, p).key] % length = b =>
                        \E i \in DOMAIN chain : chain[i] = At(map, p)
<1> DEFINE S      == {p \in Places(map) : Hash[At(map, p).key] % length = b}
           n      == Cardinality(S)
           pth(i) == CHOOSE p \in S : Cardinality(Behind(S, p)) = i - 1
           chain  == [i \in 1 .. n |-> At(map, pth(i))]
<1>1. Chain(map, length, b) = chain
    BY DEF Chain
<1>2. S \subseteq Places(map) /\ \A p \in S : Hash[At(map, p).key] % length = b
    OBVIOUS
<1>3. \A p \in Places(map) : Hash[At(map, p).key] % length = b => p \in S
    OBVIOUS
<1> HIDE DEF S
<1>4. IsFiniteSet(S) /\ S \in SUBSET (Nat \X Nat)
    BY <1>2, PlacesCounted, FS_Subset
<1>5. /\ n \in Nat
      /\ \A p \in S : Cardinality(Behind(S, p)) \in 0 .. n - 1
      /\ \A p, q \in S : Cardinality(Behind(S, p)) = Cardinality(Behind(S, q)) => p = q
      /\ \A i \in 1 .. n : \E p \in S : Cardinality(Behind(S, p)) = i - 1
    BY <1>4, WalkRanks
<1> HIDE DEF n
<1>6. ASSUME NEW i \in 1 .. n
      PROVE  pth(i) \in S /\ Cardinality(Behind(S, pth(i))) = i - 1
    BY <1>5
<1>7. ASSUME NEW p \in S
      PROVE  \E i \in 1 .. n : pth(i) = p
    <2>1. PICK i \in 1 .. n : Cardinality(Behind(S, p)) = i - 1
        <3>1. Cardinality(Behind(S, p)) + 1 \in 1 .. n
            BY <1>5
        <3> QED
            BY <1>5, <3>1
    <2>2. pth(i) \in S /\ Cardinality(Behind(S, pth(i))) = i - 1
        BY <1>6
    <2> HIDE DEF pth
    <2> QED
        BY <1>5, <2>1, <2>2
<1> HIDE DEF pth
<1>8. \A i \in 1 .. n : chain[i] = At(map, pth(i)) /\ pth(i) \in Places(map)
    BY <1>2, <1>6
<1>9. chain \in Seq(Node) /\ DOMAIN chain = 1 .. n
    <2>1. \A i \in 1 .. n : At(map, pth(i)) \in Node
        BY <1>8, PlacesCounted
    <2> QED
        BY <1>5, <2>1, IsASeq
<1> HIDE DEF chain
<1>10. \A i \in 1 .. n : Hash[chain[i].key] % length = b
    BY <1>2, <1>6, <1>8
<1>11. ASSUME NEW i \in 1 .. n, NEW j \in 1 .. n, chain[i].key = chain[j].key
       PROVE  i = j
    <2>1. pth(i) = pth(j)
        BY <1>8, <1>11, PlacesCounted
    <2>2. i - 1 = j - 1
        BY <1>6, <2>1
    <2> QED
        BY <1>5, <2>2
<1>12. SoundChain(chain, b, length)
    BY <1>9, <1>10, <1>11 DEF SoundChain
<1>13. \A i \in DOMAIN chain : \E p \in Places(map) : chain[i] = At(map, p)
    BY <1>8, <1>9
<1>14. \A p \in Places(map) : Hash[At(map, p).key] % length = b =>
                                  \E i \in DOMAIN chain : chain[i] = At(map, p)
    BY <1>3, <1>7, <1>8, <1>9
<1> QED
    BY <1>1, <1>12, <1>13, <1>14

\* A rebuild keeps every key with its number, and the size that counts them.
LEMMA RebuildKeeps ==
    ASSUME NEW map, Sound(map), NextPrime(map.length * 2 + 1) \in Nat \ {0}
    PROVE  LET r == Rebuild(map)
           IN  /\ Sound(r) /\ r.size = map.size
               /\ Held(r) = Held(map)
               /\ \A k \in Held(map) : Get(r, k) = Get(map, k)
<1> DEFINE length == NextPrime(map.length * 2 + 1)
           table  == [b \in 0 .. length - 1 |-> Chain(map, length, b)]
           r      == Rebuild(map)
<1>1. r = [table |-> table, length |-> length, size |-> map.size,
           threshold |-> Threshold(length)]
    BY DEF Rebuild
<1>2. length \in Nat \ {0}
    OBVIOUS
<1> HIDE DEF length
<1>3. /\ DOMAIN table = 0 .. length - 1
      /\ \A b \in 0 .. length - 1 : table[b] = Chain(map, length, b)
      /\ table = [b \in 0 .. length - 1 |-> table[b]]
    OBVIOUS
<1> HIDE DEF table, r
<1>4. /\ r.table = table /\ r.length = length /\ r.size = map.size
      /\ r.threshold = Threshold(length) /\ Buckets(r) = 0 .. length - 1
      /\ r = [table |-> r.table, length |-> r.length, size |-> r.size,
              threshold |-> r.threshold]
    BY <1>1 DEF Buckets
<1>5. \A b \in 0 .. length - 1 : SoundChain(table[b], b, length)
    BY <1>2, <1>3, ChainOf
<1>6. Sound(r)
    BY <1>2, <1>3, <1>4, <1>5 DEF Sound
<1>7. ASSUME NEW k \in Held(r)
      PROVE  k \in Held(map)
    <2> DEFINE b == Slot(r, k)
    <2>1. b \in 0 .. length - 1
        BY <1>4, <1>6, HeldHasNode
    <2>2. PICK i \in DOMAIN r.table[b] : r.table[b][i].key = k
        BY <1>6, HeldHasNode
    <2> HIDE DEF b
    <2>3. i \in DOMAIN Chain(map, length, b) /\ Chain(map, length, b)[i].key = k
        BY <1>3, <1>4, <2>1, <2>2
    <2>4. PICK p \in Places(map) : Chain(map, length, b)[i] = At(map, p)
        BY <1>2, <2>1, <2>3, ChainOf
    <2> QED
        BY <2>3, <2>4, PlacesCounted
<1>8. ASSUME NEW k \in Held(map)
      PROVE  k \in Held(r) /\ Get(r, k) = Get(map, k)
    <2> DEFINE b == Hash[k] % length
    <2>1. b \in 0 .. length - 1
        BY <1>2, BucketOf DEF Held
    <2>2. PICK p \in Places(map) : At(map, p).key = k
        BY PlacesCounted
    <2>3. PICK i \in DOMAIN Chain(map, length, b) : Chain(map, length, b)[i] = At(map, p)
        BY <1>2, <2>1, <2>2, ChainOf
    <2> HIDE DEF b
    <2>4. b \in Buckets(r) /\ i \in DOMAIN r.table[b] /\ r.table[b][i] = At(map, p)
        BY <1>3, <1>4, <2>1, <2>3
    <2>5. k \in Held(r) /\ Get(r, k) = At(map, p).num
        BY <1>6, <2>2, <2>4, Lookup
    <2>6. Get(map, k) = At(map, p).num
        <3>1. p[1] \in Buckets(map) /\ p[2] \in DOMAIN map.table[p[1]]
            BY PlacesCounted
        <3>2. At(map, p) = map.table[p[1]][p[2]]
            BY DEF At
        <3> QED
            BY <2>2, <3>1, <3>2, Lookup
    <2> QED
        BY <2>5, <2>6
<1> QED
    BY <1>4, <1>6, <1>7, <1>8 DEF r

-----------------------------------------------------------------------------
(***************************************************************************)
(* The operations.                                                         *)
(***************************************************************************)

\* cel_ihashmap_init makes an empty map.
LEMMA InitEmpty ==
    ASSUME NEW n \in Nat \ {0}
    PROVE  LET map == MapInit(n)
           IN  WellFormed(map) /\ Contents(map) = [k \in {} |-> 0]
<1> DEFINE map == MapInit(n)
<1>1. /\ map.length = n /\ map.size = 0 /\ map.threshold = Threshold(n)
      /\ map.table = [b \in 0 .. n - 1 |-> <<>>] /\ Buckets(map) = 0 .. n - 1
      /\ map = [table |-> map.table, length |-> map.length, size |-> map.size,
                threshold |-> map.threshold]
    BY DEF MapInit, Buckets
<1> HIDE DEF map
<1>2. \A b \in 0 .. n - 1 : map.table[b] = <<>>
    BY <1>1
<1>3. ASSUME NEW b
      PROVE  SoundChain(<<>>, b, n)
    BY DEF SoundChain
<1>4. Sound(map)
    BY <1>1, <1>2, <1>3 DEF Sound
<1>5. Held(map) = {}
    <2>1. ASSUME NEW k \in Held(map)
          PROVE  FALSE
        BY <1>1, <1>2, <1>4, HeldHasNode
    <2> QED
        BY <2>1
<1>6. WellFormed(map)
    BY <1>1, <1>4, <1>5, FS_EmptySet DEF WellFormed
<1>7. Contents(map) = [k \in {} |-> 0]
    BY <1>5 DEF Contents, Held
<1> QED
    BY <1>6, <1>7 DEF map

\* cel_ihashmap_clear makes a map empty.
LEMMA ClearEmpty ==
    ASSUME NEW map, WellFormed(map)
    PROVE  LET c == Clear(map)
           IN  WellFormed(c) /\ Contents(c) = [k \in {} |-> 0]
<1> DEFINE c == Clear(map)
<1>1. /\ c.length = map.length /\ c.size = 0 /\ c.threshold = map.threshold
      /\ c.table = [b \in DOMAIN map.table |-> <<>>]
      /\ c = [table |-> c.table, length |-> c.length, size |-> c.size,
              threshold |-> c.threshold]
    <2> DEFINE t == [b \in DOMAIN map.table |-> <<>>]
    <2>1. c = [map EXCEPT !.table = t, !.size = 0]
        BY DEF Clear
    <2> HIDE DEF t, c
    <2>2. map = [table |-> map.table, length |-> map.length, size |-> map.size,
                 threshold |-> map.threshold]
        BY DEF WellFormed, Sound
    <2>3. c = [table |-> t, length |-> map.length, size |-> 0, threshold |-> map.threshold]
        BY <2>1, <2>2
    <2> QED
        BY <2>3 DEF t
<1> HIDE DEF c
<1>2. /\ map.length \in Nat \ {0} /\ map.threshold = Threshold(map.length)
      /\ DOMAIN map.table = Buckets(map) /\ Buckets(c) = Buckets(map)
    BY <1>1 DEF WellFormed, Sound, Buckets
<1>3. \A b \in Buckets(c) : c.table[b] = <<>>
    BY <1>1, <1>2
<1>4. ASSUME NEW b
      PROVE  SoundChain(<<>>, b, c.length)
    BY DEF SoundChain
<1>5. Sound(c)
    BY <1>1, <1>2, <1>3, <1>4 DEF Sound
<1>6. Held(c) = {}
    <2>1. ASSUME NEW k \in Held(c)
          PROVE  FALSE
        BY <1>3, <1>5, HeldHasNode
    <2> QED
        BY <2>1
<1>7. WellFormed(c)
    BY <1>1, <1>5, <1>6, FS_EmptySet DEF WellFormed
<1>8. Contents(c) = [k \in {} |-> 0]
    BY <1>6 DEF Contents, Held
<1> QED
    BY <1>7, <1>8 DEF c

\* Two sound maps that differ in one chain only agree on the keys of the others.
LEMMA OtherChains ==
    ASSUME NEW map, NEW other, NEW k \in Keys,
           other.length = map.length,
           other.table[Slot(map, k)] = map.table[Slot(map, k)]
    PROVE  (k \in Held(other) <=> k \in Held(map)) /\ Get(other, k) = Get(map, k)
    BY DEF Held, Exists, Get, Hits, Slot

\* A key that is put where it was takes the new number, and no other does.
LEMMA UpdatedKeeps ==
    ASSUME NEW map, WellFormed(map), NEW k \in Held(map), NEW n \in Int
    PROVE  LET u == Updated(map, k, n)
           IN  /\ WellFormed(u) /\ Held(u) = Held(map)
               /\ Get(u, k) = n
               /\ \A x \in Held(map) \ {k} : Get(u, x) = Get(map, x)
<1> DEFINE b     == Slot(map, k)
           chain == map.table[b]
           u     == Updated(map, k, n)
<1>1. Sound(map) /\ b \in Buckets(map) /\ DOMAIN map.table = Buckets(map)
    BY HeldHasNode DEF WellFormed, Sound
<1>2. PICK i \in DOMAIN chain : chain[i].key = k
    BY <1>1, HeldHasNode
<1>3. /\ SoundChain(chain, b, map.length) /\ chain[i] \in Node
      /\ First(Hits(map, k)) = i
    BY <1>1, <1>2, Lookup DEF Sound
<1> DEFINE x    == [chain[i] EXCEPT !.num = n]
           new  == [chain EXCEPT ![i] = x]
<1>4. u = [map EXCEPT !.table = [map.table EXCEPT ![b] = new]]
    BY <1>1, <1>3 DEF Updated
<1>5. x \in Node /\ x.key = k /\ x.num = n
    BY <1>2, <1>3 DEF Node
<1>6. /\ DOMAIN new = DOMAIN chain /\ new[i] = x
      /\ \A j \in DOMAIN chain : new[j].key = chain[j].key
      /\ \A j \in DOMAIN chain : j # i => new[j] = chain[j]
    BY <1>2, <1>5
<1>7. SoundChain(new, b, map.length)
    <2>1. new \in Seq(Node)
        <3>1. chain \in Seq(Node)
            BY <1>3 DEF SoundChain
        <3> HIDE DEF chain, x
        <3> QED
            BY <1>5, <3>1
    <2> HIDE DEF new
    <2> QED
        BY <1>3, <1>6, <2>1 DEF SoundChain
<1>8. /\ u.length = map.length /\ u.size = map.size /\ u.threshold = map.threshold
      /\ u.table = [map.table EXCEPT ![b] = new]
      /\ u = [table |-> u.table, length |-> u.length, size |-> u.size,
              threshold |-> u.threshold]
    BY <1>1, <1>4 DEF Sound
<1> HIDE DEF u, new, x
<1>9. /\ DOMAIN u.table = Buckets(u) /\ Buckets(u) = Buckets(map) /\ u.table[b] = new
      /\ \A c \in Buckets(map) : c # b => u.table[c] = map.table[c]
    BY <1>1, <1>8 DEF Buckets
<1>10. Sound(u)
    <2>1. u.table = [c \in Buckets(u) |-> u.table[c]]
        BY <1>1, <1>8, <1>9 DEF Sound
    <2> QED
        BY <1>1, <1>7, <1>8, <1>9, <2>1 DEF Sound
<1>11. k \in Held(u) /\ Get(u, k) = n
    BY <1>1, <1>2, <1>5, <1>6, <1>9, <1>10, Lookup
<1>12. ASSUME NEW y \in Keys, y # k
       PROVE  (y \in Held(u) <=> y \in Held(map)) /\ (y \in Held(map) => Get(u, y) = Get(map, y))
    <2> DEFINE c == Slot(map, y)
    <2>1. c \in Buckets(map)
        BY <1>1, BucketOf DEF Slot, Buckets, Sound
    <2>2. CASE c # b
        BY <1>8, <1>9, <2>1, <2>2, OtherChains
    <2>3. CASE c = b
        <3>1. Slot(u, y) = b /\ Slot(map, y) = b
            BY <1>8, <2>3 DEF Slot
        <3>2. ASSUME y \in Held(u)
              PROVE  y \in Held(map)
            <4>1. PICK j \in DOMAIN new : new[j].key = y
                BY <1>9, <1>10, <3>1, <3>2, HeldHasNode
            <4>2. j \in DOMAIN chain /\ chain[j].key = y
                BY <1>6, <4>1
            <4> QED
                BY <1>1, <4>2, Lookup
        <3>3. ASSUME y \in Held(map)
              PROVE  y \in Held(u) /\ Get(u, y) = Get(map, y)
            <4>1. PICK j \in DOMAIN chain : chain[j].key = y
                BY <1>1, <3>1, <3>3, HeldHasNode
            <4>2. j # i /\ new[j] = chain[j] /\ j \in DOMAIN new
                BY <1>2, <1>6, <1>12, <4>1
            <4>3. Get(map, y) = chain[j].num
                BY <1>1, <4>1, Lookup
            <4>4. y \in Held(u) /\ Get(u, y) = new[j].num
                BY <1>1, <1>9, <1>10, <4>1, <4>2, Lookup
            <4> QED
                BY <4>2, <4>3, <4>4
        <3> QED
            BY <3>2, <3>3
    <2> QED
        BY <2>2, <2>3
<1>13. Held(u) = Held(map)
    <2>1. Held(u) \subseteq Keys /\ Held(map) \subseteq Keys
        BY DEF Held
    <2> QED
        BY <1>11, <1>12, <2>1
<1>14. WellFormed(u)
    BY <1>8, <1>10, <1>13 DEF WellFormed
<1>15. \A y \in Held(map) \ {k} : Get(u, y) = Get(map, y)
    BY <1>12 DEF Held
<1> QED
    BY <1>11, <1>13, <1>14, <1>15 DEF u

\* The table with a new node, before it is looked at whether it has grown too
\* full.
Grown(map, k, n) ==
    [map EXCEPT !.table[Slot(map, k)] = <<[key |-> k, num |-> n]>> \o @, !.size = @ + 1]

\* A chain with a new node at its head.
LEMMA ChainGrows ==
    ASSUME NEW chain, NEW x \in Node, NEW b, NEW length, SoundChain(chain, b, length),
           Hash[x.key] % length = b, \A i \in DOMAIN chain : chain[i].key # x.key
    PROVE  LET new == <<x>> \o chain
           IN  /\ SoundChain(new, b, length)
               /\ DOMAIN chain = 1 .. Len(chain) /\ DOMAIN new = 1 .. Len(chain) + 1
               /\ Len(chain) \in Nat
               /\ new[1] = x /\ \A i \in DOMAIN chain : new[i + 1] = chain[i]
<1> DEFINE new == <<x>> \o chain
<1>1. chain \in Seq(Node) /\ DOMAIN chain = 1 .. Len(chain) /\ Len(chain) \in Nat
    BY LenProperties DEF SoundChain
<1>2. /\ new \in Seq(Node) /\ Len(new) = Len(chain) + 1
      /\ \A i \in 1 .. Len(chain) + 1 : new[i] = IF i = 1 THEN x ELSE chain[i - 1]
    <2>1. <<x>> \in Seq(Node) /\ Len(<<x>>) = 1 /\ <<x>>[1] = x
        OBVIOUS
    <2> DEFINE s == <<x>>
    <2> HIDE DEF s
    <2>2. s \in Seq(Node) /\ Len(s) = 1 /\ s[1] = x
        BY <2>1 DEF s
    <2>3. /\ s \o chain \in Seq(Node) /\ Len(s \o chain) = Len(s) + Len(chain)
          /\ \A i \in 1 .. Len(s) + Len(chain) :
                (s \o chain)[i] = IF i <= Len(s) THEN s[i] ELSE chain[i - Len(s)]
        BY <1>1, <2>2, ConcatProperties
    <2>4. new = s \o chain
        BY DEF s
    <2> HIDE DEF new
    <2> QED
        BY <1>1, <2>2, <2>3, <2>4
<1> HIDE DEF new
<1>3. DOMAIN new = 1 .. Len(chain) + 1
    BY <1>1, <1>2, LenProperties
<1>4. new[1] = x /\ \A i \in DOMAIN chain : new[i + 1] = chain[i]
    BY <1>1, <1>2
<1>5. ASSUME NEW i \in DOMAIN new
      PROVE  Hash[new[i].key] % length = b
    <2>1. CASE i = 1
        BY <1>4, <2>1
    <2>2. CASE i # 1
        <3>1. i - 1 \in DOMAIN chain /\ new[i] = chain[i - 1]
            BY <1>1, <1>2, <1>3, <2>2
        <3> QED
            BY <3>1 DEF SoundChain
    <2> QED
        BY <2>1, <2>2
<1>6. ASSUME NEW i \in DOMAIN new, NEW j \in DOMAIN new, new[i].key = new[j].key
      PROVE  i = j
    <2>1. CASE i = 1 /\ j = 1
        BY <2>1
    <2>2. CASE i = 1 /\ j # 1
        BY <1>1, <1>2, <1>3, <1>6, <2>2
    <2>3. CASE i # 1 /\ j = 1
        BY <1>1, <1>2, <1>3, <1>6, <2>3
    <2>4. CASE i # 1 /\ j # 1
        <3>1. /\ i - 1 \in DOMAIN chain /\ j - 1 \in DOMAIN chain
              /\ new[i] = chain[i - 1] /\ new[j] = chain[j - 1]
            BY <1>1, <1>2, <1>3, <2>4
        <3>2. i - 1 = j - 1
            BY <1>6, <3>1 DEF SoundChain
        <3> QED
            BY <1>1, <1>3, <3>2
    <2> QED
        BY <2>1, <2>2, <2>3, <2>4
<1>7. SoundChain(new, b, length)
    BY <1>2, <1>5, <1>6 DEF SoundChain
<1> QED
    BY <1>1, <1>3, <1>4, <1>7 DEF new

\* A new node adds its key with its number, and no other.
LEMMA GrownAdds ==
    ASSUME NEW map, WellFormed(map), NEW k \in Keys, k \notin Held(map), NEW n \in Int
    PROVE  LET g == Grown(map, k, n)
           IN  /\ WellFormed(g) /\ g.length = map.length /\ g.threshold = map.threshold
               /\ Held(g) = Held(map) \cup {k}
               /\ Get(g, k) = n
               /\ \A y \in Held(map) : Get(g, y) = Get(map, y)
<1> DEFINE b     == Slot(map, k)
           chain == map.table[b]
           x     == [key |-> k, num |-> n]
           new   == <<x>> \o chain
           g     == Grown(map, k, n)
<1>1. Sound(map) /\ b \in Buckets(map) /\ DOMAIN map.table = Buckets(map)
    BY BucketOf DEF WellFormed, Sound, Slot, Buckets
<1>2. x \in Node /\ x.key = k /\ x.num = n
    BY DEF Node
<1>3. \A i \in DOMAIN chain : chain[i].key # k
    BY <1>1, Lookup
<1>4. SoundChain(chain, b, map.length) /\ Hash[x.key] % map.length = b
    BY <1>1, <1>2 DEF Sound, Slot
<1>5. /\ SoundChain(new, b, map.length)
      /\ DOMAIN chain = 1 .. Len(chain) /\ DOMAIN new = 1 .. Len(chain) + 1
      /\ Len(chain) \in Nat
      /\ new[1] = x /\ \A i \in DOMAIN chain : new[i + 1] = chain[i]
    <2> HIDE DEF chain, x, b
    <2> QED
        BY <1>2, <1>3, <1>4, ChainGrows
<1>6. \A j \in DOMAIN new : j # 1 => j - 1 \in DOMAIN chain /\ new[j] = chain[j - 1]
    <2> HIDE DEF new, chain, x
    <2>1. ASSUME NEW j \in DOMAIN new, j # 1
          PROVE  j - 1 \in DOMAIN chain /\ new[j] = chain[j - 1]
        <3>1. j \in Int /\ j - 1 \in DOMAIN chain /\ (j - 1) + 1 = j
            BY <1>5, <2>1
        <3> QED
            BY <1>5, <3>1
    <2> QED
        BY <2>1
<1>7. g = [table |-> [map.table EXCEPT ![b] = new], length |-> map.length,
           size |-> map.size + 1, threshold |-> map.threshold]
    <2> DEFINE t == [map.table EXCEPT ![b] = new]
    <2>1. g = [map EXCEPT !.table = t, !.size = map.size + 1]
        BY DEF Grown
    <2> HIDE DEF t, g
    <2>2. map = [table |-> map.table, length |-> map.length, size |-> map.size,
                 threshold |-> map.threshold]
        BY <1>1 DEF Sound
    <2> QED
        BY <2>1, <2>2 DEF t
<1> HIDE DEF g, new, x
<1>8. /\ g.length = map.length /\ g.size = map.size + 1 /\ g.threshold = map.threshold
      /\ g.table = [map.table EXCEPT ![b] = new]
      /\ g = [table |-> g.table, length |-> g.length, size |-> g.size,
              threshold |-> g.threshold]
    BY <1>7
<1>9. /\ DOMAIN g.table = Buckets(g) /\ Buckets(g) = Buckets(map) /\ g.table[b] = new
      /\ \A c \in Buckets(map) : c # b => g.table[c] = map.table[c]
    BY <1>1, <1>8 DEF Buckets
<1>10. Sound(g)
    <2>1. g.table = [c \in Buckets(g) |-> g.table[c]]
        BY <1>1, <1>8, <1>9 DEF Sound
    <2> QED
        BY <1>1, <1>5, <1>8, <1>9, <2>1 DEF Sound
<1>11. k \in Held(g) /\ Get(g, k) = n
    <2>1. 1 \in DOMAIN new
        BY <1>5
    <2> QED
        BY <1>1, <1>2, <1>5, <1>9, <1>10, <2>1, Lookup
<1>12. ASSUME NEW y \in Keys, y # k
       PROVE  (y \in Held(g) <=> y \in Held(map)) /\ (y \in Held(map) => Get(g, y) = Get(map, y))
    <2> DEFINE c == Slot(map, y)
    <2>1. c \in Buckets(map)
        BY <1>1, BucketOf DEF Slot, Buckets, Sound
    <2>2. CASE c # b
        BY <1>8, <1>9, <2>1, <2>2, OtherChains
    <2>3. CASE c = b
        <3>1. Slot(g, y) = b /\ Slot(map, y) = b
            BY <1>8, <2>3 DEF Slot
        <3>2. ASSUME y \in Held(g)
              PROVE  y \in Held(map)
            <4>1. PICK j \in DOMAIN new : new[j].key = y
                BY <1>9, <1>10, <3>1, <3>2, HeldHasNode
            <4>2. j # 1
                BY <1>2, <1>5, <1>12, <4>1
            <4>3. j - 1 \in DOMAIN chain /\ chain[j - 1].key = y
                BY <1>6, <4>1, <4>2
            <4> QED
                BY <1>1, <4>3, Lookup
        <3>3. ASSUME y \in Held(map)
              PROVE  y \in Held(g) /\ Get(g, y) = Get(map, y)
            <4>1. PICK j \in DOMAIN chain : chain[j].key = y
                BY <1>1, <3>1, <3>3, HeldHasNode
            <4>2. new[j + 1] = chain[j] /\ j + 1 \in DOMAIN new
                BY <1>5, <4>1
            <4>3. Get(map, y) = chain[j].num
                BY <1>1, <4>1, Lookup
            <4>4. y \in Held(g) /\ Get(g, y) = new[j + 1].num
                BY <1>1, <1>9, <1>10, <4>1, <4>2, Lookup
            <4> QED
                BY <4>2, <4>3, <4>4
        <3> QED
            BY <3>2, <3>3
    <2> QED
        BY <2>2, <2>3
<1>13. Held(g) = Held(map) \cup {k}
    <2>1. Held(g) \subseteq Keys /\ Held(map) \subseteq Keys
        BY DEF Held
    <2> QED
        BY <1>11, <1>12, <2>1
<1>14. WellFormed(g)
    <2>1. Cardinality(Held(g)) = Cardinality(Held(map)) + 1
        BY <1>13, HeldFinite, FS_AddElement
    <2> QED
        BY <1>8, <1>10, <2>1 DEF WellFormed
<1>15. \A y \in Held(map) : Get(g, y) = Get(map, y)
    BY <1>12 DEF Held
<1> QED
    BY <1>8, <1>11, <1>13, <1>14, <1>15 DEF g

\* Two functions are equal.
LEMMA SameFunction ==
    ASSUME NEW f, NEW g, f = [x \in DOMAIN f |-> f[x]], g = [x \in DOMAIN g |-> g[x]],
           DOMAIN f = DOMAIN g, \A x \in DOMAIN f : f[x] = g[x]
    PROVE  f = g
<1>1. [x \in DOMAIN f |-> f[x]] = [x \in DOMAIN g |-> g[x]]
    OBVIOUS
<1> QED
    BY <1>1

\* What a put does to the contents.
With(f, k, n) == [x \in DOMAIN f \cup {k} |-> IF x = k THEN n ELSE f[x]]

\* cel_ihashmap_put: whatever the hash codes and however often the table has
\* been rebuilt, the key has the number and every other key the one it had.
THEOREM PutMaps ==
    ASSUME NEW map, WellFormed(map), NEW k \in Keys, NEW n \in Int
    PROVE  /\ WellFormed(Put(map, k, n))
           /\ Contents(Put(map, k, n)) = With(Contents(map), k, n)
<1> DEFINE p == Put(map, k, n)
           g == Grown(map, k, n)
<1>1. Sound(map) /\ map.length \in Nat \ {0} /\ map.threshold = Threshold(map.length)
    BY DEF WellFormed, Sound
<1>2. SUFFICES /\ WellFormed(p) /\ Held(p) = Held(map) \cup {k}
               /\ Get(p, k) = n
               /\ \A y \in Held(map) \ {k} : Get(p, y) = Get(map, y)
    <2> DEFINE c == Contents(p)
               w == With(Contents(map), k, n)
    <2>1. DOMAIN c = Held(map) \cup {k} /\ DOMAIN w = Held(map) \cup {k}
        BY <1>2, ContentsFacts DEF With
    <2>2. c = [x \in DOMAIN c |-> c[x]] /\ w = [x \in DOMAIN w |-> w[x]]
        BY <2>1, ContentsFacts DEF With
    <2>3. ASSUME NEW x \in Held(map) \cup {k}
          PROVE  c[x] = w[x]
        <3>1. c[x] = Get(p, x)
            BY <1>2, ContentsFacts
        <3>2. w[x] = IF x = k THEN n ELSE Contents(map)[x]
            BY ContentsFacts DEF With
        <3>3. x # k => Contents(map)[x] = Get(map, x)
            BY ContentsFacts
        <3> QED
            BY <1>2, <3>1, <3>2, <3>3
    <2> HIDE DEF c, w
    <2>4. c = w
        BY <2>1, <2>2, <2>3, SameFunction
    <2> QED
        BY <1>2, <2>4 DEF c, w
<1>3. CASE k \in Held(map)
    <2>1. p = Updated(map, k, n)
        BY <1>3 DEF Put, Held
    <2> HIDE DEF p
    <2> QED
        BY <1>3, <2>1, UpdatedKeeps
<1>4. CASE k \notin Held(map)
    <2>1. /\ WellFormed(g) /\ g.length = map.length /\ g.threshold = map.threshold
          /\ Held(g) = Held(map) \cup {k}
          /\ Get(g, k) = n
          /\ \A y \in Held(map) : Get(g, y) = Get(map, y)
        BY <1>4, GrownAdds
    <2>2. p = IF g.size > g.threshold THEN Rebuild(g) ELSE g
        BY <1>4 DEF Put, Grown, Held
    <2> HIDE DEF p, g
    <2>3. CASE ~(g.size > g.threshold)
        BY <2>1, <2>2, <2>3
    <2>4. CASE g.size > g.threshold
        <3>1. g.size \in 0 .. Cardinality(Keys) /\ Sound(g)
            BY <2>1, HeldFinite DEF WellFormed
        <3>2. NextPrime(g.length * 2 + 1) \in Nat \ {0}
            BY <1>1, <2>1, <2>4, <3>1, NewLength
        <3>3. p = Rebuild(g)
            BY <2>2, <2>4
        <3>4. /\ Sound(p) /\ p.size = g.size /\ Held(p) = Held(g)
              /\ \A y \in Held(g) : Get(p, y) = Get(g, y)
            BY <3>1, <3>2, <3>3, RebuildKeeps
        <3> QED
            BY <2>1, <3>4 DEF WellFormed
    <2> QED
        BY <2>3, <2>4
<1> QED
    BY <1>3, <1>4

\* cel_ihashmap_inc: the key has so much more, and every other key what it had.
THEOREM IncMaps ==
    ASSUME NEW map, WellFormed(map), NEW k \in Held(map), NEW n \in Int
    PROVE  /\ WellFormed(Inc(map, k, n)) /\ Get(map, k) \in Int
           /\ Contents(Inc(map, k, n)) = [Contents(map) EXCEPT ![k] = @ + n]
<1> DEFINE u == Updated(map, k, Get(map, k) + n)
<1>1. Inc(map, k, n) = u
    BY DEF Inc, Held
<1>2. Get(map, k) \in Int
    <2> DEFINE b == Slot(map, k)
    <2>1. PICK i \in DOMAIN map.table[b] : map.table[b][i].key = k
        BY HeldHasNode DEF WellFormed
    <2>2. b \in Buckets(map) /\ Sound(map)
        BY HeldHasNode DEF WellFormed
    <2> HIDE DEF b
    <2>3. Get(map, k) = map.table[b][i].num /\ map.table[b][i] \in Node
        BY <2>1, <2>2, Lookup
    <2> QED
        BY <2>3, NodeFacts
<1>3. PICK v \in Int : v = Get(map, k) + n
    BY <1>2
<1>4. /\ WellFormed(u) /\ Held(u) = Held(map) /\ Get(u, k) = Get(map, k) + n
      /\ \A y \in Held(map) \ {k} : Get(u, y) = Get(map, y)
    BY <1>3, UpdatedKeeps
<1> HIDE DEF u
<1> DEFINE f == Contents(map)
           c == Contents(u)
           w == [f EXCEPT ![k] = @ + n]
<1>5. /\ DOMAIN f = Held(map) /\ DOMAIN c = Held(map)
      /\ \A y \in Held(map) : f[y] = Get(map, y) /\ c[y] = Get(u, y)
      /\ c = [y \in DOMAIN c |-> c[y]]
    BY <1>4, ContentsFacts
<1> HIDE DEF f, c
<1>6. /\ DOMAIN w = Held(map) /\ w = [y \in DOMAIN w |-> w[y]]
      /\ \A y \in Held(map) : w[y] = IF y = k THEN f[k] + n ELSE f[y]
    BY <1>5
<1> HIDE DEF w
<1>7. \A y \in Held(map) : c[y] = w[y]
    BY <1>4, <1>5, <1>6
<1>8. c = w
    BY <1>5, <1>6, <1>7, SameFunction
<1> QED
    BY <1>1, <1>2, <1>4, <1>8 DEF c, w, f

\* The tables of a well-formed map: what the types of the fields say of it.
LEMMA WellFormedTypes ==
    ASSUME NEW map, WellFormed(map)
    PROVE  /\ map.length = Cardinality(DOMAIN map.table)
           /\ map.size = Cardinality(Places(map))
           /\ \A b \in DOMAIN map.table : map.table[b] \in Seq(Node)
<1>1. Sound(map) /\ map.length \in Nat \ {0} /\ DOMAIN map.table = Buckets(map)
    BY DEF WellFormed, Sound
<1>2. map.size = Cardinality(Places(map))
    BY <1>1, PlacesCounted DEF WellFormed
<1>3. \A b \in DOMAIN map.table : map.table[b] \in Seq(Node)
    BY <1>1 DEF Sound, SoundChain
<1>4. map.length = Cardinality(DOMAIN map.table)
    <2>1. PICK n \in Nat \ {0} : n = map.length
        BY <1>1
    <2>2. 0 \in Int /\ n - 1 \in Int /\ ~(0 > n - 1) /\ n - 1 - 0 + 1 = n
        OBVIOUS
    <2>3. Cardinality(0 .. n - 1) = n
        BY <2>2, FS_Interval
    <2> QED
        BY <1>1, <2>1, <2>3 DEF Buckets
<1> QED
    BY <1>2, <1>3, <1>4
=============================================================================
