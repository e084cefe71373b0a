--------------------------- MODULE SmartdiskProofs --------------------------
(***************************************************************************)
(* Proofs about Smartdisk, for any bays, disks, sizes and bounds: the hash *)
(* map is a map and counts the partitions of the list, only blank disks    *)
(* are chosen, the plan of partitions fits, nothing is mounted twice or    *)
(* over another, and the list is empty when it is destroyed.               *)
(***************************************************************************)
EXTENDS Smartdisk, HashMapProofs, SequenceTheorems, FiniteSetTheorems, TLAPS

\* The host: a disk is in one bay, and what is mounted is well typed.
HostInv ==
    /\ bay \in [Bays -> Disks \cup {NoDisk}]
    /\ \A b, c \in Bays : bay[b] = bay[c] => b = c \/ bay[b] = NoDisk
    /\ layout \in [Disks -> Layouts]
    /\ mtab \subseteq Mount

\* The list: a device is listed once, nothing is known of its file system
\* before lsblk was asked, and the list is empty between two passes.
ListInv ==
    /\ list \in Seq(Entry)
    /\ pos \in Nat /\ (spc \in {"count", "act"} => pos >= 1)
    /\ \A i, j \in 1 .. Len(list) :
        list[i].bay = list[j].bay /\ list[i].no = list[j].no => i = j
    /\ spc = "fill" => \A i \in 1 .. Len(list) : list[i].format = ""
    /\ spc \in {"top", "scan", "sleep", "end"} => list = <<>>

\* What is left to be mounted is not mounted yet, in a bay nobody has touched.
Candidate(e) == e.bay \notin moved /\ e.format # "" /\ e.mount = Unnamed
MountInv ==
    spc \in {"clear", "count", "act"} =>
        \A i \in 1 .. Len(list) :
            Candidate(list[i]) /\ (spc = "act" => i >= pos)
                => MountsOf(bay[list[i].bay], list[i].no) = {}

\* The plan is what was computed for the disk that was chosen.
PlanInv ==
    plan = <<>> \/ (pick \in Entry /\ plan = PartitionsByOffset(pick.blocks))


\* The types of what the other parts do not speak of.
Planned == [start : 0 .. Wrap - 1, blocks : 0 .. Wrap - 1]
TypeInv ==
    /\ spc \in {"top", "scan", "fill", "clear", "count", "act", "sleep", "end"}
    /\ plan \in Seq(Planned) /\ pick \in Entry \cup {Unnamed}
    /\ leave \in BOOLEAN /\ misread \in BOOLEAN
    /\ moved \subseteq Bays
    /\ budget \in [faults : 0 .. MaxFaults, moves : 0 .. MaxMoves]

-----------------------------------------------------------------------------
\* The sizes that the arithmetic is about.
LEMMA Sizes == Wrap \in Nat \ {0} /\ Offset \in Nat \ {0} /\ NParts \in Nat \ {0}
    BY Zenon, SmartdiskAssumption

\* A start that lies inside the disk does not wrap.
LEMMA SmallModulo ==
    ASSUME NEW a \in Nat, NEW w \in Nat \ {0}, a < w
    PROVE  a % w = a
    OBVIOUS

\* The partitions are disjoint, inside the disk and reach its end, if the disk
\* is as long as the starts (_get_disk_partitions_by_offset).
LEMMA PartitionsFit ==
    ASSUME NEW blocks \in 0 .. Wrap - 1,
           PartNum(blocks) \in Nat \ {0},
           blocks >= (PartNum(blocks) - 1) * (Offset + 1)
    PROVE  LET n == PartNum(blocks)
               p == PartitionsByOffset(blocks)
           IN  /\ Len(p) = n
               /\ \A i \in 1 .. n - 1 : p[i].start + p[i].blocks <= p[i + 1].start
               /\ p[n].start + p[n].blocks = blocks
<1> DEFINE n == PartNum(blocks)
           p == PartitionsByOffset(blocks)
           s == Offset + 1
<1>1. n \in Nat \ {0} /\ s \in Nat /\ Offset \in Nat /\ s = Offset + 1
      /\ Wrap \in Nat \ {0} /\ blocks \in Nat /\ blocks < Wrap /\ (n - 1) * s <= blocks
    BY Sizes
<1>2. p = [i \in 1 .. n |-> [start  |-> ((i - 1) * s) % Wrap,
                             blocks |-> IF i < n THEN Offset
                                        ELSE (blocks - (((i - 1) * s) % Wrap)) % Wrap]]
    BY DEF PartitionsByOffset
<1> HIDE DEF n, p, s
<1>3. ASSUME NEW i \in 1 .. n
      PROVE  (i - 1) * s \in Nat /\ (i - 1) * s <= blocks /\ ((i - 1) * s) % Wrap = (i - 1) * s
    <2>1. i - 1 \in Nat /\ n - 1 \in Nat /\ i - 1 <= n - 1
        BY <1>1
    <2>2. \A a, b, c \in Nat : a <= b => a * c \in Nat /\ a * c <= b * c
        OBVIOUS
    <2>3. (i - 1) * s \in Nat /\ (i - 1) * s <= (n - 1) * s
        BY <1>1, <2>1, <2>2
    <2>4. (n - 1) * s \in Nat
        BY <1>1, <2>1, <2>2
    <2>5. (i - 1) * s <= blocks /\ (i - 1) * s < Wrap
        BY <1>1, <2>3, <2>4
    <2> QED
        BY <1>1, <2>3, <2>5, SmallModulo
<1>4. Len(p) = n
    BY <1>1, <1>2
<1>5. ASSUME NEW i \in 1 .. n - 1
      PROVE  p[i].start + p[i].blocks <= p[i + 1].start
    <2>1. i \in 1 .. n /\ i + 1 \in 1 .. n /\ i < n /\ i \in Nat
        BY <1>1
    <2>2. p[i].start = (i - 1) * s /\ p[i].blocks = Offset
        BY <1>2, <1>3, <2>1
    <2>3. p[i + 1].start = ((i + 1) - 1) * s
        BY <1>2, <1>3, <2>1
    <2>4. ((i + 1) - 1) * s = (i - 1) * s + s
        BY <1>1, <2>1
    <2>5. (i - 1) * s \in Nat
        BY <1>3, <2>1
    <2> QED
        BY <1>1, <2>2, <2>3, <2>4, <2>5
<1>6. p[n].start + p[n].blocks = blocks
    <2>1. n \in 1 .. n /\ ~(n < n)
        BY <1>1
    <2>2. (n - 1) * s \in Nat /\ (n - 1) * s <= blocks /\ ((n - 1) * s) % Wrap = (n - 1) * s
        BY <1>3, <2>1
    <2>3. p[n].start = (n - 1) * s /\ p[n].blocks = (blocks - (n - 1) * s) % Wrap
        BY <1>2, <2>1, <2>2
    <2>4. blocks - (n - 1) * s \in Nat /\ blocks - (n - 1) * s < Wrap
        BY <1>1, <2>2
    <2>5. (blocks - (n - 1) * s) % Wrap = blocks - (n - 1) * s
        BY <1>1, <2>4, SmallModulo
    <2> QED
        BY <1>1, <2>2, <2>3, <2>5
<1> QED
    BY <1>4, <1>5, <1>6 DEF n, p

\* PlanFits of the plan that was computed for the disk that was chosen.
LEMMA PlanFitsIfPlanned == PlanInv => PlanFits
<1> SUFFICES ASSUME PlanInv, plan # <<>>, pick.blocks >= (Len(plan) - 1) * (Offset + 1)
             PROVE  /\ \A i \in 1 .. Len(plan) - 1 :
                           plan[i].start + plan[i].blocks <= plan[i + 1].start
                    /\ plan[Len(plan)].start + plan[Len(plan)].blocks = pick.blocks
    BY DEF PlanFits
<1> DEFINE blocks == pick.blocks
<1>1. pick \in Entry /\ plan = PartitionsByOffset(blocks)
    BY DEF PlanInv
<1>2. blocks \in 0 .. Wrap - 1
    BY <1>1 DEF Entry
<1> HIDE DEF blocks
<1>3. PartNum(blocks) \in Nat
    <2>1. CASE blocks = 0
        BY <2>1 DEF PartNum
    <2>2. CASE blocks # 0
        <3>1. blocks - 1 \in Nat /\ Offset \in Nat \ {0}
            BY <1>2, <2>2, Sizes
        <3>2. (blocks - 1) \div Offset \in Nat
            BY <3>1
        <3> QED
            BY <2>2, <3>2 DEF PartNum
    <2> QED
        BY <2>1, <2>2
<1>4. DOMAIN plan = 1 .. PartNum(blocks) /\ Len(plan) = PartNum(blocks)
    BY <1>1, <1>3 DEF PartitionsByOffset
<1>5. PartNum(blocks) # 0
    <2> SUFFICES ASSUME PartNum(blocks) = 0
                 PROVE  FALSE
        OBVIOUS
    <2>1. plan = [i \in 1 .. 0 |-> [start |-> ((i - 1) * (Offset + 1)) % Wrap,
             blocks |-> IF i < 0 THEN Offset
                        ELSE (blocks - (((i - 1) * (Offset + 1)) % Wrap)) % Wrap]]
        BY <1>1 DEF PartitionsByOffset
    <2> QED
        BY <2>1
<1> QED
    BY <1>1, <1>2, <1>3, <1>4, <1>5, PartitionsFit DEF blocks

-----------------------------------------------------------------------------
(***************************************************************************)
(* Entries of the list.                                                    *)
(***************************************************************************)

\* the fields of an entry
LEMMA EntryFields ==
    ASSUME NEW e \in Entry
    PROVE  /\ e.bay \in Bays /\ e.no \in Nos /\ e.disk \in Disks
           /\ e.part \in -1 .. NParts /\ e.wwn \in Keys /\ e.blocks \in 0 .. Wrap - 1
           /\ e.format \in Formats /\ e.mount \in Targets \cup {Unnamed}
    BY DEF Entry

\* the fields of a mount, whose mount point has a name
LEMMA MountFields ==
    ASSUME NEW x \in Mount
    PROVE  x.disk \in Disks /\ x.no \in Nos /\ x.target \in Targets /\ x.target # Unnamed
<1>1. x.disk \in Disks /\ x.no \in Nos /\ x.target \in Targets
    BY DEF Mount
<1>2. Unnamed \notin Targets
    BY DEF Unnamed, Targets, Elsewhere
<1> QED
    BY <1>1, <1>2

\* the constants a listing uses
LEMMA ListingConstants ==
    /\ Zero \in Keys /\ Wwn \in [Disks -> Keys] /\ DiskId \in [Disks -> Keys]
    /\ Blocks \in [Disks -> 0 .. Wrap - 1]
    /\ NoDisk \notin Disks
<1>1. /\ Zero \in Keys /\ Wwn \in [Disks -> Keys \ {Zero}]
      /\ DiskId \in [Disks -> Keys \ {Zero}]
      /\ Blocks \in [Disks -> 0 .. Wrap - 1] /\ NoDisk \notin Disks
    BY Zenon, SmartdiskAssumption
<1> QED
    BY <1>1

\* the formats
LEMMA FormatsHold ==
    /\ "" \in Formats
    /\ \A d \in Disks, l \in Layouts : Fs[d][l] \in Formats
<1>1. "" \in Formats
    BY DEF Formats
<1>2. ASSUME NEW d \in Disks, NEW l \in Layouts
      PROVE  Fs[d][l] \in Formats
    <2>1. Fs[d][l] \in {Fs[d][k] : k \in Layouts}
        OBVIOUS
    <2>2. Fs[d][l] \in FsTypes
        BY Zenon, <2>1 DEF FsTypes
    <2> QED
        BY <2>2 DEF Formats
<1> QED
    BY <1>1, <1>2

\* A device that is there becomes an entry without a file system.
LEMMA ListedIsEntry ==
    ASSUME HostInv, NEW dev \in Devices, NEW w \in Keys, NEW sized \in BOOLEAN
    PROVE  /\ Listed(dev, w, sized) \in Entry
           /\ Listed(dev, w, sized).bay = dev[1] /\ Listed(dev, w, sized).no = dev[2]
           /\ Listed(dev, w, sized).format = ""
<1> DEFINE e == Listed(dev, w, sized)
<1>1. dev \in Bays \X Nos /\ dev[1] \in Bays /\ dev[2] \in Nos /\ bay[dev[1]] # NoDisk
    BY DEF Devices, Here
<1>2. bay[dev[1]] \in Disks
    BY <1>1 DEF HostInv
<1>3. TailingInteger(dev[1], dev[2]) \in -1 .. NParts
    <2>1. dev[2] \in -1 .. NParts /\ 1 \in -1 .. NParts
        BY <1>1, Sizes DEF Nos
    <2> QED
        BY <2>1 DEF TailingInteger
<1>4. (IF sized THEN Blocks[bay[dev[1]]] ELSE 0) \in 0 .. Wrap - 1
    BY <1>2, ListingConstants, Sizes
<1>5. "" \in Formats
    BY FormatsHold
<1> QED
    BY <1>1, <1>2, <1>3, <1>4, <1>5 DEF Listed, Entry

\* lsblk keeps the device of an entry and, if it finds a file system, its mount.
LEMMA FilledIsEntry ==
    ASSUME HostInv, NEW e \in Entry
    PROVE  /\ Filled(e) \in Entry
           /\ Filled(e).bay = e.bay /\ Filled(e).no = e.no
           /\ e.format = "" /\ Filled(e).format # "" /\ Filled(e).mount = Unnamed
                => MountsOf(bay[e.bay], e.no) = {}
<1> DEFINE d  == bay[e.bay]
           fs == IF Here(e.bay, e.no) THEN FsOn(d, e.no) ELSE ""
           ms == MountsOf(d, e.no)
<1>1. e.bay \in Bays /\ e.no \in Nos /\ e.part \in -1 .. NParts /\ 0 \in -1 .. NParts
    BY EntryFields, Sizes
<1>2. fs \in Formats
    <2>1. CASE Here(e.bay, e.no)
        <3>1. d \in Disks
            BY <1>1, <2>1 DEF HostInv, Here
        <3>2. layout[d] \in Layouts
            BY <3>1 DEF HostInv
        <3>3. FsOn(d, e.no) \in Formats
            BY <3>1, <3>2, FormatsHold DEF FsOn
        <3> QED
            BY <2>1, <3>3
    <2>2. CASE ~Here(e.bay, e.no)
        BY <2>2, FormatsHold
    <2> QED
        BY <2>1, <2>2
<1>3. ms \subseteq mtab
    BY DEF MountsOf
<1>4. ms # {} => /\ (CHOOSE x \in ms : TRUE).target \in Targets
                 /\ (CHOOSE x \in ms : TRUE).target # Unnamed
    <2> SUFFICES ASSUME ms # {}
                 PROVE  /\ (CHOOSE x \in ms : TRUE).target \in Targets
                        /\ (CHOOSE x \in ms : TRUE).target # Unnamed
        OBVIOUS
    <2>1. (CHOOSE x \in ms : TRUE) \in ms
        OBVIOUS
    <2>2. (CHOOSE x \in ms : TRUE) \in Mount
        BY <1>3, <2>1 DEF HostInv
    <2> QED
        BY <2>2, MountFields
<1> HIDE DEF fs, ms
<1>5. Filled(e) = IF ValidType(fs)
                  THEN [e EXCEPT !.format = fs, !.part = IF @ = -1 THEN 0 ELSE @,
                                 !.mount = IF ms = {} THEN @
                                           ELSE (CHOOSE x \in ms : TRUE).target]
                  ELSE e
    BY DEF Filled, fs, ms
<1>6. CASE ValidType(fs)
    <2> DEFINE m == IF ms = {} THEN e.mount ELSE (CHOOSE x \in ms : TRUE).target
               q == IF e.part = -1 THEN 0 ELSE e.part
    <2>1. m \in Targets \cup {Unnamed} /\ (ms # {} => m # Unnamed)
        BY <1>4, EntryFields
    <2>2. q \in -1 .. NParts
        BY <1>1
    <2>3. Filled(e) = [e EXCEPT !.format = fs, !.part = q, !.mount = m]
        BY <1>5, <1>6
    <2> HIDE DEF m, q
    <2>4. Filled(e) \in Entry
        BY <1>2, <2>1, <2>2, <2>3 DEF Entry
    <2>5. Filled(e).bay = e.bay /\ Filled(e).no = e.no /\ Filled(e).mount = m
        BY <2>3 DEF Entry
    <2> QED
        BY <2>1, <2>4, <2>5 DEF ms
<1>7. CASE ~ValidType(fs)
    BY <1>5, <1>7
<1> QED
    BY <1>6, <1>7

-----------------------------------------------------------------------------
(***************************************************************************)
(* The steps of the application.                                           *)
(***************************************************************************)

\* The devices are finitely many, so that a reading of /dev is a sequence.
LEMMA DevicesFinite ==
    ASSUME NEW S \in SUBSET Devices
    PROVE  IsFiniteSet(S) /\ Cardinality(S) \in Nat
<1>1. IsFiniteSet(Bays)
    BY Zenon, SmartdiskAssumption
<1>2. IsFiniteSet(Nos)
    <2>1. 1 \in Int /\ NParts \in Int
        BY Sizes
    <2>2. IsFiniteSet(1 .. NParts)
        BY <2>1, FS_Interval
    <2>3. IsFiniteSet({-1})
        BY Zenon, FS_Singleton
    <2> QED
        BY <2>2, <2>3, FS_Union DEF Nos
<1>3. IsFiniteSet(Bays \X Nos)
    BY <1>1, <1>2, FS_Product
<1>4. S \in SUBSET (Bays \X Nos)
    BY DEF Devices
<1>5. IsFiniteSet(S)
    BY <1>3, <1>4, FS_Subset
<1> QED
    BY <1>5, FS_CardinalityType

\* Functions as sequences, and pairs.
LEMMA SeqOfFunction ==
    ASSUME NEW S, NEW n \in Nat, NEW f \in [1 .. n -> S]
    PROVE  f \in Seq(S) /\ Len(f) = n
    OBVIOUS

LEMMA PairsEqual ==
    ASSUME NEW A, NEW B, NEW p \in A \X B, NEW q \in A \X B, p[1] = q[1], p[2] = q[2]
    PROVE  p = q
    OBVIOUS

\* Entries of the devices of a set, in an order that holds each of them once.
LEMMA ListingIsSeq ==
    ASSUME NEW S \in SUBSET Devices, NEW order \in SetToSeqs(S), NEW entry \in [S -> Entry],
           \A x \in S : /\ entry[x].bay = x[1] /\ entry[x].no = x[2]
                        /\ entry[x].format = "",
           NEW l, l = [i \in DOMAIN order |-> entry[order[i]]]
    PROVE  /\ l \in Seq(Entry)
           /\ \A i, j \in 1 .. Len(l) : l[i].bay = l[j].bay /\ l[i].no = l[j].no => i = j
           /\ \A i \in 1 .. Len(l) : l[i].format = ""
<1> DEFINE n == Cardinality(S)
<1>1. n \in Nat
    BY DevicesFinite
<1>2. order \in [1 .. n -> S] /\ \A i, j \in 1 .. n : i # j => order[i] # order[j]
    BY DEF SetToSeqs
<1> HIDE DEF n
<1>3. DOMAIN order = 1 .. n /\ \A i \in 1 .. n : order[i] \in S /\ order[i] \in Devices
    BY <1>2
<1>4. l = [i \in 1 .. n |-> entry[order[i]]]
    BY <1>3
<1>5. \A i \in 1 .. n : entry[order[i]] \in Entry
    BY <1>3
<1>6. l \in [1 .. n -> Entry] /\ \A i \in 1 .. n : l[i] = entry[order[i]]
    BY <1>4, <1>5
<1>7. l \in Seq(Entry) /\ Len(l) = n
    BY <1>1, <1>6, SeqOfFunction
<1>8. \A i \in 1 .. n : /\ l[i].format = ""
                        /\ l[i].bay = order[i][1] /\ l[i].no = order[i][2]
    BY <1>3, <1>6
<1>9. ASSUME NEW i \in 1 .. n, NEW j \in 1 .. n,
             l[i].bay = l[j].bay, l[i].no = l[j].no
      PROVE  i = j
    <2>1. order[i] \in Bays \X Nos /\ order[j] \in Bays \X Nos
        BY <1>3 DEF Devices
    <2>2. order[i][1] = order[j][1] /\ order[i][2] = order[j][2]
        BY <1>8, <1>9
    <2>3. order[i] = order[j]
        BY <2>1, <2>2, PairsEqual
    <2> QED
        BY <1>2, <2>3
<1> QED
    BY <1>7, <1>8, <1>9

\* Every listing holds each device at most once, as an entry without a file
\* system.
LEMMA ListingsAreSeqs ==
    ASSUME HostInv, NEW kind, NEW dev, NEW parsed, NEW l \in Listings(kind, dev, parsed)
    PROVE  /\ l \in Seq(Entry)
           /\ \A i, j \in 1 .. Len(l) : l[i].bay = l[j].bay /\ l[i].no = l[j].no => i = j
           /\ \A i \in 1 .. Len(l) : l[i].format = ""
<1> DEFINE fails(k, x) == kind = k /\ x = dev
           opened    == {x \in Devices : ~fails("open", x)}
           answered  == {x \in opened : x[1] \notin Mute /\ ~fails("identity", x)}
           backup(x) == IF answered = {} /\ kind # "fdisk" THEN Backup(x[1], parsed) ELSE Zero
           wwn(x)    == IF x \in answered THEN Wwn[bay[x[1]]] ELSE backup(x)
           sized(x)  == ~fails("size", x) \/ backup(x) # Zero
           entry     == [x \in opened |-> Listed(x, wwn(x), sized(x))]
<1>1. PICK order \in SetToSeqs(opened) : l = [i \in DOMAIN order |-> entry[order[i]]]
    BY Zenon DEF Listings
<1>2. opened \in SUBSET Devices
    OBVIOUS
<1>3. ASSUME NEW x \in Devices
      PROVE  wwn(x) \in Keys /\ sized(x) \in BOOLEAN
    <2>1. x[1] \in Bays /\ bay[x[1]] # NoDisk
        BY DEF Devices, Here
    <2>2. bay[x[1]] \in Disks
        BY <2>1 DEF HostInv
    <2>3. Wwn[bay[x[1]]] \in Keys /\ Backup(x[1], parsed) \in Keys /\ Zero \in Keys
        BY <2>2, ListingConstants DEF Backup
    <2> QED
        BY <2>3
<1> HIDE DEF wwn, sized
<1>4. ASSUME NEW x \in Devices
      PROVE  /\ Listed(x, wwn(x), sized(x)) \in Entry
             /\ Listed(x, wwn(x), sized(x)).bay = x[1]
             /\ Listed(x, wwn(x), sized(x)).no = x[2]
             /\ Listed(x, wwn(x), sized(x)).format = ""
    BY Zenon, <1>3, ListedIsEntry
<1> HIDE DEF opened
<1>5. entry \in [opened -> Entry]
    BY <1>2, <1>4
<1>6. \A x \in opened : /\ entry[x].bay = x[1] /\ entry[x].no = x[2]
                        /\ entry[x].format = ""
    BY <1>2, <1>4
<1> HIDE DEF entry
<1> QED
    <2>1. order \in SetToSeqs(opened) /\ l = [i \in DOMAIN order |-> entry[order[i]]]
        BY <1>1
    <2>2. \A S \in SUBSET Devices : \A f \in [S -> Entry] :
            (\A x \in S : f[x].bay = x[1] /\ f[x].no = x[2] /\ f[x].format = "") =>
            \A o \in SetToSeqs(S) : l = [i \in DOMAIN o |-> f[o[i]]] =>
                /\ l \in Seq(Entry)
                /\ \A i, j \in 1 .. Len(l) :
                       l[i].bay = l[j].bay /\ l[i].no = l[j].no => i = j
                /\ \A i \in 1 .. Len(l) : l[i].format = ""
        BY ListingIsSeq
    <2> QED
        BY Zenon, <1>2, <1>5, <1>6, <2>1, <2>2

\* What a mount adds to the kernel's table, if anything: the node that is under
\* the entry's name now.
NewMount(e) == [disk |-> bay[e.bay], no |-> e.no, target |-> Target(e),
                by |-> "smartdisk", sure |-> e.bay \notin moved]

LEMMA DiskMountAdds ==
    ASSUME HostInv, NEW e \in Entry, Mountable(e), DiskMount(e)
    PROVE  \/ mtab' = mtab
           \/ /\ mtab' = mtab \cup {NewMount(e)}
              /\ NewMount(e) \in Mount /\ bay[e.bay] \in Disks
              /\ FsOn(bay[e.bay], e.no) # ""
<1> SUFFICES ASSUME mtab' # mtab
             PROVE  /\ mtab' = mtab \cup {NewMount(e)}
                    /\ NewMount(e) \in Mount /\ bay[e.bay] \in Disks
                    /\ FsOn(bay[e.bay], e.no) # ""
    OBVIOUS
<1>1. /\ mtab' = mtab \cup {NewMount(e)} /\ Here(e.bay, e.no)
      /\ FsOn(bay[e.bay], e.no) # ""
    BY DEF DiskMount, NewMount, Mountable
<1>2. bay[e.bay] \in Disks
    BY <1>1, EntryFields DEF Here, HostInv
<1>3. Target(e) \in Targets
    <2>1. e.wwn \in Keys /\ e.part \in 0 .. NParts
        <3>1. e.wwn \in Keys /\ e.part \in -1 .. NParts
            BY EntryFields
        <3>2. e.part > -1
            BY DEF Mountable
        <3> QED
            BY <3>1, <3>2, Sizes
    <2> QED
        BY <2>1 DEF Target, Targets
<1>4. NewMount(e) \in Mount
    BY <1>2, <1>3, EntryFields DEF NewMount, Mount
<1> QED
    BY <1>1, <1>2, <1>4

\* An entry that is acted on: its device may be mounted.
LEMMA ActMounts ==
    ASSUME HostInv, ListInv, Act
    PROVE  /\ pos \in 1 .. Len(list) /\ list[pos] \in Entry
           /\ \/ mtab' = mtab
              \/ /\ Mountable(list[pos])
                 /\ mtab' = mtab \cup {NewMount(list[pos])}
                 /\ NewMount(list[pos]) \in Mount /\ bay[list[pos].bay] \in Disks
                 /\ FsOn(bay[list[pos].bay], list[pos].no) # ""
<1>1. pos \in Nat /\ pos >= 1 /\ pos <= Len(list) /\ list \in Seq(Entry)
    BY DEF Act, ListInv
<1>2. pos \in 1 .. Len(list) /\ list[pos] \in Entry
    BY <1>1, ElementOfSeq
<1> DEFINE e == list[pos]
<1>3. IF Mountable(e) THEN DiskMount(e) ELSE UNCHANGED <<mtab, budget>>
    BY DEF Act
<1>4. e \in Entry
    BY <1>2
<1> HIDE DEF e
<1>5. \/ mtab' = mtab
      \/ /\ Mountable(e) /\ mtab' = mtab \cup {NewMount(e)}
         /\ NewMount(e) \in Mount /\ bay[e.bay] \in Disks
         /\ FsOn(bay[e.bay], e.no) # ""
    BY <1>3, <1>4, DiskMountAdds
<1> QED
    BY <1>2, <1>5 DEF e

\* The steps of others, and what they may change of the host.
LEMMA HostStep ==
    ASSUME HostInv, ListInv, [Next]_vars
    PROVE  HostInv'
<1>1. CASE UNCHANGED <<bay, layout, mtab>>
    BY <1>1 DEF HostInv
<1>2. CASE Top \/ Scan \/ Fill \/ ClearMap \/ Count \/ CleanUp \/ Wake
    BY <1>1, <1>2 DEF Top, Scan, Fill, ClearMap, Count, CleanUp, Wake, host
<1>3. CASE Act
    <2>1. mtab' \subseteq Mount
        BY <1>3, ActMounts DEF HostInv
    <2>2. UNCHANGED <<bay, layout>>
        BY <1>3 DEF Act, host
    <2> QED
        BY <2>1, <2>2 DEF HostInv
<1>4. CASE Leave
    BY <1>1, <1>4 DEF Leave
<1>5. ASSUME NEW b \in Bays, Plug(b)
      PROVE  HostInv'
    <2>1. PICK d \in Disks : ~Plugged(d) /\ bay' = [bay EXCEPT ![b] = d]
        BY <1>5 DEF Plug
    <2>2. bay' \in [Bays -> Disks \cup {NoDisk}]
        BY <2>1 DEF HostInv
    <2>3. \A c \in Bays : c # b => bay'[c] = bay[c] /\ bay[c] # d
        BY <2>1 DEF HostInv, Plugged
    <2>4. bay'[b] = d
        BY <2>1 DEF HostInv
    <2>5. \A x, y \in Bays : bay'[x] = bay'[y] => x = y \/ bay'[x] = NoDisk
        BY <2>3, <2>4 DEF HostInv
    <2> QED
        BY <1>5, <2>2, <2>5 DEF Plug, HostInv
<1>6. ASSUME NEW b \in Bays, Unplug(b)
      PROVE  HostInv'
    BY <1>6 DEF Unplug, HostInv
<1>7. ASSUME NEW b \in Bays, Partition(b)
      PROVE  HostInv'
    <2>1. layout' \in [Disks -> Layouts]
        BY <1>7 DEF Partition, HostInv, Layouts
    <2> QED
        BY <1>7, <2>1 DEF Partition, HostInv
<1>8. ASSUME NEW b \in Bays, NEW no \in Nos, MountOther(b, no)
      PROVE  HostInv'
    <2> DEFINE x == [disk |-> bay[b], no |-> no, target |-> Elsewhere,
                     by |-> "other", sure |-> TRUE]
    <2>1. bay[b] \in Disks
        BY <1>8 DEF MountOther, Here, HostInv
    <2>2. x \in Mount
        BY <2>1 DEF Mount, Targets
    <2> HIDE DEF x
    <2>3. mtab' \subseteq mtab \cup {x}
        BY <1>8 DEF MountOther, x
    <2> QED
        BY <1>8, <2>2, <2>3 DEF MountOther, HostInv
<1>9. CASE UNCHANGED vars
    BY <1>1, <1>9 DEF vars, host
<1> QED
    BY <1>2, <1>3, <1>4, <1>5, <1>6, <1>7, <1>8, <1>9 DEF Next, SmartdiskStep, Others

\* The list through a pass.
LEMMA ListStep ==
    ASSUME HostInv, ListInv, [Next]_vars
    PROVE  ListInv'
<1>1. CASE Top
    BY <1>1 DEF Top, Goto, ListInv
<1>2. CASE Scan
    <2>1. list = <<>> /\ UNCHANGED pos
        BY <1>2 DEF Scan, Goto, ListInv
    <2>2. CASE spc' = "sleep" /\ UNCHANGED list
        BY <2>1, <2>2 DEF ListInv
    <2>3. ASSUME NEW kind, NEW dev, NEW parsed, NEW l \in Listings(kind, dev, parsed), spc' = "fill",
                 list' = list \o l
          PROVE  ListInv'
        <3> DEFINE Listing(m) ==
                /\ m \in Seq(Entry)
                /\ \A i, j \in 1 .. Len(m) :
                       m[i].bay = m[j].bay /\ m[i].no = m[j].no => i = j
                /\ \A i \in 1 .. Len(m) : m[i].format = ""
        <3>0. \A k, d, b : \A m \in Listings(k, d, b) : Listing(m)
            BY ListingsAreSeqs
        <3>1. Listing(l)
            <4> HIDE DEF Listing
            <4> QED
                BY <3>0
        <3>2. list' = l
            BY <2>1, <2>3, <3>1, ConcatEmptySeq
        <3>3. UNCHANGED pos /\ pos \in Nat
            BY <2>1 DEF ListInv
        <3>4. /\ list' \in Seq(Entry)
              /\ \A i, j \in 1 .. Len(list') :
                     list'[i].bay = list'[j].bay /\ list'[i].no = list'[j].no => i = j
              /\ \A i \in 1 .. Len(list') : list'[i].format = ""
            BY Zenon, <3>1, <3>2
        <3>5. spc' = "fill"
            BY <2>3
        <3> QED
            BY <3>3, <3>4, <3>5 DEF ListInv
    <2> QED
        BY <1>2, <2>2, <2>3 DEF Scan, Goto
<1>3. CASE Fill
    <2>1. spc' = "clear" /\ UNCHANGED pos
        BY <1>3 DEF Fill, Goto
    <2>2. CASE UNCHANGED list
        BY <2>1, <2>2 DEF ListInv
    <2>3. CASE list' = [i \in DOMAIN list |-> Filled(list[i])]
        <3> DEFINE n == Len(list)
        <3>1. n \in Nat /\ DOMAIN list = 1 .. n /\ \A i \in 1 .. n : list[i] \in Entry
            BY LenProperties, ElementOfSeq DEF ListInv
        <3>2. \A i, j \in 1 .. n : list[i].bay = list[j].bay /\ list[i].no = list[j].no => i = j
            BY DEF ListInv
        <3> HIDE DEF n
        <3>3. \A i \in 1 .. n : list'[i] = Filled(list[i]) /\ list'[i] \in Entry
            BY <2>3, <3>1, FilledIsEntry
        <3>4. list' \in [1 .. n -> Entry]
            BY <2>3, <3>1, <3>3
        <3>5. list' \in Seq(Entry) /\ Len(list') = n
            BY <3>1, <3>4, SeqOfFunction
        <3>6. \A i \in 1 .. n : list'[i].bay = list[i].bay /\ list'[i].no = list[i].no
            BY <3>1, <3>3, FilledIsEntry
        <3>7. \A i, j \in 1 .. n :
                list'[i].bay = list'[j].bay /\ list'[i].no = list'[j].no => i = j
            BY <3>2, <3>6
        <3> QED
            BY <2>1, <3>5, <3>7 DEF ListInv
    <2> QED
        BY <1>3, <2>2, <2>3 DEF Fill
<1>4. CASE ClearMap
    BY <1>4 DEF ClearMap, Goto, ListInv
<1>5. CASE Count
    <2>1. UNCHANGED list /\ spc = "count"
        BY <1>5 DEF Count
    <2>2. pos \in Nat /\ pos >= 1
        BY <2>1 DEF ListInv
    <2>3. \/ pos' = pos + 1 /\ spc' = "count"
          \/ pos' = 1 /\ spc' = "act"
        BY <1>5 DEF Count
    <2>4. pos' \in Nat /\ pos' >= 1 /\ spc' \in {"count", "act"}
        BY <2>2, <2>3
    <2> QED
        BY <2>1, <2>4 DEF ListInv
<1>6. CASE Act
    BY <1>6 DEF Act, ListInv
<1>7. CASE CleanUp
    <2>1. list' = <<>> /\ pos' = 0 /\ spc' = "sleep"
        BY <1>7 DEF CleanUp, Goto
    <2>2. <<>> \in Seq(Entry) /\ Len(<<>>) = 0
        OBVIOUS
    <2>3. list' \in Seq(Entry) /\ 1 .. Len(list') = {}
        BY <2>1, <2>2
    <2> QED
        BY <2>1, <2>3 DEF ListInv
<1>8. CASE Wake
    BY <1>8 DEF Wake, Goto, ListInv
<1>9. CASE Others
    <2>1. UNCHANGED app
        BY <1>9 DEF Others, Leave, Plug, Unplug, Partition, MountOther, Move
    <2> QED
        BY <2>1 DEF app, ListInv
<1>10. CASE UNCHANGED vars
    BY <1>10 DEF vars, app, ListInv
<1> QED
    BY <1>1, <1>2, <1>3, <1>4, <1>5, <1>6, <1>7, <1>8, <1>9, <1>10 DEF Next, SmartdiskStep

\* Somebody who touches a bay mounts nothing of the other bays.
LEMMA TouchKeeps ==
    ASSUME HostInv, ListInv, MountInv, NEW b \in Bays, Touch(b), Move,
           \A c \in Bays : c # b => bay'[c] = bay[c],
           \A x \in mtab' : x \in mtab \/ (x.disk = bay[b] /\ bay[b] \in Disks)
    PROVE  MountInv'
<1> SUFFICES ASSUME spc' \in {"clear", "count", "act"},
                    NEW i \in 1 .. Len(list'),
                    Candidate(list[i])', (spc = "act" => i >= pos)'
             PROVE  MountsOf(bay[list[i].bay], list[i].no)' = {}
    BY DEF MountInv
<1>1. UNCHANGED <<spc, list, pos>> /\ spc \in {"top", "fill", "act"}
    BY DEF Move, app
<1>2. spc = "act" /\ i \in 1 .. Len(list) /\ moved' = moved \cup {b}
    BY <1>1 DEF Touch
<1>3. list[i] \in Entry
    BY <1>2, ElementOfSeq DEF ListInv
<1> DEFINE c  == list[i].bay
           no == list[i].no
<1>4. c \in Bays /\ c # b /\ Candidate(list[i]) /\ i >= pos
    BY <1>1, <1>2, <1>3, EntryFields DEF Candidate
<1>5. MountsOf(bay[c], no) = {}
    BY <1>2, <1>4 DEF MountInv
<1>6. bay'[c] = bay[c] /\ (bay[c] = bay[b] => bay[b] = NoDisk)
    BY <1>4 DEF HostInv
<1>7. NoDisk \notin Disks
    BY ListingConstants
<1>8. c' = c /\ no' = no
    BY <1>1
<1> HIDE DEF c, no
<1>9. {x \in mtab' : x.disk = bay'[c] /\ x.no = no} = {}
    BY <1>5, <1>6, <1>7 DEF MountsOf
<1> QED
    BY <1>8, <1>9 DEF MountsOf, c, no

\* A mount leaves the devices further down the list alone.
LEMMA ActKeeps ==
    ASSUME HostInv, ListInv, MountInv, Act
    PROVE  MountInv'
<1> SUFFICES ASSUME NEW i \in 1 .. Len(list'),
                    Candidate(list[i])', (spc = "act" => i >= pos)'
             PROVE  MountsOf(bay[list[i].bay], list[i].no)' = {}
    BY DEF MountInv
<1> DEFINE e == list[pos]
           f == list[i]
<1>1. UNCHANGED <<spc, list, bay, moved>> /\ spc = "act" /\ pos' = pos + 1
    BY DEF Act, host
<1>2. i \in 1 .. Len(list) /\ i >= pos + 1 /\ pos \in Nat
    BY <1>1 DEF ListInv
<1>3. i >= pos /\ i # pos
    BY <1>2
<1>4. f \in Entry /\ Candidate(f)
    BY <1>1, <1>2, ElementOfSeq DEF ListInv, Candidate
<1>5. MountsOf(bay[f.bay], f.no) = {}
    BY <1>1, <1>2, <1>3, <1>4 DEF MountInv
<1>6. /\ pos \in 1 .. Len(list) /\ e \in Entry
      /\ \/ mtab' = mtab
         \/ mtab' = mtab \cup {NewMount(e)} /\ bay[e.bay] \in Disks
    BY ActMounts
<1>7. ~(e.bay = f.bay /\ e.no = f.no)
    BY <1>2, <1>3, <1>6 DEF ListInv
<1>8. bay[e.bay] \in Disks => ~(bay[f.bay] = bay[e.bay] /\ f.no = e.no)
    BY <1>4, <1>6, <1>7, EntryFields, ListingConstants DEF HostInv
<1>9. f' = f
    BY <1>1
<1> HIDE DEF e, f
<1>10. NewMount(e).disk = bay[e.bay] /\ NewMount(e).no = e.no
    BY DEF NewMount
<1>11. {x \in mtab' : x.disk = bay[f.bay] /\ x.no = f.no} = {}
    BY <1>5, <1>6, <1>8, <1>10 DEF MountsOf
<1> QED
    BY <1>1, <1>9, <1>11 DEF MountsOf, f

\* What is left to be mounted stays unmounted.
LEMMA MountStep ==
    ASSUME HostInv, ListInv, MountInv, [Next]_vars
    PROVE  MountInv'
<1>1. CASE Top \/ Scan \/ CleanUp \/ Wake
    <2>1. spc' \in {"end", "scan", "sleep", "fill", "top"}
        BY <1>1 DEF Top, Scan, CleanUp, Wake, Goto
    <2> QED
        BY <2>1 DEF MountInv
<1>2. CASE Fill
    <2>1. spc = "fill" /\ spc' = "clear" /\ UNCHANGED <<bay, moved, mtab>>
        BY <1>2 DEF Fill, Goto, host
    <2>2. \A i \in 1 .. Len(list) : list[i].format = "" /\ list[i] \in Entry
        BY <2>1, ElementOfSeq DEF ListInv
    <2>3. CASE UNCHANGED list
        BY <2>1, <2>2, <2>3 DEF MountInv, Candidate
    <2>4. CASE list' = [i \in DOMAIN list |-> Filled(list[i])]
        <3>1. Len(list) \in Nat /\ DOMAIN list = 1 .. Len(list)
            BY LenProperties DEF ListInv
        <3>2. Len(list') = Len(list)
            BY <2>4, <3>1
        <3>3. ASSUME NEW i \in 1 .. Len(list'), Candidate(list[i])'
              PROVE  MountsOf(bay[list[i].bay], list[i].no)' = {}
            <4>1. list'[i] = Filled(list[i]) /\ list[i] \in Entry /\ list[i].format = ""
                BY <2>2, <2>4, <3>1, <3>2
            <4>2. Filled(list[i]).format # "" /\ Filled(list[i]).mount = Unnamed
                BY <3>3, <4>1 DEF Candidate
            <4>3. /\ MountsOf(bay[list[i].bay], list[i].no) = {}
                  /\ list'[i].bay = list[i].bay /\ list'[i].no = list[i].no
                BY <4>1, <4>2, FilledIsEntry
            <4> QED
                BY <2>1, <4>3 DEF MountsOf
        <3> QED
            BY <3>3 DEF MountInv
    <2> QED
        BY <1>2, <2>3, <2>4 DEF Fill
<1>3. CASE ClearMap
    BY <1>3 DEF ClearMap, Goto, host, MountInv, Candidate, MountsOf
<1>4. CASE Count
    <2>1. spc = "count" /\ UNCHANGED <<list, bay, moved, mtab>>
        BY <1>4 DEF Count, host
    <2> QED
        BY <2>1 DEF MountInv, Candidate, MountsOf
<1>5. CASE Act
    BY <1>5, ActKeeps
<1>6. CASE Leave
    BY <1>6 DEF Leave, Move, app, MountInv, Candidate, MountsOf
<1>7. ASSUME NEW b \in Bays, Plug(b)
      PROVE  MountInv'
    <2>1. \A c \in Bays : c # b => bay'[c] = bay[c]
        BY <1>7 DEF Plug, HostInv
    <2>2. Move /\ Touch(b) /\ mtab' = mtab
        BY <1>7 DEF Plug
    <2> QED
        BY <2>1, <2>2, TouchKeeps
<1>8. ASSUME NEW b \in Bays, Unplug(b)
      PROVE  MountInv'
    <2>1. \A c \in Bays : c # b => bay'[c] = bay[c]
        BY <1>8 DEF Unplug, HostInv
    <2>2. Move /\ Touch(b) /\ \A x \in mtab' : x \in mtab
        BY <1>8 DEF Unplug
    <2> QED
        BY <2>1, <2>2, TouchKeeps
<1>9. ASSUME NEW b \in Bays, Partition(b)
      PROVE  MountInv'
    <2>1. Move /\ Touch(b) /\ mtab' = mtab /\ bay' = bay
        BY <1>9 DEF Partition
    <2> QED
        BY <2>1, TouchKeeps
<1>10. ASSUME NEW b \in Bays, NEW no \in Nos, MountOther(b, no)
       PROVE  MountInv'
    <2>1. Move /\ Touch(b) /\ bay' = bay
        BY <1>10 DEF MountOther
    <2>2. bay[b] \in Disks
        BY <1>10 DEF MountOther, Here, HostInv
    <2> DEFINE y == [disk |-> bay[b], no |-> no, target |-> Elsewhere,
                     by |-> "other", sure |-> TRUE]
    <2>3. \A x \in mtab' : x \in mtab \/ x = y
        <3> HIDE DEF y
        <3>1. mtab' = mtab \cup {y} \/ mtab' = mtab \ MountsOf(bay[b], no)
            BY <1>10 DEF MountOther, y
        <3> QED
            BY <3>1
    <2>4. \A x \in mtab' : x \in mtab \/ x.disk = bay[b]
        BY <2>3
    <2> QED
        BY <2>1, <2>2, <2>4, TouchKeeps
<1>11. CASE UNCHANGED vars
    BY <1>11 DEF vars, app, host, MountInv, Candidate, MountsOf
<1> QED
    BY <1>1, <1>2, <1>3, <1>4, <1>5, <1>6, <1>7, <1>8, <1>9, <1>10, <1>11
       DEF Next, SmartdiskStep, Others

\* The plan is made for an entry of the list and forgotten at the end of the
\* pass.
LEMMA PlanStep ==
    ASSUME ListInv, PlanInv, [Next]_vars
    PROVE  PlanInv'
<1>1. CASE UNCHANGED <<plan, pick>>
    BY <1>1 DEF PlanInv
<1>2. CASE Top \/ Scan \/ Fill \/ ClearMap \/ Count \/ Wake
    BY <1>1, <1>2 DEF Top, Scan, Fill, ClearMap, Count, Wake
<1>3. CASE Act
    <2>1. pos \in Nat /\ pos >= 1 /\ pos <= Len(list) /\ list \in Seq(Entry)
        BY <1>3 DEF Act, ListInv
    <2>2. list[pos] \in Entry
        BY <2>1, ElementOfSeq
    <2>3. CASE plan' = PartitionsByOffset(list[pos].blocks) /\ pick' = list[pos]
        BY <2>2, <2>3 DEF PlanInv, PartitionsByOffset, PartNum
    <2> QED
        BY <1>1, <1>3, <2>3 DEF Act
<1>4. CASE CleanUp
    BY <1>4 DEF CleanUp, PlanInv
<1>5. CASE Others
    <2>1. UNCHANGED app
        BY <1>5 DEF Others, Leave, Plug, Unplug, Partition, MountOther, Move
    <2> QED
        BY <1>1, <2>1 DEF app
<1>6. CASE UNCHANGED vars
    BY <1>1, <1>6 DEF vars, app
<1> QED
    BY <1>2, <1>3, <1>4, <1>5, <1>6 DEF Next, SmartdiskStep

-----------------------------------------------------------------------------
(***************************************************************************)
(* The map of counts.                                                      *)
(***************************************************************************)

\* The identities of the first n entries, and how many of them are partitions.
PartsOf(l, n, w) == {i \in 1 .. n : l[i].wwn = w /\ l[i].part > -1}
Tally(l, n) == [w \in {l[i].wwn : i \in 1 .. n} |-> Cardinality(PartsOf(l, n, w))]

\* The map counts the entries up to the position.
MapInv ==
    /\ WellFormed(dmap)
    /\ spc = "count" => pos <= Len(list) + 1
    /\ spc \in {"count", "act"} =>
        Contents(dmap) = Tally(list, IF spc = "count" THEN pos - 1 ELSE Len(list))

\* What the numbers of partitions are.
LEMMA TallyFacts ==
    ASSUME NEW l, NEW n \in Nat, NEW w
    PROVE  /\ IsFiniteSet(PartsOf(l, n, w)) /\ Cardinality(PartsOf(l, n, w)) \in Nat
           /\ PartsOf(l, n, w) \subseteq 1 .. n
           /\ w \notin DOMAIN Tally(l, n) => Cardinality(PartsOf(l, n, w)) = 0
           /\ w \in DOMAIN Tally(l, n) => Tally(l, n)[w] = Cardinality(PartsOf(l, n, w))
<1>1. PartsOf(l, n, w) \subseteq 1 .. n
    BY DEF PartsOf
<1>2. IsFiniteSet(1 .. n)
    BY FS_Interval
<1>3. IsFiniteSet(PartsOf(l, n, w))
    BY <1>1, <1>2, FS_Subset
<1>4. Cardinality(PartsOf(l, n, w)) \in Nat
    BY <1>3, FS_CardinalityType
<1>5. w \notin DOMAIN Tally(l, n) => PartsOf(l, n, w) = {}
    BY DEF Tally, PartsOf
<1>6. w \in DOMAIN Tally(l, n) => Tally(l, n)[w] = Cardinality(PartsOf(l, n, w))
    BY DEF Tally
<1> QED
    BY <1>1, <1>3, <1>4, <1>5, <1>6, FS_EmptySet

\* One more entry.
LEMMA TallyNext ==
    ASSUME NEW l, NEW n \in Nat, l[n + 1].part \in -1 .. NParts
    PROVE  LET w == l[n + 1].wwn
               t == Tally(l, n)
           IN  Tally(l, n + 1) =
                 IF w \in DOMAIN t
                 THEN IF l[n + 1].part > -1 THEN [t EXCEPT ![w] = @ + 1] ELSE t
                 ELSE With(t, w, IF l[n + 1].part = -1 THEN 0 ELSE 1)
<1> DEFINE w == l[n + 1].wwn
           t == Tally(l, n)
           u == Tally(l, n + 1)
           r == IF w \in DOMAIN t
                THEN IF l[n + 1].part > -1 THEN [t EXCEPT ![w] = @ + 1] ELSE t
                ELSE With(t, w, IF l[n + 1].part = -1 THEN 0 ELSE 1)
           c(x) == Cardinality(PartsOf(l, n, x))
           d(x) == Cardinality(PartsOf(l, n + 1, x))
<1>1. 1 .. n + 1 = (1 .. n) \cup {n + 1} /\ n + 1 \notin 1 .. n /\ n + 1 \in Nat
    OBVIOUS
<1>2. /\ DOMAIN u = DOMAIN t \cup {w}
      /\ u = [x \in DOMAIN u |-> u[x]] /\ t = [x \in DOMAIN t |-> t[x]]
    <2>1. DOMAIN u = {l[i].wwn : i \in 1 .. n + 1} /\ DOMAIN t = {l[i].wwn : i \in 1 .. n}
        BY DEF Tally
    <2>2. u = [x \in DOMAIN u |-> u[x]] /\ t = [x \in DOMAIN t |-> t[x]]
        BY DEF Tally
    <2> HIDE DEF u, t
    <2> QED
        BY <1>1, <2>1, <2>2
<1>3. ASSUME NEW x
      PROVE  /\ c(x) \in Nat
             /\ d(x) = IF x = w /\ l[n + 1].part > -1 THEN c(x) + 1 ELSE c(x)
    <2>1. c(x) \in Nat /\ IsFiniteSet(PartsOf(l, n, x)) /\ n + 1 \notin PartsOf(l, n, x)
        BY <1>1, TallyFacts
    <2>2. CASE x = w /\ l[n + 1].part > -1
        <3>1. PartsOf(l, n + 1, x) = PartsOf(l, n, x) \cup {n + 1}
            BY <1>1, <2>2 DEF PartsOf
        <3> QED
            BY <2>1, <2>2, <3>1, FS_AddElement
    <2>3. CASE ~(x = w /\ l[n + 1].part > -1)
        <3>1. PartsOf(l, n + 1, x) = PartsOf(l, n, x)
            BY <1>1, <2>3 DEF PartsOf
        <3> QED
            BY <2>1, <2>3, <3>1
    <2> QED
        BY <2>2, <2>3
<1>4. /\ \A x \in DOMAIN t : t[x] = c(x)
      /\ \A x : x \notin DOMAIN t => c(x) = 0
      /\ \A x \in DOMAIN u : u[x] = d(x)
    BY <1>1, TallyFacts
<1> HIDE DEF u, t, c, d
<1>5. DOMAIN r = DOMAIN t \cup {w} /\ r = [x \in DOMAIN r |-> r[x]]
    <2>1. CASE w \in DOMAIN t /\ l[n + 1].part > -1
        BY <1>2, <2>1
    <2>2. CASE w \in DOMAIN t /\ ~(l[n + 1].part > -1)
        BY <1>2, <2>2
    <2>3. CASE w \notin DOMAIN t
        BY <1>2, <2>3 DEF With
    <2> QED
        BY <2>1, <2>2, <2>3
<1>6. ASSUME NEW x \in DOMAIN t \cup {w}
      PROVE  r[x] = u[x]
    <2>1. u[x] = IF x = w /\ l[n + 1].part > -1 THEN c(x) + 1 ELSE c(x)
        BY <1>2, <1>3, <1>4
    <2>2. CASE w \in DOMAIN t /\ l[n + 1].part > -1
        BY <1>2, <1>4, <2>1, <2>2
    <2>3. CASE w \in DOMAIN t /\ ~(l[n + 1].part > -1)
        BY <1>4, <2>1, <2>3
    <2>4. CASE w \notin DOMAIN t
        <3>1. r[x] = IF x = w THEN (IF l[n + 1].part = -1 THEN 0 ELSE 1) ELSE t[x]
            BY <2>4 DEF With
        <3>2. CASE x = w
            <4>1. c(x) = 0
                BY <1>4, <2>4, <3>2
            <4> QED
                BY <2>1, <3>1, <3>2, <4>1, Sizes
        <3>3. CASE x # w
            BY <1>4, <2>1, <3>1, <3>3
        <3> QED
            BY <3>2, <3>3
    <2> QED
        BY <2>2, <2>3, <2>4
<1> HIDE DEF r
<1> QED
    BY <1>2, <1>5, <1>6, SameFunction DEF r, u, t

\* Counting an entry is a put or an increment of the contents, if it is not
\* that of a whole disk whose identity is known already.
LEMMA CountedMaps ==
    ASSUME WellFormed(dmap), NEW e, e.wwn \in Keys
    PROVE  LET w == e.wwn
               t == Contents(dmap)
               c == Counted(dmap, e)
               n == IF e.part = -1 THEN 0 ELSE 1
           IN  /\ WellFormed(c)
               /\ Contents(c) = IF w \in DOMAIN t
                                THEN IF e.part > -1 THEN [t EXCEPT ![w] = @ + 1] ELSE t
                                ELSE With(t, w, n)
               /\ n \in {0, 1}
<1> DEFINE w == e.wwn
           n == IF e.part = -1 THEN 0 ELSE 1
<1>1. DOMAIN Contents(dmap) = Held(dmap) /\ (Exists(dmap, w) <=> w \in Held(dmap))
    BY ContentsFacts DEF Held
<1>2. n \in Int /\ n \in {0, 1}
    OBVIOUS
<1> HIDE DEF n
<1>3. CASE w \in Held(dmap) /\ e.part > -1
    <2>1. Counted(dmap, e) = Inc(dmap, w, 1)
        BY <1>1, <1>3 DEF Counted
    <2> HIDE DEF w
    <2>2. /\ WellFormed(Inc(dmap, w, 1))
          /\ Contents(Inc(dmap, w, 1)) = [Contents(dmap) EXCEPT ![w] = @ + 1]
        BY <1>3, IncMaps
    <2>3. w \in DOMAIN Contents(dmap)
        BY <1>1, <1>3
    <2> QED
        BY <1>2, <1>3, <2>1, <2>2, <2>3 DEF n, w
<1>4. CASE w \in Held(dmap) /\ ~(e.part > -1)
    BY <1>1, <1>4 DEF Counted
<1>5. CASE w \notin Held(dmap)
    <2>1. Counted(dmap, e) = Put(dmap, w, n)
        BY <1>1, <1>5 DEF Counted, n
    <2> QED
        BY <1>1, <1>2, <1>5, <2>1, PutMaps DEF n
<1> QED
    BY <1>3, <1>4, <1>5

\* Between the listing and the end of the pass the list stays as it is, and no
\* other step touches the map.
LEMMA MapStep ==
    ASSUME HostInv, ListInv, MapInv, [Next]_vars
    PROVE  /\ MapInv'
           /\ \/ UNCHANGED Contents(dmap)
              \/ Contents(dmap)' = [k \in {} |-> 0]
              \/ \E k \in Keys : \E n \in {0, 1} : Contents(dmap)' = With(Contents(dmap), k, n)
              \/ \E k \in Keys : k \in DOMAIN Contents(dmap)
                                 /\ Contents(dmap)' = [Contents(dmap) EXCEPT ![k] = @ + 1]
<1>1. CASE UNCHANGED <<spc, list, pos, dmap>>
    BY <1>1 DEF MapInv
<1>2. CASE Top \/ Scan \/ Fill \/ CleanUp \/ Wake
    <2>1. spc' \in {"end", "scan", "sleep", "fill", "clear", "top"} /\ UNCHANGED dmap
        BY <1>2 DEF Top, Scan, Fill, CleanUp, Wake, Goto
    <2> QED
        BY <2>1 DEF MapInv
<1>3. CASE ClearMap
    <2>1. /\ spc' = "count" /\ pos' = 1 /\ UNCHANGED list /\ dmap' = Clear(dmap)
        BY <1>3 DEF ClearMap, Goto
    <2>2. WellFormed(dmap') /\ Contents(dmap') = [k \in {} |-> 0]
        BY <2>1, ClearEmpty DEF MapInv
    <2>3. Tally(list, 0) = [k \in {} |-> 0]
        BY DEF Tally
    <2>4. pos' <= Len(list') + 1 /\ pos' - 1 = 0
        <3>1. Len(list) \in Nat
            BY LenProperties DEF ListInv
        <3> QED
            BY <2>1, <3>1
    <2> QED
        BY <2>1, <2>2, <2>3, <2>4 DEF MapInv
<1>4. CASE Count
    <2>1. spc = "count" /\ UNCHANGED list /\ pos \in Nat /\ pos >= 1 /\ Len(list) \in Nat
        BY <1>4, LenProperties DEF Count, ListInv
    <2>2. CASE pos <= Len(list)
        <3> DEFINE e == list[pos]
        <3>1. e \in Entry
            BY <2>1, <2>2, ElementOfSeq DEF ListInv
        <3>2. dmap' = Counted(dmap, e) /\ pos' = pos + 1 /\ spc' = "count"
            BY <1>4, <2>1, <2>2 DEF Count
        <3>3. PICK n \in Nat : n = pos - 1
            BY <2>1
        <3>4. pos = n + 1 /\ pos' - 1 = n + 1 /\ pos' <= Len(list') + 1
            BY <2>1, <2>2, <3>2, <3>3
        <3>5. Contents(dmap) = Tally(list, n)
            BY <2>1, <3>3 DEF MapInv
        <3>6. e.wwn \in Keys /\ e.part \in -1 .. NParts
            BY <3>1, EntryFields
        <3>7. Contents(Counted(dmap, e)) = Tally(list, n + 1)
            BY <3>4, <3>5, <3>6, TallyNext, CountedMaps DEF MapInv
        <3>8. MapInv'
            BY <2>1, <3>2, <3>4, <3>6, <3>7, CountedMaps DEF MapInv
        <3>9. \/ Contents(dmap)' = Contents(dmap)
              \/ \E m \in {0, 1} : Contents(dmap)' = With(Contents(dmap), e.wwn, m)
              \/ e.wwn \in DOMAIN Contents(dmap)
                 /\ Contents(dmap)' = [Contents(dmap) EXCEPT ![e.wwn] = @ + 1]
            BY <3>2, <3>6, CountedMaps DEF MapInv
        <3> QED
            BY <3>6, <3>8, <3>9
    <2>3. CASE ~(pos <= Len(list))
        <3>1. UNCHANGED dmap /\ spc' = "act" /\ pos - 1 = Len(list)
            BY <1>4, <2>1, <2>3 DEF Count, MapInv
        <3> QED
            BY <2>1, <3>1 DEF MapInv
    <2> QED
        BY <2>2, <2>3
<1>5. CASE Act
    <2>1. UNCHANGED <<spc, list, dmap>> /\ spc = "act"
        BY <1>5 DEF Act
    <2> QED
        BY <2>1 DEF MapInv
<1>6. CASE Others
    BY <1>1, <1>6 DEF Others, Leave, Plug, Unplug, Partition, MountOther, Move, app
<1>7. CASE UNCHANGED vars
    BY <1>1, <1>7 DEF vars, app
<1> QED
    BY <1>2, <1>3, <1>4, <1>5, <1>6, <1>7 DEF Next, SmartdiskStep

-----------------------------------------------------------------------------
(***************************************************************************)
(* Types.                                                                  *)
(***************************************************************************)

\* The plan's numbers are block counts.
LEMMA PlanTyped ==
    ASSUME NEW blocks \in 0 .. Wrap - 1
    PROVE  PartitionsByOffset(blocks) \in Seq(Planned)
<1> DEFINE n == PartNum(blocks)
           start(i) == ((i - 1) * (Offset + 1)) % Wrap
           p == PartitionsByOffset(blocks)
<1>1. n \in Nat /\ (n > 1 => Offset <= blocks)
    <2>1. CASE blocks = 0
        BY <2>1 DEF PartNum
    <2>2. CASE blocks # 0
        <3>1. PICK b \in Nat : b = blocks - 1
            BY <2>2, Sizes
        <3>2. PICK f \in Nat \ {0} : f = Offset
            BY Sizes
        <3>3. b \div f \in Nat /\ (b < f => b \div f = 0)
            OBVIOUS
        <3>4. n = b \div f + 1
            BY <2>2, <3>1, <3>2 DEF PartNum
        <3>5. b >= f => Offset <= blocks
            BY <3>1, <3>2, Sizes
        <3> HIDE DEF n
        <3> QED
            BY <3>3, <3>4, <3>5
    <2> QED
        BY <2>1, <2>2
<1>2. p = [i \in 1 .. n |-> [start  |-> start(i),
                             blocks |-> IF i < n THEN Offset ELSE (blocks - start(i)) % Wrap]]
    BY DEF PartitionsByOffset
<1> HIDE DEF n, p
<1>3. ASSUME NEW i \in 1 .. n
      PROVE  start(i) \in 0 .. Wrap - 1 /\ start(i) \in Int
    <2>1. PICK a \in Int : a = (i - 1) * (Offset + 1)
        BY Sizes
    <2>2. a % Wrap \in 0 .. Wrap - 1
        BY Sizes
    <2> QED
        BY <2>1, <2>2, Sizes
<1> HIDE DEF start
<1>4. ASSUME NEW i \in 1 .. n
      PROVE  (IF i < n THEN Offset ELSE (blocks - start(i)) % Wrap) \in 0 .. Wrap - 1
    <2>1. PICK a \in Int : a = blocks - start(i)
        BY <1>3, Sizes
    <2>2. a % Wrap \in 0 .. Wrap - 1
        BY Sizes
    <2>3. i < n => Offset \in 0 .. Wrap - 1
        BY <1>1, Sizes
    <2> QED
        BY <2>1, <2>2, <2>3
<1>5. p \in [1 .. n -> Planned]
    BY <1>2, <1>3, <1>4 DEF Planned
<1>6. p \in Seq(Planned)
    BY <1>1, <1>5, SeqOfFunction
<1> QED
    BY <1>6 DEF p

\* A fault and a step of others cost of the bounds, and nothing else does.
LEMMA BudgetTyped ==
    ASSUME TypeInv, NEW kind, Fault(kind) \/ Move \/ NoFault
    PROVE  budget' \in [faults : 0 .. MaxFaults, moves : 0 .. MaxMoves]
<1>1. budget \in [faults : 0 .. MaxFaults, moves : 0 .. MaxMoves]
    BY DEF TypeInv
<1>2. budget.faults \in 0 .. MaxFaults /\ budget.moves \in 0 .. MaxMoves
    BY <1>1
<1>3. MaxFaults \in Nat /\ MaxMoves \in Nat
    BY Zenon, SmartdiskAssumption
<1>4. CASE Fault(kind)
    <2>1. budget.faults > 0 /\ budget' = [budget EXCEPT !.faults = @ - 1]
        BY <1>4 DEF Fault
    <2>2. budget.faults - 1 \in 0 .. MaxFaults
        BY <1>2, <1>3, <2>1
    <2> QED
        BY <1>1, <2>1, <2>2
<1>5. CASE Move
    <2>1. budget.moves > 0 /\ budget' = [budget EXCEPT !.moves = @ - 1]
        BY <1>5 DEF Move
    <2>2. budget.moves - 1 \in 0 .. MaxMoves
        BY <1>2, <1>3, <2>1
    <2> QED
        BY <1>1, <2>1, <2>2
<1>6. CASE NoFault
    BY <1>1, <1>6 DEF NoFault
<1> QED
    BY <1>4, <1>5, <1>6

\* What a step of others does to the types.
LEMMA TouchTyped ==
    ASSUME TypeInv, NEW b \in Bays, Touch(b), Move, UNCHANGED leave
    PROVE  TypeInv'
<1>1. UNCHANGED app
    BY DEF Move
<1>2. moved' \subseteq Bays
    BY DEF Touch, TypeInv
<1>3. budget' \in [faults : 0 .. MaxFaults, moves : 0 .. MaxMoves]
    BY BudgetTyped
<1> QED
    BY Zenon, <1>1, <1>2, <1>3 DEF app, TypeInv

\* Every step keeps the types.
LEMMA TypeStep ==
    ASSUME HostInv, ListInv, TypeInv, [Next]_vars
    PROVE  TypeInv'
<1>1. CASE Top
    <2>1. spc' \in {"end", "scan"}
        BY <1>1 DEF Top, Goto
    <2>2. UNCHANGED <<plan, pick, leave, misread, moved, budget>>
        BY <1>1 DEF Top, host
    <2> QED
        BY Zenon, <2>1, <2>2 DEF TypeInv
<1>2. CASE Scan
    <2>1. spc' \in {"sleep", "fill"}
        BY <1>2 DEF Scan, Goto
    <2>2. UNCHANGED <<plan, pick, leave, moved>>
        BY <1>2 DEF Scan, host
    <2>3. misread' \in BOOLEAN
        BY <1>2 DEF Scan, TypeInv
    <2>4. \E kind : Fault(kind) \/ NoFault
        BY <1>2 DEF Scan
    <2>5. budget' \in [faults : 0 .. MaxFaults, moves : 0 .. MaxMoves]
        BY <2>4, BudgetTyped
    <2> QED
        BY Zenon, <2>1, <2>2, <2>3, <2>5 DEF TypeInv
<1>3. CASE Fill
    <2>1. spc' = "clear"
        BY <1>3 DEF Fill, Goto
    <2>2. UNCHANGED <<plan, pick, leave, moved>>
        BY <1>3 DEF Fill, host
    <2>3. misread' \in BOOLEAN
        BY <1>3 DEF Fill, TypeInv
    <2>4. Fault("lsblk") \/ NoFault
        BY <1>3 DEF Fill
    <2>5. budget' \in [faults : 0 .. MaxFaults, moves : 0 .. MaxMoves]
        BY <2>4, BudgetTyped
    <2> QED
        BY Zenon, <2>1, <2>2, <2>3, <2>5 DEF TypeInv
<1>4. CASE ClearMap \/ Count \/ Wake
    <2>1. spc' \in {"count", "act", "top"}
        BY <1>4 DEF ClearMap, Count, Wake, Goto
    <2>2. UNCHANGED <<plan, pick, leave, misread, moved, budget>>
        BY <1>4 DEF ClearMap, Count, Wake, host
    <2> QED
        BY Zenon, <2>1, <2>2 DEF TypeInv
<1>5. CASE Act
    <2>1. UNCHANGED <<spc, leave, misread, moved>>
        BY <1>5 DEF Act, host
    <2>2. list[pos] \in Entry
        BY <1>5, ActMounts
    <2> DEFINE e == list[pos]
    <2>3. \/ UNCHANGED <<plan, pick>>
          \/ plan' = PartitionsByOffset(e.blocks) /\ pick' = e
        BY <1>5 DEF Act
    <2>4. PartitionsByOffset(e.blocks) \in Seq(Planned)
        BY <2>2, EntryFields, PlanTyped
    <2>5. plan' \in Seq(Planned) /\ pick' \in Entry \cup {Unnamed}
        BY <2>2, <2>3, <2>4 DEF TypeInv
    <2>6. \E kind : Fault(kind) \/ NoFault
        BY <1>5 DEF Act, DiskMount, NoFault
    <2>7. budget' \in [faults : 0 .. MaxFaults, moves : 0 .. MaxMoves]
        BY <2>6, BudgetTyped
    <2> QED
        BY Zenon, <2>1, <2>5, <2>7 DEF TypeInv
<1>6. CASE CleanUp
    <2>1. spc' = "sleep" /\ plan' = <<>> /\ pick' = Unnamed /\ misread' = FALSE /\ moved' = {}
          /\ UNCHANGED <<leave, budget>>
        BY <1>6 DEF CleanUp, Goto
    <2>2. <<>> \in Seq(Planned)
        OBVIOUS
    <2>3. plan' \in Seq(Planned) /\ moved' \subseteq Bays
        BY <2>1, <2>2
    <2> QED
        BY Zenon, <2>1, <2>3 DEF TypeInv
<1>7. CASE Leave
    <2>1. Move /\ leave' = TRUE /\ UNCHANGED <<app, moved>>
        BY <1>7 DEF Leave, Move
    <2>2. budget' \in [faults : 0 .. MaxFaults, moves : 0 .. MaxMoves]
        BY <2>1, BudgetTyped
    <2> QED
        BY Zenon, <2>1, <2>2 DEF TypeInv, app
<1>8. ASSUME NEW b \in Bays, Plug(b) \/ Unplug(b) \/ Partition(b)
      PROVE  TypeInv'
    BY <1>8, TouchTyped DEF Plug, Unplug, Partition
<1>9. ASSUME NEW b \in Bays, NEW no \in Nos, MountOther(b, no)
      PROVE  TypeInv'
    BY <1>9, TouchTyped DEF MountOther
<1>10. CASE UNCHANGED vars
    BY Zenon, <1>10 DEF vars, app, host, TypeInv
<1> QED
    BY <1>1, <1>2, <1>3, <1>4, <1>5, <1>6, <1>7, <1>8, <1>9, <1>10
       DEF Next, SmartdiskStep, Others

\* The parts of the types.
LEMMA TypesFollow ==
    ASSUME HostInv, ListInv, MapInv, TypeInv
    PROVE  TypeOK
<1>1. /\ dmap.length = Cardinality(DOMAIN dmap.table)
      /\ dmap.size = Cardinality(Places(dmap))
      /\ \A b \in DOMAIN dmap.table : dmap.table[b] \in Seq(Node)
    BY WellFormedTypes DEF MapInv
<1>2. list \in Seq(Entry) /\ pos \in Nat
    BY DEF ListInv
<1>3. /\ bay \in [Bays -> Disks \cup {NoDisk}] /\ layout \in [Disks -> Layouts]
      /\ mtab \subseteq Mount
    BY DEF HostInv
<1> QED
    BY Zenon, <1>1, <1>2, <1>3 DEF TypeOK, TypeInv, Planned

-----------------------------------------------------------------------------
(***************************************************************************)
(* What the entries know of the bays.                                      *)
(***************************************************************************)

\* What an entry's identity may be: read from the disk, from its partition
\* table, or not at all.
Ids(d) == {Zero, Wwn[d], DiskId[d]}

\* The entries say what was in the bays when they were listed: with everything
\* read and the bay left alone, a partitioned disk has an entry of a partition,
\* and the file system of a whole disk is known once lsblk was asked.
HasPartition(e) ==
    \E j \in 1 .. Len(list) : list[j].no # -1 /\ list[j].wwn = e.wwn
Known(e) ==
    /\ e.wwn \in Ids(e.disk)
    /\ e.no # -1 => e.part = e.no
    /\ e.bay \notin moved => bay[e.bay] = e.disk
    /\ e.bay \notin moved /\ ~misread /\ layout[e.disk] = "parts" => HasPartition(e)
    /\ /\ e.bay \notin moved /\ ~misread /\ spc # "fill"
       /\ e.no = -1 /\ layout[e.disk] = "whole" /\ ValidType(Fs[e.disk]["whole"])
       => e.format # ""
KnownInv == \A i \in 1 .. Len(list) : Known(list[i])

\* A mount that the application was sure of has the identity of its disk and
\* the number of its partition in the name.
Sure(x) == x.by = "smartdisk" /\ x.sure
SureInv ==
    \A x \in mtab : Sure(x) =>
        /\ x.target[1] \in Ids(x.disk)
        /\ \/ layout[x.disk] = "whole" /\ x.no = -1
           \/ layout[x.disk] = "parts" /\ x.no # -1 /\ x.target[2] = x.no

\* An order of a finite set holds all of it.
LEMMA OrderHoldsAll ==
    ASSUME NEW S \in SUBSET Devices, NEW order \in SetToSeqs(S), NEW x \in S
    PROVE  \E i \in DOMAIN order : order[i] = x
<1> DEFINE n == Cardinality(S)
           T == 1 .. n
<1>1. n \in Nat /\ IsFiniteSet(S)
    BY DevicesFinite
<1>2. order \in [T -> S] /\ \A i, j \in T : i # j => order[i] # order[j]
    BY DEF SetToSeqs
<1> HIDE DEF n
<1>3. IsFiniteSet(T) /\ Cardinality(T) = n
    <2>1. 1 \in Int /\ n \in Int /\ (1 > n <=> n = 0) /\ n - 1 + 1 = n
        BY <1>1
    <2>2. IsFiniteSet(1 .. n) /\ Cardinality(1 .. n) = IF 1 > n THEN 0 ELSE n - 1 + 1
        BY <2>1, FS_Interval
    <2> QED
        BY <1>1, <2>1, <2>2
<1> HIDE DEF T
<1>4. order \in Injection(T, S)
    BY <1>2 DEF Injection, IsInjective
<1>5. order \in Surjection(T, S)
    BY <1>1, <1>3, <1>4, FS_Injection DEF n
<1> QED
    BY <1>2, <1>5 DEF Surjection

\* What the entries of a listing are: of devices that are there, with an
\* identity of the disk that the bay decides, and of every such device if
\* nothing failed.
LEMMA ListingKnows ==
    ASSUME HostInv, NEW kind, NEW dev, NEW parsed, NEW l \in Listings(kind, dev, parsed)
    PROVE  /\ \A i \in 1 .. Len(l) :
                \E x \in Devices : /\ l[i].bay = x[1] /\ l[i].no = x[2]
                                   /\ l[i].disk = bay[x[1]] /\ l[i].wwn \in Ids(bay[x[1]])
                                   /\ l[i].part = TailingInteger(x[1], x[2])
           /\ kind = "none" =>
                /\ \A x \in Devices : \E i \in 1 .. Len(l) : l[i].bay = x[1] /\ l[i].no = x[2]
                /\ \A i, j \in 1 .. Len(l) : l[i].bay = l[j].bay => l[i].wwn = l[j].wwn
<1> DEFINE fails(k, x) == kind = k /\ x = dev
           opened    == {x \in Devices : ~fails("open", x)}
           answered  == {x \in opened : x[1] \notin Mute /\ ~fails("identity", x)}
           backup(x) == IF answered = {} /\ kind # "fdisk" THEN Backup(x[1], parsed) ELSE Zero
           wwn(x)    == IF x \in answered THEN Wwn[bay[x[1]]] ELSE backup(x)
           sized(x)  == ~fails("size", x) \/ backup(x) # Zero
           entry     == [x \in opened |-> Listed(x, wwn(x), sized(x))]
<1>1. PICK order \in SetToSeqs(opened) : l = [i \in DOMAIN order |-> entry[order[i]]]
    BY Zenon DEF Listings
<1>2. opened \in SUBSET Devices /\ (kind = "none" => opened = Devices)
    OBVIOUS
<1>3. \A x \in Devices : wwn(x) \in Ids(bay[x[1]])
    BY DEF Ids, Backup
<1>4. kind = "none" =>
        \A x, y \in Devices : x[1] = y[1] => wwn(x) = wwn(y)
    <2> HIDE DEF backup
    <2>1. ASSUME kind = "none", NEW x \in Devices, NEW y \in Devices, x[1] = y[1]
          PROVE  wwn(x) = wwn(y)
        <3>1. x \in answered <=> y \in answered
            BY <2>1
        <3> HIDE DEF answered
        <3>2. backup(x) = backup(y)
            BY <2>1 DEF backup
        <3> QED
            BY <2>1, <3>1, <3>2
    <2> QED
        BY <2>1
<1> HIDE DEF wwn, sized
<1>5. ASSUME NEW x \in Devices
      PROVE  LET e == Listed(x, wwn(x), sized(x))
             IN  /\ e.bay = x[1] /\ e.no = x[2] /\ e.disk = bay[x[1]]
                 /\ e.wwn = wwn(x) /\ e.part = TailingInteger(x[1], x[2])
    BY DEF Listed
<1>6. \A x \in opened : /\ entry[x].bay = x[1] /\ entry[x].no = x[2]
                        /\ entry[x].disk = bay[x[1]] /\ entry[x].wwn = wwn(x)
                        /\ entry[x].part = TailingInteger(x[1], x[2])
    <2> HIDE DEF opened
    <2>1. \A x \in opened : entry[x] = Listed(x, wwn(x), sized(x))
        OBVIOUS
    <2> HIDE DEF entry
    <2> QED
        BY <1>2, <1>5, <2>1
<1> HIDE DEF opened, entry, wwn
<1> DEFINE n == Cardinality(opened)
<1>7. n \in Nat
    BY <1>2, DevicesFinite
<1>8. order \in [1 .. n -> opened]
    BY DEF SetToSeqs
<1> HIDE DEF n
<1>9. DOMAIN order = 1 .. n /\ \A i \in 1 .. n : order[i] \in opened
    BY <1>8
<1>10. Len(l) = n /\ \A i \in 1 .. n : l[i] = entry[order[i]]
    <2>1. l = [i \in 1 .. n |-> entry[order[i]]]
        BY <1>1, <1>9
    <2> QED
        BY <1>7, <2>1
<1>11. \A x \in opened : \E i \in 1 .. n : order[i] = x
    BY <1>2, <1>9, OrderHoldsAll
<1>12. ASSUME NEW i \in 1 .. n
       PROVE  /\ order[i] \in Devices
              /\ l[i].bay = order[i][1] /\ l[i].no = order[i][2]
              /\ l[i].disk = bay[order[i][1]] /\ l[i].wwn = wwn(order[i])
              /\ l[i].part = TailingInteger(order[i][1], order[i][2])
    BY <1>2, <1>6, <1>9, <1>10
<1>13. \A i \in 1 .. n :
         \E x \in Devices : /\ l[i].bay = x[1] /\ l[i].no = x[2]
                            /\ l[i].disk = bay[x[1]] /\ l[i].wwn \in Ids(bay[x[1]])
                            /\ l[i].part = TailingInteger(x[1], x[2])
    BY <1>3, <1>12
<1>14. kind = "none" =>
         \A x \in Devices : \E i \in 1 .. n : l[i].bay = x[1] /\ l[i].no = x[2]
    BY <1>2, <1>11, <1>12
<1>15. kind = "none" =>
         \A i, j \in 1 .. n : l[i].bay = l[j].bay => l[i].wwn = l[j].wwn
    BY <1>4, <1>12
<1> QED
    BY <1>10, <1>13, <1>14, <1>15

\* "" is no type that is compared.
LEMMA NoTypeIsValid == ~ValidType("")
    BY DEF ValidType, AllTypes

\* lsblk leaves alone what an entry is of, and finds a file system on a whole
\* disk that is still in its bay.
LEMMA FilledKnows ==
    ASSUME HostInv, NEW e \in Entry
    PROVE  /\ Filled(e).disk = e.disk /\ Filled(e).wwn = e.wwn
           /\ e.part # -1 => Filled(e).part = e.part
           /\ /\ bay[e.bay] = e.disk /\ e.no = -1 /\ layout[e.disk] = "whole"
              /\ ValidType(Fs[e.disk]["whole"])
              => Filled(e).format # ""
<1> DEFINE fs == IF Here(e.bay, e.no) THEN FsOn(bay[e.bay], e.no) ELSE ""
           ms == MountsOf(bay[e.bay], e.no)
<1>1. Filled(e) = IF ValidType(fs)
                  THEN [e EXCEPT !.format = fs, !.part = IF @ = -1 THEN 0 ELSE @,
                                 !.mount = IF ms = {} THEN @
                                           ELSE (CHOOSE x \in ms : TRUE).target]
                  ELSE e
    BY DEF Filled
<1>2. /\ bay[e.bay] = e.disk /\ e.no = -1 /\ layout[e.disk] = "whole"
      /\ ValidType(Fs[e.disk]["whole"])
      => ValidType(fs)
    BY EntryFields, ListingConstants DEF Here, FsOn
<1> HIDE DEF fs, ms
<1>3. CASE ValidType(fs)
    <2> DEFINE m == IF ms = {} THEN e.mount ELSE (CHOOSE x \in ms : TRUE).target
               q == IF e.part = -1 THEN 0 ELSE e.part
    <2>1. Filled(e) = [e EXCEPT !.format = fs, !.part = q, !.mount = m]
        BY <1>1, <1>3
    <2>2. e.part # -1 => q = e.part
        OBVIOUS
    <2> HIDE DEF m, q
    <2>3. /\ Filled(e).disk = e.disk /\ Filled(e).wwn = e.wwn /\ Filled(e).part = q
          /\ Filled(e).format = fs
        BY <2>1 DEF Entry
    <2> QED
        BY <1>3, <2>2, <2>3, NoTypeIsValid
<1>4. CASE ~ValidType(fs)
    BY <1>1, <1>2, <1>4
<1> QED
    BY <1>3, <1>4

\* A reading of /dev gives entries that are known.
LEMMA ScanKnows ==
    ASSUME HostInv, NEW kind, NEW dev, NEW parsed, NEW l \in Listings(kind, dev, parsed),
           list' = l, spc' = "fill", misread' = (kind # "none"),
           UNCHANGED <<bay, layout, moved>>
    PROVE  KnownInv'
<1> SUFFICES ASSUME NEW i \in 1 .. Len(l)
             PROVE  Known(list[i])'
    BY DEF KnownInv
<1>1. PICK x \in Devices : /\ l[i].bay = x[1] /\ l[i].no = x[2]
                           /\ l[i].disk = bay[x[1]] /\ l[i].wwn \in Ids(bay[x[1]])
                           /\ l[i].part = TailingInteger(x[1], x[2])
    BY ListingKnows
<1>2. /\ l[i].wwn \in Ids(l[i].disk) /\ bay[l[i].bay] = l[i].disk
      /\ l[i].no # -1 => l[i].part = l[i].no
    BY <1>1 DEF TailingInteger
<1>3. ASSUME kind = "none", layout[l[i].disk] = "parts"
      PROVE  \E j \in 1 .. Len(l) : l[j].no # -1 /\ l[j].wwn = l[i].wwn
    <2>1. x[1] \in Bays /\ Here(x[1], 1)
        BY <1>1, <1>3 DEF Devices, Here
    <2>2. 1 \in Nos
        BY Sizes DEF Nos
    <2>3. <<x[1], 1>> \in Devices
        BY <2>1, <2>2 DEF Devices
    <2>4. PICK j \in 1 .. Len(l) : l[j].bay = x[1] /\ l[j].no = 1
        BY <1>3, <2>3, ListingKnows
    <2>5. l[j].bay = l[i].bay
        BY <1>1, <2>4
    <2>6. l[j].wwn = l[i].wwn
        BY <1>3, <2>5, ListingKnows
    <2>7. l[j].no # -1
        BY <2>4
    <2> QED
        BY <2>6, <2>7
<1> QED
    BY <1>2, <1>3 DEF Known, HasPartition, Ids

\* lsblk keeps them known.
LEMMA FillKnows ==
    ASSUME HostInv, ListInv, KnownInv, Fill
    PROVE  KnownInv'
<1>1. spc' = "clear" /\ UNCHANGED <<bay, layout, moved>>
    BY DEF Fill, Goto, host
<1>2. CASE UNCHANGED list /\ misread' = TRUE
    <2>1. ASSUME NEW i \in 1 .. Len(list)
          PROVE  Known(list[i])'
        <3>1. Known(list[i])
            BY DEF KnownInv
        <3> QED
            BY <1>1, <1>2, <3>1 DEF Known, Ids
    <2> QED
        BY <1>2, <2>1 DEF KnownInv
<1>3. CASE list' = [i \in DOMAIN list |-> Filled(list[i])] /\ UNCHANGED misread
    <2> DEFINE n == Len(list)
    <2>1. n \in Nat /\ DOMAIN list = 1 .. n
        BY LenProperties DEF ListInv
    <2>2. \A i \in 1 .. n : list[i] \in Entry /\ Known(list[i])
        BY ElementOfSeq DEF ListInv, KnownInv
    <2> HIDE DEF n
    <2>3. Len(list') = n /\ \A i \in 1 .. n : list'[i] = Filled(list[i])
        BY <1>3, <2>1
    <2>4. ASSUME NEW i \in 1 .. n
          PROVE  Known(list[i])'
        <3> DEFINE e == list[i]
                   f == list'[i]
        <3>1. e \in Entry /\ Known(e) /\ f = Filled(e)
            BY <2>2, <2>3
        <3>2. /\ f.bay = e.bay /\ f.no = e.no /\ f.disk = e.disk /\ f.wwn = e.wwn
              /\ e.part # -1 => f.part = e.part
              /\ /\ bay[e.bay] = e.disk /\ e.no = -1 /\ layout[e.disk] = "whole"
                 /\ ValidType(Fs[e.disk]["whole"])
                 => f.format # ""
            BY <3>1, FilledIsEntry, FilledKnows
        <3>3. HasPartition(e) => HasPartition(list[i])'
            <4>1. \A j \in 1 .. n : list'[j].no = list[j].no /\ list'[j].wwn = list[j].wwn
                BY <2>2, <2>3, FilledIsEntry, FilledKnows
            <4> QED
                BY <2>3, <3>2, <4>1 DEF HasPartition, n
        <3> HIDE DEF e, f
        <3>4. /\ f.wwn \in Ids(f.disk)
              /\ f.no # -1 => f.part = f.no
              /\ f.bay \notin moved => bay[f.bay] = f.disk
              /\ f.bay \notin moved /\ ~misread /\ layout[f.disk] = "parts" => HasPartition(e)
              /\ /\ f.bay \notin moved /\ ~misread
                 /\ f.no = -1 /\ layout[f.disk] = "whole" /\ ValidType(Fs[f.disk]["whole"])
                 => f.format # ""
            BY <3>1, <3>2 DEF Known
        <3> QED
            BY <1>1, <1>3, <3>3, <3>4 DEF Known, Ids, e, f
    <2> QED
        BY <2>3, <2>4 DEF KnownInv
<1> QED
    BY <1>2, <1>3 DEF Fill

\* Others make a bay touched, and change nothing of the others.
LEMMA TouchKnows ==
    ASSUME HostInv, ListInv, KnownInv, NEW b \in Bays, Touch(b), Move,
           \A c \in Bays : c # b => bay'[c] = bay[c],
           \A d \in Disks : layout'[d] = layout[d] \/ d = bay[b]
    PROVE  KnownInv'
<1>1. UNCHANGED <<spc, list, misread>> /\ spc \in {"top", "fill", "act"}
    BY DEF Move, app
<1>2. CASE spc = "top"
    <2>1. list' = <<>>
        BY <1>1, <1>2 DEF ListInv
    <2>2. 1 .. Len(<<>>) = {}
        OBVIOUS
    <2> QED
        BY <2>1, <2>2 DEF KnownInv
<1>3. CASE spc # "top"
    <2>1. moved' = moved \cup {b}
        BY <1>1, <1>3 DEF Touch
    <2>2. ASSUME NEW i \in 1 .. Len(list)
          PROVE  Known(list[i])'
        <3> DEFINE e == list[i]
        <3>1. e \in Entry /\ Known(e) /\ e.bay \in Bays /\ e.disk \in Disks
            BY ElementOfSeq, EntryFields DEF ListInv, KnownInv
        <3>2. e' = e /\ (HasPartition(e) => HasPartition(list[i])')
            BY <1>1 DEF HasPartition
        <3> HIDE DEF e
        <3>3. ASSUME e.bay \notin moved'
              PROVE  e.bay \notin moved /\ bay'[e.bay] = e.disk
                     /\ layout'[e.disk] = layout[e.disk]
            <4>1. e.bay \notin moved /\ e.bay # b /\ bay[e.bay] = e.disk
                BY <2>1, <3>1, <3>3 DEF Known
            <4>2. e.disk # bay[b]
                BY <3>1, <4>1, ListingConstants DEF HostInv
            <4> QED
                BY <3>1, <4>1, <4>2
        <3>4. /\ e.wwn \in Ids(e.disk)
              /\ e.no # -1 => e.part = e.no
              /\ e.bay \notin moved' => bay'[e.bay] = e.disk
              /\ e.bay \notin moved' /\ ~misread /\ layout'[e.disk] = "parts"
                 => HasPartition(e)
              /\ /\ e.bay \notin moved' /\ ~misread /\ spc # "fill"
                 /\ e.no = -1 /\ layout'[e.disk] = "whole" /\ ValidType(Fs[e.disk]["whole"])
                 => e.format # ""
            BY <3>1, <3>3 DEF Known
        <3> QED
            BY <1>1, <3>2, <3>4 DEF Known, Ids, e
    <2> QED
        BY <1>1, <2>2 DEF KnownInv
<1> QED
    BY <1>2, <1>3

\* The entries stay known.
LEMMA KnownStep ==
    ASSUME HostInv, ListInv, KnownInv, [Next]_vars
    PROVE  KnownInv'
<1>1. CASE Top \/ CleanUp \/ Wake
    <2>1. list' = <<>>
        BY <1>1 DEF Top, CleanUp, Wake, Goto, ListInv
    <2>2. 1 .. Len(<<>>) = {}
        OBVIOUS
    <2> QED
        BY <2>1, <2>2 DEF KnownInv
<1>2. CASE Scan
    <2>1. list = <<>> /\ UNCHANGED <<bay, layout, moved>>
        BY <1>2 DEF Scan, Goto, ListInv, host
    <2>2. CASE UNCHANGED list
        <3>1. 1 .. Len(<<>>) = {}
            OBVIOUS
        <3> QED
            BY <2>1, <2>2, <3>1 DEF KnownInv
    <2>3. ASSUME NEW kind, NEW dev, NEW parsed, NEW l \in Listings(kind, dev, parsed), spc' = "fill",
                 list' = list \o l, misread' = (kind # "none")
          PROVE  KnownInv'
        <3>1. l \in Seq(Entry)
            BY <2>3, ListingsAreSeqs
        <3>2. list' = l
            BY <2>1, <2>3, <3>1, ConcatEmptySeq
        <3> QED
            BY <2>1, <2>3, <3>2, ScanKnows
    <2> QED
        BY <1>2, <2>2, <2>3 DEF Scan, Goto
<1>3. CASE Fill
    BY <1>3, FillKnows
<1>4. CASE \/ ClearMap \/ Count \/ Act \/ UNCHANGED vars
           \/ Leave
    <2>1. /\ UNCHANGED <<list, bay, layout, moved, misread>>
          /\ spc' # "fill" => spc # "fill"
        BY <1>4 DEF ClearMap, Count, Act, Leave, Move, vars, app, host, Goto
    <2>2. ASSUME NEW i \in 1 .. Len(list)
          PROVE  Known(list[i])'
        <3>1. Known(list[i])
            BY DEF KnownInv
        <3> QED
            BY <2>1, <3>1 DEF Known, HasPartition, Ids
    <2> QED
        BY <2>1, <2>2 DEF KnownInv
<1>5. ASSUME NEW b \in Bays, Plug(b)
      PROVE  KnownInv'
    <2>1. /\ Move /\ Touch(b) /\ UNCHANGED layout
          /\ \A c \in Bays : c # b => bay'[c] = bay[c]
        BY <1>5 DEF Plug, HostInv
    <2> QED
        BY <2>1, TouchKnows
<1>6. ASSUME NEW b \in Bays, Unplug(b)
      PROVE  KnownInv'
    <2>1. /\ Move /\ Touch(b) /\ UNCHANGED layout
          /\ \A c \in Bays : c # b => bay'[c] = bay[c]
        BY <1>6 DEF Unplug, HostInv
    <2> QED
        BY <2>1, TouchKnows
<1>7. ASSUME NEW b \in Bays, Partition(b)
      PROVE  KnownInv'
    <2>1. /\ Move /\ Touch(b) /\ UNCHANGED bay
          /\ \A d \in Disks : layout'[d] = layout[d] \/ d = bay[b]
        BY <1>7 DEF Partition, HostInv
    <2> QED
        BY <2>1, TouchKnows
<1>8. ASSUME NEW b \in Bays, NEW no \in Nos, MountOther(b, no)
      PROVE  KnownInv'
    <2>1. Move /\ Touch(b) /\ UNCHANGED <<bay, layout>>
        BY <1>8 DEF MountOther
    <2> QED
        BY <2>1, TouchKnows
<1> QED
    BY <1>1, <1>2, <1>3, <1>4, <1>5, <1>6, <1>7, <1>8 DEF Next, SmartdiskStep, Others

-----------------------------------------------------------------------------
(***************************************************************************)
(* The mounts.                                                             *)
(***************************************************************************)

\* Mounts that were there stay as sure as they were: a disk with a file system
\* is not partitioned again.
LEMMA MountsStaySure ==
    ASSUME HostInv, SureInv,
           \A x \in mtab' : Sure(x) => x \in mtab,
           \A d \in Disks : layout[d] # "blank" => layout'[d] = layout[d]
    PROVE  SureInv'
<1> SUFFICES ASSUME NEW x \in mtab', Sure(x)
             PROVE  /\ x.target[1] \in Ids(x.disk)
                    /\ \/ layout'[x.disk] = "whole" /\ x.no = -1
                       \/ layout'[x.disk] = "parts" /\ x.no # -1 /\ x.target[2] = x.no
    BY DEF SureInv, Ids, Sure
<1>1. x \in mtab
    OBVIOUS
<1>2. /\ x.target[1] \in Ids(x.disk)
      /\ \/ layout[x.disk] = "whole" /\ x.no = -1
         \/ layout[x.disk] = "parts" /\ x.no # -1 /\ x.target[2] = x.no
    BY <1>1 DEF SureInv
<1>3. layout'[x.disk] = layout[x.disk]
    BY <1>1, <1>2, MountFields DEF HostInv
<1> QED
    BY <1>2, <1>3

\* A mount of the application is of the disk and the partition in its name.
LEMMA SureStep ==
    ASSUME HostInv, ListInv, KnownInv, SureInv, [Next]_vars
    PROVE  SureInv'
<1>1. CASE UNCHANGED <<layout, mtab>>
    BY <1>1, MountsStaySure
<1>2. CASE Top \/ Scan \/ Fill \/ ClearMap \/ Count \/ CleanUp \/ Wake
    BY <1>1, <1>2 DEF Top, Scan, Fill, ClearMap, Count, CleanUp, Wake, host
<1>3. CASE Act
    <2> DEFINE e == list[pos]
               y == NewMount(e)
    <2>1. UNCHANGED layout
        BY <1>3 DEF Act, host
    <2>2. /\ pos \in 1 .. Len(list) /\ e \in Entry
          /\ \/ mtab' = mtab
             \/ mtab' = mtab \cup {y} /\ bay[e.bay] \in Disks /\ FsOn(bay[e.bay], e.no) # ""
        BY <1>3, ActMounts
    <2>3. Known(e)
        BY <2>2 DEF KnownInv
    <2> HIDE DEF e
    <2>4. /\ y.disk = bay[e.bay] /\ y.no = e.no /\ y.target = <<e.wwn, e.part>>
          /\ y.sure = (e.bay \notin moved)
        BY DEF NewMount, Target
    <2> HIDE DEF y
    <2>5. CASE mtab' = mtab
        BY <1>1, <2>1, <2>5
    <2>6. CASE mtab' = mtab \cup {y} /\ bay[e.bay] \in Disks /\ FsOn(bay[e.bay], e.no) # ""
        <3>1. ASSUME Sure(y)
              PROVE  /\ y.target[1] \in Ids(y.disk)
                     /\ \/ layout[y.disk] = "whole" /\ y.no = -1
                        \/ layout[y.disk] = "parts" /\ y.no # -1 /\ y.target[2] = y.no
            <4>1. y.disk = e.disk /\ e.wwn \in Ids(e.disk) /\ (e.no # -1 => e.part = e.no)
                BY <2>3, <2>4, <3>1 DEF Known, Sure
            <4>2. y.target[1] = e.wwn /\ y.target[2] = e.part
                BY <2>4
            <4>3. \/ layout[y.disk] = "whole" /\ e.no = -1
                  \/ layout[y.disk] = "parts" /\ e.no # -1
                BY <2>4, <2>6 DEF FsOn
            <4> QED
                BY <2>4, <4>1, <4>2, <4>3
        <3> QED
            BY <2>1, <2>6, <3>1 DEF SureInv, Ids, Sure
    <2> QED
        BY <2>2, <2>5, <2>6
<1>4. CASE Leave
    BY <1>1, <1>4 DEF Leave
<1>5. ASSUME NEW b \in Bays, Plug(b) \/ Unplug(b)
      PROVE  SureInv'
    <2>1. UNCHANGED layout /\ \A x \in mtab' : x \in mtab
        BY <1>5 DEF Plug, Unplug
    <2> QED
        BY <2>1, MountsStaySure
<1>6. ASSUME NEW b \in Bays, Partition(b)
      PROVE  SureInv'
    <2>1. UNCHANGED mtab /\ \A d \in Disks : layout[d] # "blank" => layout'[d] = layout[d]
        BY <1>6 DEF Partition, HostInv
    <2> QED
        BY <2>1, MountsStaySure
<1>7. ASSUME NEW b \in Bays, NEW no \in Nos, MountOther(b, no)
      PROVE  SureInv'
    <2> DEFINE y == [disk |-> bay[b], no |-> no, target |-> Elsewhere,
                     by |-> "other", sure |-> TRUE]
    <2>1. ~Sure(y)
        BY DEF Sure
    <2> HIDE DEF y
    <2>2. mtab' = mtab \cup {y} \/ mtab' = mtab \ MountsOf(bay[b], no)
        BY <1>7 DEF MountOther, y
    <2>3. UNCHANGED layout
        BY <1>7 DEF MountOther
    <2> QED
        BY <2>1, <2>2, <2>3, MountsStaySure
<1>8. CASE UNCHANGED vars
    BY <1>1, <1>8 DEF vars, host
<1> QED
    BY <1>2, <1>3, <1>4, <1>5, <1>6, <1>7, <1>8 DEF Next, SmartdiskStep, Others

\* Identities name one disk.
LEMMA IdsDiffer ==
    ASSUME NEW d \in Disks, NEW e \in Disks, NEW w, w # Zero, w \in Ids(d), w \in Ids(e)
    PROVE  d = e
<1>1. \A x, y \in Disks : /\ Wwn[x] = Wwn[y] \/ DiskId[x] = DiskId[y] => x = y
                          /\ Wwn[x] # DiskId[y]
    BY Zenon, SmartdiskAssumption
<1> QED
    BY <1>1 DEF Ids

\* Two sure mounts of one name are one.
LEMMA TargetsDiffer ==
    ASSUME HostInv, SureInv
    PROVE  TargetsDistinct
<1> SUFFICES ASSUME NEW x \in mtab, NEW y \in mtab, Sure(x), Sure(y),
                    x.target[1] # Zero, x.target = y.target
             PROVE  x.disk = y.disk /\ x.no = y.no
    BY DEF TargetsDistinct, Sure
<1>1. x.disk \in Disks /\ y.disk \in Disks
    BY MountFields DEF HostInv
<1>2. x.target[1] \in Ids(x.disk) /\ x.target[1] \in Ids(y.disk)
    BY DEF SureInv
<1>3. x.disk = y.disk
    BY <1>1, <1>2, IdsDiffer
<1>4. /\ \/ layout[x.disk] = "whole" /\ x.no = -1
         \/ layout[x.disk] = "parts" /\ x.no # -1 /\ x.target[2] = x.no
      /\ \/ layout[y.disk] = "whole" /\ y.no = -1
         \/ layout[y.disk] = "parts" /\ y.no # -1 /\ y.target[2] = y.no
    BY DEF SureInv
<1> QED
    BY <1>3, <1>4

-----------------------------------------------------------------------------
(***************************************************************************)
(* The choice of a disk to be partitioned.                                 *)
(***************************************************************************)

\* A disk whose identity is counted zero has no partition in the list.
LEMMA ChosenHasNoPartition ==
    ASSUME ListInv, MapInv, KnownInv, spc = "act",
           NEW e, Chosen(e), HasPartition(e)
    PROVE  FALSE
<1> DEFINE n == Len(list)
<1>1. PICK j \in 1 .. n : list[j].no # -1 /\ list[j].wwn = e.wwn
    BY DEF HasPartition
<1>2. n \in Nat /\ list[j] \in Entry /\ list[j].part = list[j].no
    BY <1>1, LenProperties, ElementOfSeq DEF ListInv, KnownInv, Known
<1>3. list[j].part > -1
    BY <1>1, <1>2, EntryFields, Sizes DEF Nos
<1>4. j \in PartsOf(list, n, e.wwn)
    BY <1>1, <1>3 DEF PartsOf
<1>5. Contents(dmap) = Tally(list, n)
    BY DEF MapInv
<1>6. e.wwn \in DOMAIN Tally(list, n)
    BY <1>1 DEF Tally
<1>7. Tally(list, n)[e.wwn] = 0
    <2>1. e.wwn \in Held(dmap)
        BY <1>5, <1>6, ContentsFacts
    <2>2. Contents(dmap)[e.wwn] = Get(dmap, e.wwn)
        BY <2>1, ContentsFacts
    <2> QED
        BY <1>5, <2>2 DEF Chosen
<1> HIDE DEF n
<1>8. /\ IsFiniteSet(PartsOf(list, n, e.wwn))
      /\ Cardinality(PartsOf(list, n, e.wwn)) = 0
    BY <1>2, <1>6, <1>7, TallyFacts
<1>9. PartsOf(list, n, e.wwn) = {}
    BY <1>8, FS_EmptySet
<1> QED
    BY <1>4, <1>9

\* What is chosen is blank, if all could be read and the bay was left alone.
LEMMA ChosenBlank ==
    ASSUME HostInv, ListInv, MapInv, KnownInv, spc = "act",
           NEW i \in 1 .. Len(list), Chosen(list[i]), ~misread, list[i].bay \notin moved
    PROVE  \/ layout[list[i].disk] = "blank"
           \/ ~ValidType(Fs[list[i].disk][layout[list[i].disk]])
<1> DEFINE e == list[i]
<1>1. e \in Entry /\ Known(e)
    BY ElementOfSeq DEF ListInv, KnownInv
<1>2. e.disk \in Disks /\ e.no \in Nos /\ e.part = -1 /\ e.format = ""
    BY <1>1, EntryFields DEF Chosen
<1>3. layout[e.disk] \in Layouts
    BY <1>2 DEF HostInv
<1>4. layout[e.disk] # "parts"
    BY <1>1, ChosenHasNoPartition DEF Known
<1>5. e.no = -1
    BY <1>1, <1>2 DEF Known
<1>6. layout[e.disk] = "whole" => ~ValidType(Fs[e.disk]["whole"])
    BY <1>1, <1>2, <1>5 DEF Known
<1> QED
    BY <1>3, <1>4, <1>6 DEF Layouts

-----------------------------------------------------------------------------
(***************************************************************************)
(* The invariant.                                                          *)
(***************************************************************************)

\* The inductive invariant of all theorems below.
SmartdiskInv == /\ HostInv /\ ListInv /\ TypeInv /\ MountInv /\ PlanInv
                /\ MapInv /\ KnownInv /\ SureInv

\* The invariant holds at first.
LEMMA InvInit == Init => SmartdiskInv
<1> SUFFICES ASSUME Init
             PROVE  SmartdiskInv
    OBVIOUS
<1>1. layout \in [Disks -> Layouts]
    <2>1. Layout0 \subseteq [Disks -> Layouts]
        BY Zenon, SmartdiskAssumption
    <2> QED
        BY <2>1 DEF Init
<1>2. HostInv
    <2>1. Bays0 \subseteq {f \in [Bays -> Disks \cup {NoDisk}] :
                          \A b, c \in Bays : f[b] = f[c] => b = c \/ f[b] = NoDisk}
        BY Zenon, SmartdiskAssumption
    <2> QED
        BY <1>1, <2>1 DEF Init, HostInv
<1>3. <<>> \in Seq(Entry) /\ <<>> \in Seq(Planned) /\ 1 .. Len(<<>>) = {}
    OBVIOUS
<1>4. ListInv /\ KnownInv
    BY <1>3 DEF Init, ListInv, KnownInv
<1>5. MountInv /\ PlanInv /\ SureInv
    BY DEF Init, MountInv, PlanInv, SureInv
<1>6. MapInv
    <2>1. MapLength \in Nat \ {0}
        BY Zenon, SmartdiskAssumption
    <2>2. WellFormed(dmap)
        BY <2>1, InitEmpty DEF Init
    <2> QED
        BY <2>2 DEF Init, MapInv
<1>7. TypeInv
    <2>1. MaxFaults \in Nat /\ MaxMoves \in Nat
        BY Zenon, SmartdiskAssumption
    <2>2. MaxFaults \in 0 .. MaxFaults /\ MaxMoves \in 0 .. MaxMoves
        BY <2>1
    <2>3. budget \in [faults : 0 .. MaxFaults, moves : 0 .. MaxMoves]
        BY <2>2 DEF Init
    <2>4. plan \in Seq(Planned) /\ moved \subseteq Bays
        BY <1>3 DEF Init
    <2> QED
        BY Zenon, <2>3, <2>4 DEF Init, TypeInv
<1> QED
    BY <1>2, <1>4, <1>5, <1>6, <1>7 DEF SmartdiskInv

\* The invariant is preserved.
LEMMA InvStep == SmartdiskInv /\ [Next]_vars => SmartdiskInv'
    BY HostStep, ListStep, TypeStep, MountStep, PlanStep, MapStep, KnownStep, SureStep
       DEF SmartdiskInv

-----------------------------------------------------------------------------
(***************************************************************************)
(* Theorems.                                                               *)
(***************************************************************************)

\* The partitions planned for a blank disk are disjoint, inside the disk and
\* reach its end, for every size of disk and partition, unless the disk is
\* shorter than the starts: PlanFits of _get_disk_partitions_by_offset.
THEOREM PlanAlwaysFits == Spec => []PlanFits
<1>1. SmartdiskInv => PlanFits
    BY PlanFitsIfPlanned DEF SmartdiskInv
<1> QED
    BY <1>1, InvInit, InvStep, PTL DEF Spec

\* The list is empty when it is destroyed, wherever the passes before failed:
\* EmptyWhenDestroyed of sarah_smartdisk_application.
THEOREM ListEmptyAtEnd == Spec => []EmptyWhenDestroyed
<1>1. SmartdiskInv => EmptyWhenDestroyed
    BY DEF SmartdiskInv, ListInv, EmptyWhenDestroyed
<1> QED
    BY <1>1, InvInit, InvStep, PTL DEF Spec

\* Nothing is mounted that is mounted already, in whatever order the devices
\* are listed and whatever others do to other bays: MountsOnlyUnmounted.
THEOREM NothingMountedTwice == Spec => MountsOnlyUnmounted
<1> DEFINE Adds == \A x \in mtab' \ mtab :
                       x.by = "smartdisk" /\ x.sure => MountsOf(x.disk, x.no) = {}
<1>1. SmartdiskInv /\ [Next]_vars => [Adds]_vars
    <2> SUFFICES ASSUME SmartdiskInv, Next
                 PROVE  Adds
        OBVIOUS
    <2>1. CASE mtab' \subseteq mtab
        BY <2>1
    <2>2. CASE Top \/ Scan \/ Fill \/ ClearMap \/ Count \/ CleanUp \/ Wake
        BY <2>1, <2>2 DEF Top, Scan, Fill, ClearMap, Count, CleanUp, Wake
    <2>3. CASE Act
        <3> DEFINE e == list[pos]
        <3>1. /\ pos \in 1 .. Len(list) /\ e \in Entry
              /\ \/ mtab' = mtab
                 \/ Mountable(e) /\ mtab' = mtab \cup {NewMount(e)}
            BY <2>3, ActMounts DEF SmartdiskInv
        <3>2. spc = "act" /\ pos >= pos
            BY <2>3, <3>1 DEF Act
        <3>3. Mountable(e) /\ e.bay \notin moved => MountsOf(bay[e.bay], e.no) = {}
            BY <3>1, <3>2 DEF SmartdiskInv, MountInv, Candidate, Mountable
        <3> HIDE DEF e
        <3>4. /\ NewMount(e).disk = bay[e.bay] /\ NewMount(e).no = e.no
              /\ NewMount(e).sure = (e.bay \notin moved)
            BY DEF NewMount
        <3> QED
            BY <3>1, <3>3, <3>4
    <2>4. CASE Leave
        BY <2>1, <2>4 DEF Leave
    <2>5. ASSUME NEW b \in Bays, Plug(b) \/ Unplug(b) \/ Partition(b)
          PROVE  Adds
        BY <2>1, <2>5 DEF Plug, Unplug, Partition
    <2>6. ASSUME NEW b \in Bays, NEW no \in Nos, MountOther(b, no)
          PROVE  Adds
        <3> DEFINE y == [disk |-> bay[b], no |-> no, target |-> Elsewhere,
                         by |-> "other", sure |-> TRUE]
        <3>1. y.by = "other"
            OBVIOUS
        <3> HIDE DEF y
        <3>2. mtab' = mtab \cup {y} \/ mtab' = mtab \ MountsOf(bay[b], no)
            BY <2>6 DEF MountOther, y
        <3> QED
            BY <3>1, <3>2
    <2> QED
        BY <2>2, <2>3, <2>4, <2>5, <2>6 DEF Next, SmartdiskStep, Others
<1>2. MountsOnlyUnmounted <=> [][Adds]_vars
    BY DEF MountsOnlyUnmounted
<1> HIDE DEF Adds
<1> QED
    BY <1>1, <1>2, InvInit, InvStep, PTL DEF Spec

\* Every variable has its type; the map's length and size are the ones of its
\* table.
THEOREM SmartdiskTyped == Spec => []TypeOK
<1>1. SmartdiskInv => TypeOK
    BY TypesFollow DEF SmartdiskInv
<1> QED
    BY <1>1, InvInit, InvStep, PTL DEF Spec

\* The hash map implements the map it promises to be, whatever the hash codes,
\* the load factor and the first length: every step that changes what a reader
\* sees is a put, an increment or a clearing (cel_ihashmap_put, cel_ihashmap_inc,
\* cel_ihashmap_clear, and the rebuild of the table behind them).
THEOREM HashMapIsAMap == Spec => MapIsAMap
<1>1. Init => KM!Init
    <2>1. MapLength \in Nat \ {0}
        BY Zenon, SmartdiskAssumption
    <2> QED
        BY <2>1, InitEmpty DEF Init, KM!Init
<1>2. SmartdiskInv /\ [Next]_vars => [KM!Next]_(Contents(dmap))
    BY MapStep DEF SmartdiskInv, KM!Next, KM!Clear, KM!Put, KM!Inc, With
<1>3. MapIsAMap <=> KM!Init /\ [][KM!Next]_(Contents(dmap))
    BY DEF MapIsAMap, KM!Spec
<1> QED
    BY <1>1, <1>2, <1>3, InvInit, InvStep, PTL DEF Spec

\* While a pass uses the map, its numbers are those of the partitions listed
\* for each identity: MapCountsList.
THEOREM CountsAreOfTheList == Spec => []MapCountsList
<1>1. SmartdiskInv => MapCountsList
    BY DEF SmartdiskInv, MapInv, MapCountsList, Tally, PartsOf
<1> QED
    BY <1>1, InvInit, InvStep, PTL DEF Spec

\* No mount of the application hides another, whatever disks are pulled and
\* plugged in between: TargetsDistinct.
THEOREM NoMountHidesAnother == Spec => []TargetsDistinct
<1>1. SmartdiskInv => TargetsDistinct
    BY TargetsDiffer DEF SmartdiskInv
<1> QED
    BY <1>1, InvInit, InvStep, PTL DEF Spec

\* Only a blank disk is chosen for partitioning, in whatever order the devices
\* are listed and whichever identities collide in the map: ChosenIsBlank.
THEOREM OnlyBlankChosen == Spec => ChosenIsBlank
<1> DEFINE Blank == \/ pick' \in {pick, Unnamed}
                    \/ misread \/ pick'.bay \in moved
                    \/ layout[pick'.disk] = "blank"
                    \/ ~ValidType(Fs[pick'.disk][layout[pick'.disk]])
<1>1. SmartdiskInv /\ [Next]_vars => [Blank]_vars
    <2> SUFFICES ASSUME SmartdiskInv, Next
                 PROVE  Blank
        OBVIOUS
    <2>1. CASE UNCHANGED pick
        BY <2>1
    <2>2. CASE Top \/ Scan \/ Fill \/ ClearMap \/ Count \/ Wake \/ Others
        BY <2>1, <2>2 DEF Top, Scan, Fill, ClearMap, Count, Wake, Others,
                          Leave, Plug, Unplug, Partition, MountOther, Move, app
    <2>3. CASE CleanUp
        BY <2>3 DEF CleanUp
    <2>4. CASE Act
        <3>1. pos \in 1 .. Len(list) /\ spc = "act"
            BY <2>4, ActMounts DEF SmartdiskInv, Act
        <3>2. CASE Chosen(list[pos]) /\ pick' = list[pos]
            BY <3>1, <3>2, ChosenBlank DEF SmartdiskInv
        <3> QED
            BY <2>1, <2>4, <3>2 DEF Act
    <2> QED
        BY <2>2, <2>3, <2>4 DEF Next, SmartdiskStep
<1>2. ChosenIsBlank <=> [][Blank]_vars
    BY DEF ChosenIsBlank
<1> HIDE DEF Blank
<1> QED
    BY <1>1, <1>2, InvInit, InvStep, PTL DEF Spec
=============================================================================
