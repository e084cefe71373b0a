----------------------------- MODULE Smartdisk ------------------------------
(***************************************************************************)
(* The disk mounter of main/app_smartdisk.c over the disk list of          *)
(* main/disk.c: every pass lists the block devices, asks lsblk what is on  *)
(* them, counts the partitions of each disk in a hash map, plans the       *)
(* partitions of a blank disk and mounts what is formatted and not mounted.*)
(*                                                                         *)
(* Disks sit in bays.  A bay gives its disk's device nodes their names: -1 *)
(* is the whole disk, 1 .. NParts its partitions.  Bays and mounts change  *)
(* under the pass: what it acts on was read earlier.                       *)
(***************************************************************************)
EXTENDS HashMap, SequencesExt

CONSTANTS
    Bays, Disks, NoDisk,
    Numbered,    \* bays whose whole disk has a name ending in a digit (nvme0n1)
    Mute,        \* bays whose disks do not answer HDIO_GET_IDENTITY
    Wwn,         \* the identity of each disk
    DiskId,      \* the identifier in each disk's partition table
    Zero,        \* "0x0000000000000000"
    Fs,          \* the type of the file systems of each disk under each layout
    Bays0,       \* which disks may be in which bays at first
    Layout0,     \* what may be on the disks at first: "blank", "whole" or "parts"
    Blocks,      \* the size of each disk
    NParts,      \* partitions of a partitioned disk
    Offset,      \* blocks of a partition to be created
    Wrap,        \* 2^64, the width of a block count
    MapLength,   \* the length of the map's first table
    AutoPartition,
    FaultKinds, MaxFaults, MaxMoves

AllFaults == {"opendir",  \* /dev cannot be read
              "open",     \* a device node cannot be opened
              "identity", \* one node does not answer
              "size",     \* BLKGETSIZE fails
              "fdisk", "lsblk",   \* the command fails
              "mkdir", "mount"}
Layouts   == {"blank", "whole", "parts"}

ASSUME SmartdiskAssumption ==
    /\ NoDisk \notin Disks
    /\ IsFiniteSet(Bays) /\ Numbered \subseteq Bays /\ Mute \subseteq Bays
    /\ Wwn \in [Disks -> Keys \ {Zero}] /\ DiskId \in [Disks -> Keys \ {Zero}]
    /\ Zero \in Keys
    \* identities and identifiers are unique
    /\ \A d, e \in Disks : /\ Wwn[d] = Wwn[e] \/ DiskId[d] = DiskId[e] => d = e
                           /\ Wwn[d] # DiskId[e]
    /\ \A d \in Disks : Fs[d]["blank"] = ""
    /\ Bays0 \subseteq {f \in [Bays -> Disks \cup {NoDisk}] :
                        \A b, c \in Bays : f[b] = f[c] => b = c \/ f[b] = NoDisk}
    /\ Layout0 \subseteq [Disks -> Layouts]
    /\ Wrap \in Nat \ {0} /\ Offset \in Nat \ {0} /\ NParts \in Nat \ {0}
    /\ Blocks \in [Disks -> 0 .. Wrap - 1]
    /\ MapLength \in Nat \ {0}
    /\ AutoPartition \in BOOLEAN
    /\ FaultKinds \subseteq AllFaults
    /\ MaxFaults \in Nat /\ MaxMoves \in Nat

VARIABLES
    spc,     \* where the application is in its loop
    list,    \* disk_list
    pos,     \* l_node, the position of the loops over the list
    dmap,    \* disk_map
    plan,    \* partitions: what _get_disk_partitions_by_offset returned last
    bay,     \* the disk in each bay
    layout,  \* what is on each disk
    mtab,    \* the kernel's mounts
    leave,   \* EXIT was handled or the parent is gone
    pick,    \* history: the disk the plan was made for
    moved,   \* history: bays touched by others since this pass read /dev
    misread, \* history: something could not be read in this pass
    budget   \* what is left of the bounds

app  == <<spc, list, pos, dmap, plan, pick, misread>>
host == <<bay, layout, leave, moved>>
vars == <<app, host, mtab, budget>>

Nos     == {-1} \cup 1 .. NParts
Unnamed   == <<>>
Elsewhere == <<Zero>>   \* a mount point of somebody else's
Targets == (Keys \X (0 .. NParts)) \cup {Elsewhere}
Mount   == [disk : Disks, no : Nos, target : Targets, by : {"smartdisk", "other"},
            sure : BOOLEAN]   \* history: nobody had touched the bay

FsTypes == UNION {{Fs[d][l] : l \in Layouts} : d \in Disks}
Formats == FsTypes \cup {""}

\* sarah_disk_t; disk is history: what was in the bay when it was listed
Entry == [bay : Bays, no : Nos, disk : Disks, part : -1 .. NParts, wwn : Keys,
          blocks : 0 .. Wrap - 1, format : Formats, mount : Targets \cup {Unnamed}]

TypeOK ==
    /\ spc \in {"top", "scan", "fill", "clear", "count", "act", "sleep", "end"}
    /\ list \in Seq(Entry)
    /\ pos \in Nat
    /\ dmap.length = Cardinality(DOMAIN dmap.table) /\ dmap.size = Cardinality(Places(dmap))
    /\ \A b \in DOMAIN dmap.table : dmap.table[b] \in Seq(Node)
    /\ plan \in Seq([start : 0 .. Wrap - 1, blocks : 0 .. Wrap - 1])
    /\ bay \in [Bays -> Disks \cup {NoDisk}]
    /\ layout \in [Disks -> Layouts]
    /\ mtab \subseteq Mount
    /\ leave \in BOOLEAN /\ misread \in BOOLEAN
    /\ pick \in Entry \cup {Unnamed}
    /\ moved \subseteq Bays
    /\ budget \in [faults : 0 .. MaxFaults, moves : 0 .. MaxMoves]

Goto(from, to) == spc = from /\ spc' = to

Fault(kind) ==
    /\ kind \in FaultKinds
    /\ budget.faults > 0
    /\ budget' = [budget EXCEPT !.faults = @ - 1]
NoFault == UNCHANGED budget

-----------------------------------------------------------------------------
(***************************************************************************)
(* The host.                                                               *)
(***************************************************************************)
Plugged(d)  == \E b \in Bays : bay[b] = d
Here(b, no) == bay[b] # NoDisk /\ (no = -1 \/ layout[bay[b]] = "parts")
Devices     == {dev \in Bays \X Nos : Here(dev[1], dev[2])}

\* the type of the file system on a node of disk d, "" for none
FsOn(d, no) ==
    IF \/ no = -1 /\ layout[d] = "whole"
       \/ no # -1 /\ layout[d] = "parts"
    THEN Fs[d][layout[d]] ELSE ""
MountsOf(d, no) == {x \in mtab : x.disk = d /\ x.no = no}
Mounted(d)      == \E x \in mtab : x.disk = d

-----------------------------------------------------------------------------
(***************************************************************************)
(* sarah_get_disk_list.                                                    *)
(***************************************************************************)

\* sarah_is_valid_disk_type: eleven types, of which ten are compared
AllTypes == <<"fat16", "fat32", "ntfs", "exfat", "hpfs", "ext2", "ext3", "ext4",
              "vfat", "jfs", "xfs">>
ValidType(type) == \E i \in 1 .. 10 : AllTypes[i] = type

\* _get_tailing_integer of the name
TailingInteger(b, no) == IF no = -1 /\ b \in Numbered THEN 1 ELSE no

\* The bays whose section of `fdisk -l` is parsed, for the order of its listing:
\* the loops that look for the partitions of a disk without a partition table
\* run into the next section and skip it.
Parsed(order) ==
    LET read[i \in DOMAIN order] ==
            i = 1 \/ layout[bay[order[i - 1]]] = "parts" \/ ~read[i - 1]
    IN  {order[i] : i \in {j \in DOMAIN order : read[j]}}

\* The fdisk back-up, used when no node answered: the identifier of a disk's
\* partition table becomes the identity of the disk and of its partitions, and
\* their sizes are taken from the table.
Backup(b, parsed) ==
    IF b \in parsed /\ layout[bay[b]] = "parts" THEN DiskId[bay[b]] ELSE Zero

\* One entry: its identity is wwn, its size is read or not.
Listed(dev, wwn, sized) ==
    LET d == bay[dev[1]]
    IN  [bay |-> dev[1], no |-> dev[2], disk |-> d,
         part |-> TailingInteger(dev[1], dev[2]), wwn |-> wwn,
         blocks |-> IF sized THEN Blocks[d] ELSE 0, format |-> "", mount |-> Unnamed]

\* What a reading of /dev gives: the nodes that can be opened, in any order,
\* when the step kind fails for node dev and fdisk's output is parsed for some bays.
Listings(kind, dev, parsed) ==
    LET fails(k, x) == kind = k /\ x = dev
        opened    == {x \in Devices : ~fails("open", x)}
        answered  == {x \in opened : x[1] \notin Mute /\ ~fails("identity", x)}
        backup(x) == IF answered = {} /\ kind # "fdisk" THEN Backup(x[1], parsed) ELSE Zero
        entry     == [x \in opened |->
                         Listed(x, IF x \in answered THEN Wwn[bay[x[1]]] ELSE backup(x),
                                ~fails("size", x) \/ backup(x) # Zero)]
    IN  {[i \in DOMAIN order |-> entry[order[i]]] : order \in SetToSeqs(opened)}

Scan ==
    /\ \/ /\ Goto("scan", "sleep")
          /\ Fault("opendir")
          /\ UNCHANGED <<list, misread>>
       \/ /\ Goto("scan", "fill")
          /\ \E kind \in {"none", "open", "identity", "size", "fdisk"},
                dev \in Devices \cup {Unnamed} :
                /\ kind \in {"none", "fdisk"} <=> dev = Unnamed
                /\ IF kind = "none" THEN NoFault ELSE Fault(kind)
                /\ misread' = (kind # "none")
                /\ \E order \in SetToSeqs({b \in Bays : bay[b] # NoDisk}) :
                   \E l \in Listings(kind, dev, Parsed(order)) : list' = list \o l
    /\ UNCHANGED <<pos, dmap, plan, pick, host, mtab>>

\* An entry after lsblk: nothing changes unless the node of that name has a
\* file system of a valid type; a whole disk that has one becomes partition 0.
Filled(e) ==
    LET d  == bay[e.bay]
        fs == IF Here(e.bay, e.no) THEN FsOn(d, e.no) ELSE ""
    IN  IF ValidType(fs)
        THEN [e EXCEPT !.format = fs,
                       !.part = IF @ = -1 THEN 0 ELSE @,
                       !.mount = IF MountsOf(d, e.no) = {} THEN @
                                 ELSE (CHOOSE x \in MountsOf(d, e.no) : TRUE).target]
        ELSE e

Fill ==
    /\ Goto("fill", "clear")
    /\ \/ list' = [i \in DOMAIN list |-> Filled(list[i])] /\ NoFault /\ UNCHANGED misread
       \/ Fault("lsblk") /\ misread' = TRUE /\ UNCHANGED list
    /\ UNCHANGED <<pos, dmap, plan, pick, host, mtab>>

-----------------------------------------------------------------------------
(***************************************************************************)
(* The loop of sarah_smartdisk_application.                                *)
(***************************************************************************)

\* EXIT and, in the ghost build, the parent check; STOP is not looked at
Top ==
    /\ Goto("top", IF leave THEN "end" ELSE "scan")
    /\ UNCHANGED <<list, pos, dmap, plan, pick, misread, host, mtab, budget>>

\* (mutant) the map keeps the counts of the last pass
ClearMap_Kept ==
    /\ Goto("clear", "count")
    /\ pos' = 1
    /\ UNCHANGED <<list, dmap, plan, pick, misread, host, mtab, budget>>

ClearMap ==
    /\ Goto("clear", "count")
    /\ dmap' = Clear(dmap)
    /\ pos' = 1
    /\ UNCHANGED <<list, plan, pick, misread, host, mtab, budget>>

\* the map after an entry was counted
Counted(map, e) ==
    IF Exists(map, e.wwn)
    THEN IF e.part > -1 THEN Inc(map, e.wwn, 1) ELSE map
    ELSE Put(map, e.wwn, IF e.part = -1 THEN 0 ELSE 1)

Count ==
    /\ spc = "count"
    /\ IF pos <= Len(list)
       THEN dmap' = Counted(dmap, list[pos]) /\ pos' = pos + 1 /\ UNCHANGED spc
       ELSE spc' = "act" /\ pos' = 1 /\ UNCHANGED dmap
    /\ UNCHANGED <<list, plan, pick, misread, host, mtab, budget>>

\* how many partitions _get_disk_partitions_by_offset counts
PartNum(blocks) == IF blocks = 0 THEN 0 ELSE (blocks - 1) \div Offset + 1

\* (mutant) the last partition is as long as the disk
PartitionsByOffset_WholeRest(blocks) ==
    LET n == PartNum(blocks) IN
    [i \in 1 .. n |-> [start  |-> ((i - 1) * (Offset + 1)) % Wrap,
                       blocks |-> IF i < n THEN Offset ELSE blocks]]

\* (mutant) the rest is not unsigned
PartitionsByOffset_Signed(blocks) ==
    LET n == PartNum(blocks)
        start(i) == (i - 1) * (Offset + 1)
    IN  [i \in 1 .. n |-> [start  |-> start(i),
                           blocks |-> IF i < n THEN Offset ELSE blocks - start(i)]]

\* _get_disk_partitions_by_offset: each start is one block further than the
\* steps that were counted, and the last length is what is left, unsigned.  For
\* no blocks the code writes its entry in front of the array, which has none: a
\* word that nothing reads again, as the array is not freed.
PartitionsByOffset(blocks) ==
    LET n == PartNum(blocks)
        start(i) == ((i - 1) * (Offset + 1)) % Wrap
    IN  [i \in 1 .. n |-> [start  |-> start(i),
                           blocks |-> IF i < n THEN Offset ELSE (blocks - start(i)) % Wrap]]

\* (mutant) the counts are not looked at
Chosen_Uncounted(e) == AutoPartition /\ e.part = -1 /\ e.format = ""

\* a disk without file system and without partitions is to be partitioned
Chosen(e) ==
    /\ AutoPartition
    /\ e.part = -1 /\ e.format = ""
    /\ Exists(dmap, e.wwn) /\ Get(dmap, e.wwn) = 0

\* (mutant) a mounted partition is mounted once more
Mountable_Again(e) == e.part > -1 /\ e.blocks > 0 /\ e.format # ""

\* (mutant) a file system on the whole disk is not mounted
Mountable_Partitions(e) ==
    e.part > 0 /\ e.blocks > 0 /\ e.format # "" /\ e.mount = Unnamed

Mountable(e) ==
    e.part > -1 /\ e.blocks > 0 /\ e.format # "" /\ e.mount = Unnamed

\* (mutant) the name of the mount point is made of the partition number only
Target_NoWwn(e) == <<Wwn[CHOOSE d \in Disks : TRUE], e.part>>

\* the name of the mount point; mount_algorithm is not looked at
Target(e) == <<e.wwn, e.part>>

\* sarah_disk_mount: the kernel mounts whatever is now under the name, if the
\* format is right and it is not already at this very place.  The entry's mount
\* field is filled but not read again in this pass, and a chmod() that fails
\* afterwards changes nothing but the return value.
DiskMount(e) ==
    LET d == bay[e.bay]
        new == [disk |-> d, no |-> e.no, target |-> Target(e), by |-> "smartdisk",
                sure |-> e.bay \notin moved]
        mountable == /\ Here(e.bay, e.no)
                     /\ FsOn(d, e.no) = e.format
                     /\ \A x \in MountsOf(d, e.no) : x.target # Target(e)
    IN  \/ mountable /\ mtab' = mtab \cup {new} /\ NoFault
        \/ ~mountable /\ UNCHANGED mtab /\ NoFault
        \/ (Fault("mkdir") \/ Fault("mount")) /\ UNCHANGED mtab

\* One entry of the second loop.  The call that would create the partitions
\* of the plan is commented out.
Act ==
    /\ spc = "act"
    /\ pos <= Len(list)
    /\ LET e == list[pos] IN
        /\ IF Chosen(e) THEN plan' = PartitionsByOffset(e.blocks) /\ pick' = e
                        ELSE UNCHANGED <<plan, pick>>
        /\ IF Mountable(e) THEN DiskMount(e) ELSE UNCHANGED <<mtab, budget>>
    /\ pos' = pos + 1
    /\ UNCHANGED <<spc, list, dmap, misread, host>>

\* (mutant) the list is not freed
CleanUp_KeepsList ==
    /\ Goto("act", "sleep")
    /\ pos > Len(list)
    /\ UNCHANGED <<list, pos, dmap, plan, pick, misread, host, mtab, budget>>

\* sarah_clear_link_entries, then the sleep; the plan is not read again
CleanUp ==
    /\ Goto("act", "sleep")
    /\ pos > Len(list)
    /\ list' = <<>> /\ pos' = 0
    /\ plan' = <<>> /\ pick' = Unnamed
    /\ misread' = FALSE /\ moved' = {}
    /\ UNCHANGED <<dmap, bay, layout, leave, mtab, budget>>

Wake ==
    /\ Goto("sleep", "top")
    /\ UNCHANGED <<list, pos, dmap, plan, pick, misread, host, mtab, budget>>

SmartdiskStep ==
    Top \/ Scan \/ Fill \/ ClearMap \/ Count \/ Act \/ CleanUp \/ Wake

-----------------------------------------------------------------------------
(***************************************************************************)
(* Others: operators, udev, the booter.                                    *)
(***************************************************************************)
\* Others are let in before a pass, between the listing and lsblk and between
\* the entries that are acted on; the other steps read nothing they change.
Move ==
    /\ spc \in {"top", "fill", "act"}
    /\ budget.moves > 0
    /\ budget' = [budget EXCEPT !.moves = @ - 1]
    /\ UNCHANGED app

Touch(b) == moved' = IF spc \in {"fill", "act"} THEN moved \cup {b} ELSE {}

Plug(b) ==
    /\ Move
    /\ bay[b] = NoDisk
    /\ \E d \in {x \in Disks : ~Plugged(x)} : bay' = [bay EXCEPT ![b] = d]
    /\ Touch(b)
    /\ UNCHANGED <<layout, leave, mtab>>

\* pulling a disk ends its mounts
Unplug(b) ==
    /\ Move
    /\ bay[b] # NoDisk
    /\ bay' = [bay EXCEPT ![b] = NoDisk]
    /\ mtab' = {x \in mtab : x.disk # bay[b]}
    /\ Touch(b)
    /\ UNCHANGED <<layout, leave>>

\* somebody mounts a node elsewhere, or unmounts it
MountOther(b, no) ==
    /\ Move
    /\ Here(b, no) /\ FsOn(bay[b], no) # ""
    /\ mtab' = IF MountsOf(bay[b], no) = {}
               THEN mtab \cup {[disk |-> bay[b], no |-> no, target |-> Elsewhere,
                                by |-> "other", sure |-> TRUE]}
               ELSE mtab \ MountsOf(bay[b], no)
    /\ Touch(b)
    /\ UNCHANGED <<bay, layout, leave>>

\* somebody partitions and formats a blank disk
Partition(b) ==
    /\ Move
    /\ bay[b] # NoDisk /\ layout[bay[b]] = "blank"
    /\ layout' = [layout EXCEPT ![bay[b]] = "parts"]
    /\ Touch(b)
    /\ UNCHANGED <<bay, leave, mtab>>

Leave ==
    /\ Move
    /\ leave' = TRUE
    /\ UNCHANGED <<bay, layout, moved, mtab>>

Others == \/ Leave
          \/ \E b \in Bays : \/ Plug(b) \/ Unplug(b) \/ Partition(b)
                             \/ \E no \in Nos : MountOther(b, no)

Init ==
    /\ spc = "top"
    /\ list = <<>> /\ pos = 0
    /\ dmap = MapInit(MapLength)
    /\ plan = <<>> /\ pick = Unnamed
    /\ bay \in Bays0
    /\ layout \in Layout0
    /\ mtab = {} /\ leave = FALSE
    /\ moved = {} /\ misread = FALSE
    /\ budget = [faults |-> MaxFaults, moves |-> MaxMoves]

Next == SmartdiskStep \/ Others

\* The application is scheduled; the commands it runs and its sleeps end.
Fairness == WF_vars(SmartdiskStep)

Spec     == Init /\ [][Next]_vars
FairSpec == Spec /\ Fairness

-----------------------------------------------------------------------------
(***************************************************************************)
(* Properties.                                                             *)
(***************************************************************************)

KM == INSTANCE KeyMap WITH m <- Contents(dmap)

\* The hash map is a map: whatever the hash codes, the collisions and the
\* rebuilds that put causes, every step of the application looks like a put,
\* an increment or a clearing of a function from identities to counts.
MapIsAMap == KM!Spec

\* While the pass uses the map, its keys are the identities of the entries
\* counted so far (the keys point into entries that are freed at the end of a
\* pass) and its numbers how many of them are partitions, in whatever order
\* /dev was read and whatever failed in the passes before.
MapCountsList ==
    LET n == IF spc = "count" THEN pos - 1 ELSE Len(list)
    IN  spc \in {"count", "act"} =>
            Contents(dmap) =
                [w \in {list[i].wwn : i \in 1 .. n} |->
                    Cardinality({i \in 1 .. n : list[i].wwn = w /\ list[i].part > -1})]

\* Only a disk with nothing on it is chosen for partitioning, as long as
\* everything could be read in this pass and nobody touched the bay: no disk
\* with partitions, and no disk with a file system of a type that is compared.
ChosenIsBlank ==
    [][\/ pick' \in {pick, Unnamed}
       \/ misread \/ pick'.bay \in moved
       \/ layout[pick'.disk] = "blank"
       \/ ~ValidType(Fs[pick'.disk][layout[pick'.disk]])]_vars

\* The partitions planned are disjoint, inside the disk and reach its end,
\* unless the disk is shorter than the starts that were assigned.
PlanFits ==
    LET n == Len(plan)
    IN  plan # <<>> /\ pick.blocks >= (n - 1) * (Offset + 1) =>
            /\ \A i \in 1 .. n - 1 :
                    plan[i].start + plan[i].blocks <= plan[i + 1].start
            /\ plan[n].start + plan[n].blocks = pick.blocks

\* The application mounts nothing that is mounted already, unless somebody
\* else touched the bay between the listing and the mount.
MountsOnlyUnmounted ==
    [][\A x \in mtab' \ mtab :
            x.by = "smartdisk" /\ x.sure => MountsOf(x.disk, x.no) = {}]_vars

\* A mount point belongs to one file system: no mount hides another, unless the
\* identity of a disk could not be read or a bay was touched meanwhile.
TargetsDistinct ==
    \A x, y \in mtab :
        /\ x.by = "smartdisk" /\ x.sure /\ x.target[1] # Zero
        /\ y.by = "smartdisk" /\ y.sure
        /\ x.target = y.target
        => x.disk = y.disk /\ x.no = y.no

\* The list is empty when it is destroyed (cel_link_destroy reads the nodes it
\* has freed), also after a pass that could not read /dev.
EmptyWhenDestroyed == spc = "end" => list = <<>>

HasFs(d) == ValidType(Fs[d][layout[d]]) /\ Blocks[d] > 0

\* A disk with a file system of a valid type gets mounted, whatever failed
\* before, unless it is pulled or the application ends.
EventuallyMounted ==
    \A d \in Disks :
        (Plugged(d) /\ HasFs(d)) ~> (Mounted(d) \/ ~Plugged(d) \/ spc = "end")
=============================================================================
