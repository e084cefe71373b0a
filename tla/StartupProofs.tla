---------------------------- MODULE StartupProofs ---------------------------
(***************************************************************************)
(* Proofs about Startup, for any number of processes and any bounds: type  *)
(* correctness, that the pid file excludes outside its window, and that    *)
(* the node id is one and stays.                                           *)
(***************************************************************************)
EXTENDS Startup, TLAPS

\* Outside the window the pid file names the booter that is there: one process
\* at a time is in the window, it has read the live booter's pid, and it gets
\* to write its own only when there is none.
PidInv ==
    ~unchecked =>
        /\ \A p, q \in Procs : Checking(p) /\ Checking(q) => p = q
        /\ \A q \in Procs : Live(q) => pidfile = q
        /\ \A p, q \in Procs : Live(q) /\ At(p, "check") => proc[p].seen = q
        /\ \A p, q \in Procs : At(p, "setpid") => ~Live(q)

\* Facts about node.db that hold in any case: it exists from the creator's
\* open on, and a program on its way to the record has no id yet.
DbInv ==
    /\ db.exists \/ db.len < NodeSize
    /\ \A p \in Procs :
        /\ At(p, "write") => db.exists
        /\ proc[p].pc \in {"off", "init", "check", "setpid", "access", "read"}
               => proc[p].id = NoId

\* Outside the creation window one process creates the file, nobody has an id
\* before the record is complete, and everybody past it has the record's.
IdInv ==
    ~split =>
        /\ \A p, q \in Procs : Creating(p) /\ Creating(q) => p = q
        /\ \A p \in Procs : At(p, "create") => ~db.exists
        /\ \A p \in Procs : At(p, "write") => db.len < NodeSize
        /\ \A p \in Procs :
            /\ proc[p].pc \in {"boot", "config", "last", "arm", "run"}
            /\ proc[p].id # NoId
            => db.len = NodeSize /\ db.id = proc[p].id

\* the types of node.db and of the bounds, as in TypeOK
DbType     == [exists : BOOLEAN, len : 0 .. NodeSize, id : Ids \cup {NoId}]
BudgetType == [starts : 0 .. MaxStarts, faults : 0 .. MaxFaults, ops : 0 .. MaxOps]

-----------------------------------------------------------------------------
\* The records a process can be.
LEMMA ProcessRecords ==
    /\ Off \in Process
    /\ \A r \in Process, c \in Pcs : [r EXCEPT !.pc = c] \in Process
    /\ \A r \in Process, s \in Procs \cup {NoPid} :
           [r EXCEPT !.pc = "check", !.seen = s] \in Process
    /\ \A r \in Process, i \in Ids :
           [r EXCEPT !.pc = "create", !.id = i, !.new = TRUE] \in Process
    /\ \A r \in Process, i \in Ids \cup {NoId} :
           [r EXCEPT !.pc = "boot", !.id = i] \in Process
    /\ \A r \in Process, n \in {0, 2} :
           [r EXCEPT !.pc = "boot", !.rno = n] \in Process
    /\ \A prog \in {"booter", "tool"}, c \in Pcs :
           [Off EXCEPT !.prog = prog, !.pc = c] \in Process
<1>1. Off \in Process
    <2>1. "off" \in Pcs
        BY DEF Pcs
    <2>2. FALSE \in BOOLEAN
        BY Zenon
    <2>3. Off.new \in BOOLEAN
        BY <2>2, Zenon DEF Off
    <2> QED BY <2>1, <2>2, <2>3 DEF Off, Process
<1>2. \A r \in Process, c \in Pcs : [r EXCEPT !.pc = c] \in Process
    BY DEF Process
<1>3. \A r \in Process, s \in Procs \cup {NoPid} :
           [r EXCEPT !.pc = "check", !.seen = s] \in Process
    BY DEF Process, Pcs
<1>4. \A r \in Process, i \in Ids :
           [r EXCEPT !.pc = "create", !.id = i, !.new = TRUE] \in Process
    BY DEF Process, Pcs
<1>5. \A r \in Process, i \in Ids \cup {NoId} :
           [r EXCEPT !.pc = "boot", !.id = i] \in Process
    BY DEF Process, Pcs
<1>6. \A r \in Process, n \in {0, 2} : [r EXCEPT !.pc = "boot", !.rno = n] \in Process
    BY DEF Process, Pcs
<1>7. \A prog \in {"booter", "tool"}, c \in Pcs :
           [Off EXCEPT !.prog = prog, !.pc = c] \in Process
    BY <1>1 DEF Process
<1> QED BY <1>1, <1>2, <1>3, <1>4, <1>5, <1>6, <1>7

\* The places of the programs.
LEMMA Places == \A c \in {"init", "check", "setpid", "access", "create", "write",
                          "read", "boot", "config", "last", "arm", "run"} : c \in Pcs
BY DEF Pcs

\* Faults and fault-free steps keep the budget well typed.
LEMMA BudgetTyped ==
    ASSUME TypeOK, Fault \/ NoFault
    PROVE  budget' \in BudgetType
BY StartupAssumption DEF TypeOK, Fault, NoFault, BudgetType

\* Moving on and ending keep the processes well typed.
LEMMA MovesTyped ==
    ASSUME TypeOK, NEW p \in Procs, End(p) \/ \E c \in Pcs : Goto(p, c)
    PROVE  proc' \in [Procs -> Process]
<1>1. CASE End(p)
    BY <1>1, ProcessRecords DEF TypeOK, End
<1>2. ASSUME NEW c \in Pcs, Goto(p, c) PROVE proc' \in [Procs -> Process]
    <2>1. [proc[p] EXCEPT !.pc = c] \in Process
        BY ProcessRecords DEF TypeOK
    <2> QED BY <1>2, <2>1 DEF TypeOK, Goto
<1> QED BY <1>1, <1>2

\* A stamped file is a file.
LEMMA StampTyped ==
    ASSUME NEW f \in DbType
    PROVE  Stamped(f) \in DbType
BY DEF DbType, Stamped, NodeSize, BootEnd

\* Every step keeps the types.
LEMMA TypeStep ==
    ASSUME TypeOK, [Next]_vars
    PROVE  TypeOK'
<1> USE Places DEF BudgetType, DbType
<1>1. ASSUME NEW p \in Procs, NEW prog \in {"booter", "tool"}, Start(p, prog)
      PROVE  TypeOK'
    <2>1. proc' \in [Procs -> Process]
        BY <1>1, ProcessRecords DEF Start, TypeOK
    <2>2. budget' \in BudgetType
        BY <1>1, StartupAssumption DEF Start, TypeOK
    <2> QED BY <1>1, <2>1, <2>2 DEF Start, TypeOK
<1>2. ASSUME NEW p \in Procs, ReadPid(p) PROVE TypeOK'
    <2>1. proc' \in [Procs -> Process]
        <3>1. CASE End(p)
            BY <3>1, MovesTyped
        <3>2. ASSUME NEW s \in Procs \cup {NoPid},
                     proc' = [proc EXCEPT ![p].pc = "check", ![p].seen = s]
              PROVE  proc' \in [Procs -> Process]
            BY <3>2, ProcessRecords DEF TypeOK
        <3> QED BY <1>2, <3>1, <3>2 DEF ReadPid, TypeOK
    <2>2. budget' \in BudgetType
        BY <1>2, BudgetTyped DEF ReadPid
    <2>3. unchecked' \in BOOLEAN
        BY <1>2 DEF ReadPid, TypeOK
    <2> QED BY <1>2, <2>1, <2>2, <2>3 DEF ReadPid, TypeOK
<1>3. ASSUME NEW p \in Procs, CheckPid(p) PROVE TypeOK'
    <2>1. proc' \in [Procs -> Process]
        BY <1>3, MovesTyped, ProcessRecords DEF CheckPid, TypeOK
    <2> QED BY <1>3, <2>1 DEF CheckPid, TypeOK
<1>4. ASSUME NEW p \in Procs, SetPid(p) PROVE TypeOK'
    <2>1. proc' \in [Procs -> Process] /\ budget' \in BudgetType
        BY <1>4, MovesTyped, BudgetTyped DEF SetPid
    <2> QED BY <1>4, <2>1 DEF SetPid, TypeOK
<1>5. ASSUME NEW p \in Procs, Access(p) PROVE TypeOK'
    <2>1. proc' \in [Procs -> Process]
        <3>1. CASE Goto(p, "read")
            BY <3>1, MovesTyped
        <3>2. ASSUME NEW i \in Ids,
                     proc' = [proc EXCEPT ![p].pc = "create", ![p].id = i,
                                          ![p].new = TRUE]
              PROVE  proc' \in [Procs -> Process]
            <4>1. [proc[p] EXCEPT !.pc = "create", !.id = i, !.new = TRUE] \in Process
                BY ProcessRecords DEF TypeOK
            <4> QED BY <3>2, <4>1 DEF TypeOK
        <3> QED BY <1>5, <3>1, <3>2 DEF Access, NewNode
    <2>2. split' \in BOOLEAN
        BY <1>5 DEF Access, NewNode, TypeOK
    <2> QED BY <1>5, <2>1, <2>2 DEF Access, TypeOK
<1>6. ASSUME NEW p \in Procs, CreateDb(p) PROVE TypeOK'
    <2>1. proc' \in [Procs -> Process] /\ budget' \in BudgetType
        BY <1>6, MovesTyped, BudgetTyped DEF CreateDb
    <2>2. db' \in DbType
        BY <1>6 DEF CreateDb, TypeOK
    <2> QED BY <1>6, <2>1, <2>2 DEF CreateDb, TypeOK
<1>7. ASSUME NEW p \in Procs, WriteDb(p) PROVE TypeOK'
    <2>1. proc' \in [Procs -> Process] /\ budget' \in BudgetType
        BY <1>7, MovesTyped, BudgetTyped DEF WriteDb
    <2>2. proc[p].id \in Ids \cup {NoId}
        BY DEF TypeOK, Process
    <2>3. db' \in DbType
        <3>1. CASE db' = [db EXCEPT !.len = NodeSize, !.id = proc[p].id]
            <4>1. NodeSize \in 0 .. NodeSize
                BY DEF NodeSize
            <4> QED BY <3>1, <2>2, <4>1 DEF TypeOK
        <3>2. ASSUME NEW n \in ShortLens,
                     db' = [db EXCEPT !.len = IF n > @ THEN n ELSE @]
              PROVE  db' \in DbType
            <4>1. n \in 0 .. NodeSize
                BY StartupAssumption DEF NodeSize, BootEnd
            <4> QED BY <3>2, <4>1 DEF TypeOK
        <3> QED BY <1>7, <3>1, <3>2 DEF WriteDb
    <2> QED BY <1>7, <2>1, <2>3 DEF WriteDb, TypeOK
<1>8. ASSUME NEW p \in Procs, ReadDb(p) PROVE TypeOK'
    <2>1. db.id \in Ids \cup {NoId}
        BY DEF TypeOK
    <2>2. proc' \in [Procs -> Process]
        <3>1. ASSUME NEW r \in Process, proc' = [proc EXCEPT ![p] = r]
              PROVE  proc' \in [Procs -> Process]
            BY <3>1 DEF TypeOK
        <3>2. /\ [proc[p] EXCEPT !.pc = "boot", !.id = db.id] \in Process
              /\ \A n \in {0, 2} : [proc[p] EXCEPT !.pc = "boot", !.rno = n] \in Process
            BY <2>1, ProcessRecords DEF TypeOK
        <3>3. CASE proc' = [proc EXCEPT ![p].pc = "boot", ![p].id = db.id]
            BY <3>1, <3>2, <3>3
        <3>4. ASSUME NEW n \in {0, 2},
                     proc' = [proc EXCEPT ![p].pc = "boot", ![p].rno = n]
              PROVE  proc' \in [Procs -> Process]
            BY <3>1, <3>2, <3>4
        <3> QED BY <1>8, <3>3, <3>4 DEF ReadDb
    <2>3. budget' \in BudgetType
        BY <1>8, BudgetTyped DEF ReadDb
    <2> QED BY <1>8, <2>2, <2>3 DEF ReadDb, TypeOK
<1>9. ASSUME NEW p \in Procs, Boot(p) \/ LastBoot(p) PROVE TypeOK'
    <2>1. proc' \in [Procs -> Process] /\ budget' \in BudgetType
        BY <1>9, MovesTyped, BudgetTyped DEF Boot, LastBoot
    <2>2. db' \in DbType
        BY <1>9, StampTyped DEF Boot, LastBoot, TypeOK
    <2> QED BY <1>9, <2>1, <2>2 DEF Boot, LastBoot, TypeOK
<1>10. ASSUME NEW p \in Procs, Config(p) PROVE TypeOK'
    <2>1. proc' \in [Procs -> Process] /\ budget' \in BudgetType
        BY <1>10, MovesTyped, BudgetTyped DEF Config
    <2> QED BY <1>10, <2>1 DEF Config, TypeOK
<1>11. ASSUME NEW p \in Procs, Arm(p) \/ ToolEnd(p) PROVE TypeOK'
    <2>1. proc' \in [Procs -> Process]
        BY <1>11, MovesTyped DEF Arm, ToolEnd
    <2> QED BY <1>11, <2>1 DEF Arm, ToolEnd, TypeOK
<1>12. ASSUME NEW p \in Procs, Leave(p) PROVE TypeOK'
    <2>1. proc' \in [Procs -> Process]
        <3>1. [Off EXCEPT !.prog = "booter", !.pc = "init"] \in Process
            BY ProcessRecords
        <3>2. CASE End(p)
            BY <3>2, MovesTyped
        <3>3. CASE proc' = [proc EXCEPT ![p] =
                               [Off EXCEPT !.prog = "booter", !.pc = "init"]]
            BY <3>1, <3>3 DEF TypeOK
        <3> QED BY <1>12, <3>2, <3>3 DEF Leave
    <2>2. budget' \in BudgetType
        <3>0. budget.ops > 0 /\ budget \in BudgetType
            BY <1>12 DEF Leave, TypeOK
        <3>1. CASE budget' = [budget EXCEPT !.ops = @ - 1]
            BY <3>0, <3>1, StartupAssumption
        <3>2. CASE budget' = [budget EXCEPT !.ops = @ - 1, !.faults = @ - 1]
                   /\ budget.faults > 0
            <4>1. budget.ops - 1 \in 0 .. MaxOps /\ budget.faults - 1 \in 0 .. MaxFaults
                BY <3>0, <3>2, StartupAssumption
            <4> QED BY <3>0, <3>2, <4>1
        <3> QED BY <1>12, <3>1, <3>2 DEF Leave
    <2> QED BY <1>12, <2>1, <2>2 DEF Leave, TypeOK
<1>13. ASSUME NEW p \in Procs, Crash(p) PROVE TypeOK'
    <2>1. proc' \in [Procs -> Process] /\ budget' \in BudgetType
        BY <1>13, MovesTyped, BudgetTyped DEF Crash
    <2> QED BY <1>13, <2>1 DEF Crash, TypeOK
<1>14. CASE UNCHANGED vars
    BY <1>14 DEF vars, TypeOK
<1> QED BY <1>1, <1>2, <1>3, <1>4, <1>5, <1>6, <1>7, <1>8, <1>9, <1>10, <1>11,
          <1>12, <1>13, <1>14 DEF Next, Step

\* Type correctness of the start-up protocol of main/sarah.c and main/node.c.
THEOREM StartupTypeCorrect == Spec => []TypeOK
<1>1. Init => TypeOK
    <2>1. FALSE \in BOOLEAN
        BY Zenon
    <2>2. [exists |-> FALSE, len |-> 0, id |-> NoId] \in DbType
        <3>1. 0 \in 0 .. NodeSize /\ NoId \in Ids \cup {NoId}
            BY DEF NodeSize
        <3> QED BY <2>1, <3>1, Zenon DEF DbType
    <2>3. Init => proc \in [Procs -> Process]
        BY ProcessRecords DEF Init
    <2>4. Init => budget \in BudgetType
        BY StartupAssumption DEF Init, BudgetType
    <2>5. Init => unchecked \in BOOLEAN /\ split \in BOOLEAN
        BY <2>1, Zenon DEF Init
    <2> QED BY <2>2, <2>3, <2>4, <2>5 DEF Init, TypeOK, DbType, BudgetType
<1> QED BY <1>1, TypeStep, PTL DEF Spec
-----------------------------------------------------------------------------
\* Every step keeps what is known of the pid file.
LEMMA PidStep ==
    ASSUME TypeOK, PidInv, [Next]_vars
    PROVE  PidInv'
<1> USE StartupAssumption DEF TypeOK, Process, Pcs, PidInv, Checking, Live, Off,
        End, Goto, At, Alive
<1>1. ASSUME NEW p \in Procs, NEW prog \in {"booter", "tool"}, Start(p, prog) PROVE PidInv'
    BY <1>1 DEF Start
<1>2. ASSUME NEW p \in Procs, ReadPid(p) PROVE PidInv'
    <2>1. CASE End(p)
        BY <1>2, <2>1 DEF ReadPid
    <2>2. CASE unchecked'
        BY <2>2
    <2>3. CASE /\ ~unchecked /\ \A q \in Procs \ {p} : ~Checking(q)
               /\ proc' = [proc EXCEPT ![p].pc = "check", ![p].seen = pidfile]
               /\ UNCHANGED pidfile
        <3>1. \A q \in Procs \ {p} : proc'[q] = proc[q]
            BY <2>3
        <3>2. proc'[p].pc = "check" /\ proc'[p].seen = pidfile
            BY <2>3
        <3> QED BY <2>3, <3>1, <3>2
    <2> QED BY <1>2, <2>1, <2>2, <2>3 DEF ReadPid
<1>3. ASSUME NEW p \in Procs, CheckPid(p) PROVE PidInv'
    BY <1>3 DEF CheckPid
<1>4. ASSUME NEW p \in Procs, SetPid(p) PROVE PidInv'
    BY <1>4 DEF SetPid, Fault, NoFault
<1>5. ASSUME NEW p \in Procs, Access(p) PROVE PidInv'
    <2>1. CASE Goto(p, "read") /\ db.exists /\ UNCHANGED split
        BY <1>5, <2>1 DEF Access
    <2>2. ASSUME NEW i \in Ids,
                 proc' = [proc EXCEPT ![p].pc = "create", ![p].id = i,
                                      ![p].new = TRUE],
                 ~db.exists,
                 split' = (split \/ \E q \in Procs \ {p} : Creating(q))
          PROVE  PidInv'
        BY <1>5, <2>2 DEF Access, Creating
    <2> QED BY <1>5, <2>1, <2>2 DEF Access, NewNode
<1>6. ASSUME NEW p \in Procs, CreateDb(p) PROVE PidInv'
    BY <1>6 DEF CreateDb, Fault, NoFault
<1>7. ASSUME NEW p \in Procs, WriteDb(p) PROVE PidInv'
    BY <1>7 DEF WriteDb, Fault, NoFault
<1>8. ASSUME NEW p \in Procs, ReadDb(p) PROVE PidInv'
    BY <1>8 DEF ReadDb, Fault, NoFault
<1>9. ASSUME NEW p \in Procs, Boot(p) PROVE PidInv'
    BY <1>9 DEF Boot, Stamped, Fault, NoFault
<1>10. ASSUME NEW p \in Procs, Config(p) PROVE PidInv'
    BY <1>10 DEF Config, Fault, NoFault
<1>11. ASSUME NEW p \in Procs, LastBoot(p) PROVE PidInv'
    BY <1>11 DEF LastBoot, Stamped, Fault, NoFault
<1>12. ASSUME NEW p \in Procs, Arm(p) PROVE PidInv'
    BY <1>12 DEF Arm
<1>13. ASSUME NEW p \in Procs, ToolEnd(p) PROVE PidInv'
    BY <1>13 DEF ToolEnd
<1>14. ASSUME NEW p \in Procs, Leave(p) PROVE PidInv'
    <2>1. CASE End(p)
        BY <1>14, <2>1 DEF Leave
    <2>2. CASE proc' = [proc EXCEPT ![p] =
                           [Off EXCEPT !.prog = "booter", !.pc = "init"]]
        BY <1>14, <2>2 DEF Leave
    <2> QED BY <1>14, <2>1, <2>2 DEF Leave
<1>15. ASSUME NEW p \in Procs, Crash(p) PROVE PidInv'
    BY <1>15 DEF Crash, Fault
<1>16. CASE UNCHANGED vars
    BY <1>16 DEF vars
<1> QED BY <1>1, <1>2, <1>3, <1>4, <1>5, <1>6, <1>7, <1>8,
          <1>9, <1>10, <1>11, <1>12, <1>13, <1>14, <1>15, <1>16 DEF Next, Step

\* sarah_booter_init lets a second booter in only through the window between
\* the read and the write of the pid file, for any number of starts and crashes.
THEOREM PidFileExcludes == Spec => []Exclusive
<1>1. Init => PidInv
    BY DEF Init, PidInv, Checking, Live, Off, At
<1>2. PidInv => Exclusive
    BY DEF PidInv, Exclusive
<1> QED BY <1>1, <1>2, PidStep, StartupTypeCorrect, PTL DEF Spec

-----------------------------------------------------------------------------
\* Every step keeps the facts about the existence of node.db.
LEMMA DbStep ==
    ASSUME TypeOK, DbInv, [Next]_vars
    PROVE  DbInv'
<1> USE StartupAssumption DEF TypeOK, Process, Pcs, DbInv, Off, End, Goto, At,
        Alive, NodeSize, BootEnd
<1>1. ASSUME NEW p \in Procs, NEW prog \in {"booter", "tool"}, Start(p, prog) PROVE DbInv'
    BY <1>1 DEF Start
<1>2. ASSUME NEW p \in Procs, ReadPid(p) PROVE DbInv'
    BY <1>2 DEF ReadPid, Fault, NoFault
<1>3. ASSUME NEW p \in Procs, CheckPid(p) PROVE DbInv'
    BY <1>3 DEF CheckPid
<1>4. ASSUME NEW p \in Procs, SetPid(p) PROVE DbInv'
    BY <1>4 DEF SetPid, Fault, NoFault
<1>5. ASSUME NEW p \in Procs, Access(p) PROVE DbInv'
    <2>1. CASE Goto(p, "read") /\ db.exists /\ UNCHANGED split
        BY <1>5, <2>1 DEF Access
    <2>2. ASSUME NEW i \in Ids,
                 proc' = [proc EXCEPT ![p].pc = "create", ![p].id = i,
                                      ![p].new = TRUE],
                 ~db.exists,
                 split' = (split \/ \E q \in Procs \ {p} : Creating(q))
          PROVE  DbInv'
        BY <1>5, <2>2 DEF Access, Creating
    <2> QED BY <1>5, <2>1, <2>2 DEF Access, NewNode
<1>6. ASSUME NEW p \in Procs, CreateDb(p) PROVE DbInv'
    BY <1>6 DEF CreateDb, Fault, NoFault
<1>7. ASSUME NEW p \in Procs, WriteDb(p) PROVE DbInv'
    <2>1. CASE /\ db' = [db EXCEPT !.len = NodeSize, !.id = proc[p].id]
               /\ Goto(p, "boot")
        BY <1>7, <2>1 DEF WriteDb
    <2>2. ASSUME NEW n \in ShortLens, End(p),
                 db' = [db EXCEPT !.len = IF n > @ THEN n ELSE @]
          PROVE  DbInv'
        BY <1>7, <2>2 DEF WriteDb
    <2> QED BY <1>7, <2>1, <2>2 DEF WriteDb
<1>8. ASSUME NEW p \in Procs, ReadDb(p) PROVE DbInv'
    BY <1>8 DEF ReadDb, Fault, NoFault
<1>9. ASSUME NEW p \in Procs, Boot(p) PROVE DbInv'
    BY <1>9 DEF Boot, Stamped, Fault, NoFault
<1>10. ASSUME NEW p \in Procs, Config(p) PROVE DbInv'
    BY <1>10 DEF Config, Fault, NoFault
<1>11. ASSUME NEW p \in Procs, LastBoot(p) PROVE DbInv'
    BY <1>11 DEF LastBoot, Stamped, Fault, NoFault
<1>12. ASSUME NEW p \in Procs, Arm(p) PROVE DbInv'
    BY <1>12 DEF Arm
<1>13. ASSUME NEW p \in Procs, ToolEnd(p) PROVE DbInv'
    BY <1>13 DEF ToolEnd
<1>14. ASSUME NEW p \in Procs, Leave(p) PROVE DbInv'
    <2>1. CASE End(p)
        BY <1>14, <2>1 DEF Leave
    <2>2. CASE proc' = [proc EXCEPT ![p] =
                           [Off EXCEPT !.prog = "booter", !.pc = "init"]]
        BY <1>14, <2>2 DEF Leave
    <2> QED BY <1>14, <2>1, <2>2 DEF Leave
<1>15. ASSUME NEW p \in Procs, Crash(p) PROVE DbInv'
    BY <1>15 DEF Crash, Fault
<1>16. CASE UNCHANGED vars
    BY <1>16 DEF vars
<1> QED BY <1>1, <1>2, <1>3, <1>4, <1>5, <1>6, <1>7, <1>8,
          <1>9, <1>10, <1>11, <1>12, <1>13, <1>14, <1>15, <1>16 DEF Next, Step

\* Every step keeps the agreement of the programs with node.db.
LEMMA IdStep ==
    ASSUME TypeOK, DbInv, IdInv, [Next]_vars
    PROVE  IdInv'
<1> USE StartupAssumption DEF TypeOK, Process, Pcs, DbInv, IdInv, Creating, Off,
        End, Goto, At, Alive, NodeSize, BootEnd
<1>1. ASSUME NEW p \in Procs, NEW prog \in {"booter", "tool"}, Start(p, prog) PROVE IdInv'
    BY <1>1 DEF Start
<1>2. ASSUME NEW p \in Procs, ReadPid(p) PROVE IdInv'
    <2>1. CASE End(p)
        BY <1>2, <2>1 DEF ReadPid
    <2>2. ASSUME NEW s \in {pidfile, NoPid},
                 proc' = [proc EXCEPT ![p].pc = "check", ![p].seen = s]
          PROVE  IdInv'
        BY <1>2, <2>2 DEF ReadPid
    <2> QED BY <1>2, <2>1, <2>2 DEF ReadPid
<1>3. ASSUME NEW p \in Procs, CheckPid(p) PROVE IdInv'
    BY <1>3 DEF CheckPid
<1>4. ASSUME NEW p \in Procs, SetPid(p) PROVE IdInv'
    BY <1>4 DEF SetPid, Fault, NoFault
<1>5. ASSUME NEW p \in Procs, Access(p) PROVE IdInv'
    <2>1. CASE Goto(p, "read") /\ db.exists /\ UNCHANGED split
        BY <1>5, <2>1 DEF Access
    <2>2. ASSUME NEW i \in Ids,
                 proc' = [proc EXCEPT ![p].pc = "create", ![p].id = i,
                                      ![p].new = TRUE],
                 ~db.exists,
                 split' = (split \/ \E q \in Procs \ {p} : Creating(q))
          PROVE  IdInv'
        BY <1>5, <2>2 DEF Access, Creating
    <2> QED BY <1>5, <2>1, <2>2 DEF Access, NewNode
<1>6. ASSUME NEW p \in Procs, CreateDb(p) PROVE IdInv'
    BY <1>6 DEF CreateDb, Fault, NoFault
<1>7. ASSUME NEW p \in Procs, WriteDb(p) PROVE IdInv'
    <2>1. CASE /\ db' = [db EXCEPT !.len = NodeSize, !.id = proc[p].id]
               /\ Goto(p, "boot")
        BY <1>7, <2>1 DEF WriteDb
    <2>2. ASSUME NEW n \in ShortLens, End(p),
                 db' = [db EXCEPT !.len = IF n > @ THEN n ELSE @]
          PROVE  IdInv'
        BY <1>7, <2>2 DEF WriteDb
    <2> QED BY <1>7, <2>1, <2>2 DEF WriteDb
<1>8. ASSUME NEW p \in Procs, ReadDb(p) PROVE IdInv'
    <2>1. CASE /\ db.len = NodeSize
               /\ proc' = [proc EXCEPT ![p].pc = "boot", ![p].id = db.id]
        BY <1>8, <2>1 DEF ReadDb
    <2>2. ASSUME NEW n \in {0, 2},
                 proc' = [proc EXCEPT ![p].pc = "boot", ![p].rno = n]
          PROVE  IdInv'
        BY <1>8, <2>2 DEF ReadDb
    <2> QED BY <1>8, <2>1, <2>2 DEF ReadDb
<1>9. ASSUME NEW p \in Procs, Boot(p) PROVE IdInv'
    BY <1>9 DEF Boot, Stamped, Fault, NoFault
<1>10. ASSUME NEW p \in Procs, Config(p) PROVE IdInv'
    BY <1>10 DEF Config, Fault, NoFault
<1>11. ASSUME NEW p \in Procs, LastBoot(p) PROVE IdInv'
    BY <1>11 DEF LastBoot, Stamped, Fault, NoFault
<1>12. ASSUME NEW p \in Procs, Arm(p) PROVE IdInv'
    BY <1>12 DEF Arm
<1>13. ASSUME NEW p \in Procs, ToolEnd(p) PROVE IdInv'
    BY <1>13 DEF ToolEnd
<1>14. ASSUME NEW p \in Procs, Leave(p) PROVE IdInv'
    <2>1. CASE End(p)
        BY <1>14, <2>1 DEF Leave
    <2>2. CASE proc' = [proc EXCEPT ![p] =
                           [Off EXCEPT !.prog = "booter", !.pc = "init"]]
        BY <1>14, <2>2 DEF Leave
    <2> QED BY <1>14, <2>1, <2>2 DEF Leave
<1>15. ASSUME NEW p \in Procs, Crash(p) PROVE IdInv'
    BY <1>15 DEF Crash, Fault
<1>16. CASE UNCHANGED vars
    BY <1>16 DEF vars
<1> QED BY <1>1, <1>2, <1>3, <1>4, <1>5, <1>6, <1>7, <1>8,
          <1>9, <1>10, <1>11, <1>12, <1>13, <1>14, <1>15, <1>16 DEF Next, Step

\* The invariants of node.db together.
LEMMA NodeInvariant == Spec => [](TypeOK /\ DbInv /\ IdInv)
<1>1. Init => DbInv /\ IdInv
    BY DEF Init, DbInv, IdInv, Creating, Off, At, NodeSize
<1> QED BY <1>1, DbStep, IdStep, StartupTypeCorrect, PTL DEF Spec

\* sarah_node_init gives every running program the id of node.db, outside the
\* window between access() and the write of the record.
THEOREM NodeIdAgrees == Spec => []IdAgreement
<1>1. IdInv => IdAgreement
    BY DEF IdInv, IdAgreement, At
<1> QED BY <1>1, NodeInvariant, PTL

\* A step that leaves the creation window alone leaves a complete record's id
\* alone.
LEMMA RecordStays ==
    ASSUME TypeOK, IdInv, [Next]_vars, ~split', db.len = NodeSize
    PROVE  db'.len = NodeSize /\ db'.id = db.id
<1> USE StartupAssumption DEF TypeOK, IdInv, At, NodeSize, BootEnd
<1>1. ASSUME NEW p \in Procs, CreateDb(p) PROVE db'.len = NodeSize /\ db'.id = db.id
    BY <1>1 DEF CreateDb
<1>2. ASSUME NEW p \in Procs, WriteDb(p) PROVE FALSE
    BY <1>2 DEF WriteDb
<1>3. ASSUME NEW p \in Procs, Boot(p) \/ LastBoot(p)
      PROVE  db'.len = NodeSize /\ db'.id = db.id
    BY <1>3 DEF Boot, LastBoot, Stamped
<1>4. ASSUME NEW p \in Procs, NEW prog \in {"booter", "tool"}, Start(p, prog)
      PROVE  UNCHANGED db
    BY <1>4 DEF Start
<1>5. ASSUME NEW p \in Procs,
             \/ ReadPid(p) \/ CheckPid(p) \/ SetPid(p) \/ Access(p) \/ ReadDb(p)
             \/ Config(p) \/ Arm(p) \/ ToolEnd(p) \/ Leave(p) \/ Crash(p)
      PROVE  UNCHANGED db
    BY <1>5 DEF ReadPid, CheckPid, SetPid, Access, ReadDb, Config, Arm, ToolEnd,
                Leave, Crash
<1>6. CASE UNCHANGED vars
    BY <1>6 DEF vars
<1> QED BY <1>1, <1>2, <1>3, <1>4, <1>5, <1>6 DEF Next, Step

\* The id of a host is for life: no start, crash or failing write changes a
\* complete node.db, outside the same window.
THEOREM NodeIdIsForLife == Spec => IdNeverChanges
<1>1. TypeOK /\ IdInv /\ [Next]_vars =>
        [~split' /\ db.len = NodeSize => db'.len = NodeSize /\ db'.id = db.id]_vars
    BY RecordStays
<1> QED BY <1>1, NodeInvariant, PTL DEF Spec, IdNeverChanges
=============================================================================
