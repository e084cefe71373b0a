------------------------------- MODULE Startup ------------------------------
(***************************************************************************)
(* What several programs do to the files of /etc/sarah when they start:    *)
(* the pid file (main/sarah.c) and the node store node.db (main/node.c).   *)
(*                                                                         *)
(* A booter reads the pid file, asks the process named there whether it is *)
(* alive, writes its own pid and opens the node store; sarah-executor, the *)
(* command line tool of main/sarah_executor.c, opens the node store only.  *)
(* Every file operation is under flock and thus one step; between two of   *)
(* them any other process runs, crashes or is killed.  Module Booter       *)
(* starts one booter at a time; here several start at once.                *)
(*                                                                         *)
(* node.db is its length and the node id its last 40 bytes hold.           *)
(* config.json is an outcome.  Allocation failures are not modelled.       *)
(***************************************************************************)
EXTENDS Integers, FiniteSets

CONSTANTS
    Procs,     \* process ids
    NoPid,     \* 0, also what atoi makes of an empty pid file
    Ids,       \* the node ids sarah_gen_node_id may come up with
    NoId,      \* the empty node id
    ShortLens, \* how much of a record a failed write leaves: no byte of the id
    MaxStarts, \* bound: programs started
    MaxFaults, \* bound: crashes and failing system calls
    MaxOps     \* bound: EXIT or RESTART of a running booter

NodeSize == 52 \* sarah_node_size
BootEnd  == 12 \* where the field last_boot_at ends

ASSUME StartupAssumption ==
    /\ NoPid \notin Procs
    /\ NoId \notin Ids
    /\ ShortLens \subseteq 0 .. BootEnd
    /\ MaxStarts \in Nat /\ MaxFaults \in Nat /\ MaxOps \in Nat

VARIABLES
    pidfile,   \* the pid in sarah.pid
    db,        \* node.db
    proc,      \* the processes
    unchecked, \* history: two booters were between check and write of the
               \* pid file at a time, or one could not read the file
    split,     \* history: two processes were creating node.db at a time
    budget     \* what is left of the bounds

vars == <<pidfile, db, proc, unchecked, split, budget>>

Pcs == {"off", "init", "check", "setpid", "access", "create", "write", "read",
        "boot", "config", "last", "arm", "run"}

Process == [prog : {"booter", "tool"}, pc : Pcs, seen : Procs \cup {NoPid},
            id : Ids \cup {NoId}, new : BOOLEAN, rno : {0, 2}]

Off == [prog |-> "tool", pc |-> "off", seen |-> NoPid, id |-> NoId,
        new |-> FALSE, rno |-> 0]

TypeOK ==
    /\ pidfile \in Procs \cup {NoPid}
    /\ db \in [exists : BOOLEAN, len : 0 .. NodeSize, id : Ids \cup {NoId}]
    /\ proc \in [Procs -> Process]
    /\ unchecked \in BOOLEAN
    /\ split \in BOOLEAN
    /\ budget \in [starts : 0 .. MaxStarts, faults : 0 .. MaxFaults,
                   ops : 0 .. MaxOps]

Init ==
    /\ pidfile = NoPid
    /\ db = [exists |-> FALSE, len |-> 0, id |-> NoId]
    /\ proc = [p \in Procs |-> Off]
    /\ unchecked = FALSE
    /\ split = FALSE
    /\ budget = [starts |-> MaxStarts, faults |-> MaxFaults, ops |-> MaxOps]

-----------------------------------------------------------------------------
At(p, pc) == proc[p].pc = pc
Alive(p)  == ~At(p, "off")

\* between the read of the pid file and the write of the own pid
Checking(p) == proc[p].pc \in {"check", "setpid"}

\* between the access() that finds no node.db and the write of the record
Creating(p) == proc[p].pc \in {"create", "write"}

\* a booter that has written its pid
Live(p) ==
    /\ proc[p].prog = "booter"
    /\ proc[p].pc \in {"access", "create", "write", "read", "boot", "config",
                       "last", "arm", "run"}

Goto(p, pc) == proc' = [proc EXCEPT ![p].pc = pc]
End(p)      == proc' = [proc EXCEPT ![p] = Off]

Fault ==
    /\ budget.faults > 0
    /\ budget' = [budget EXCEPT !.faults = @ - 1]

NoFault == UNCHANGED budget

\* an operator, the init system or another program starts prog
Start(p, prog) ==
    /\ At(p, "off")
    /\ budget.starts > 0
    /\ budget' = [budget EXCEPT !.starts = @ - 1]
    /\ proc' = [proc EXCEPT ![p] =
                   [Off EXCEPT !.prog = prog,
                               !.pc = IF prog = "booter" THEN "init"
                                      ELSE "access"]]
    /\ UNCHANGED <<pidfile, db, unchecked, split>>

\* sarah_booter_init up to sarah_booter_getpid, which takes a file it cannot
\* read for no pid; sarah_mkdir may fail
ReadPid(p) ==
    /\ At(p, "init")
    /\ \/ /\ proc' = [proc EXCEPT ![p].pc = "check", ![p].seen = pidfile]
          /\ unchecked' = (unchecked \/ \E q \in Procs \ {p} : Checking(q))
          /\ NoFault
       \/ /\ proc' = [proc EXCEPT ![p].pc = "check", ![p].seen = NoPid]
          /\ unchecked' = TRUE
          /\ Fault
       \/ End(p) /\ Fault /\ UNCHANGED unchecked
    /\ UNCHANGED <<pidfile, db, split>>

\* (mutant) the check warns and goes on
CheckPid_GoesOn(p) ==
    /\ At(p, "check")
    /\ Goto(p, "setpid")
    /\ UNCHANGED <<pidfile, db, unchecked, split, budget>>

\* (mutant) a pid in the file is enough to refuse
CheckPid_Trusting(p) ==
    /\ At(p, "check")
    /\ IF proc[p].seen = NoPid THEN Goto(p, "setpid") ELSE End(p)
    /\ UNCHANGED <<pidfile, db, unchecked, split, budget>>

\* The rest of sarah_booter_init: send CHECK to the pid of the file and give
\* up if there is such a process.  CHECK is SIGUSR2: it ends a process that
\* has no handler for it, a booter that is still starting for one.
CheckPid(p) ==
    /\ At(p, "check")
    /\ LET q == proc[p].seen IN
       IF q # NoPid /\ Alive(q)
       THEN proc' = [r \in Procs |->
                        IF r = p \/ (r = q /\ ~At(q, "run"))
                                 \/ (r = q /\ proc[q].prog = "tool")
                        THEN Off ELSE proc[r]]
       ELSE Goto(p, "setpid")
    /\ UNCHANGED <<pidfile, db, unchecked, split, budget>>

\* sarah_booter_setpid(getpid()): truncate and write; a failure ends the
\* booter and may leave the file empty
SetPid(p) ==
    /\ At(p, "setpid")
    /\ \/ pidfile' = p /\ Goto(p, "access") /\ NoFault
       \/ pidfile' \in {pidfile, NoPid} /\ End(p) /\ Fault
    /\ UNCHANGED <<db, unchecked, split>>

-----------------------------------------------------------------------------
(***************************************************************************)
(* sarah_node_init.                                                        *)
(***************************************************************************)

\* a new node: generate an id, which goes to the file two steps later
NewNode(p) ==
    /\ \E i \in Ids :
        proc' = [proc EXCEPT ![p].pc = "create", ![p].id = i, ![p].new = TRUE]
    /\ split' = (split \/ \E q \in Procs \ {p} : Creating(q))

\* (mutant) every start makes a new node
Access_AlwaysNew(p) ==
    /\ At(p, "access")
    /\ NewNode(p)
    /\ UNCHANGED <<pidfile, db, unchecked, budget>>

\* access(node->db_file, F_OK)
Access(p) ==
    /\ At(p, "access")
    /\ \/ db.exists /\ Goto(p, "read") /\ UNCHANGED split
       \/ ~db.exists /\ NewNode(p)
    /\ UNCHANGED <<pidfile, db, unchecked, budget>>

\* sarah_node_flush: open with O_CREAT and without O_EXCL or O_TRUNC
CreateDb(p) ==
    /\ At(p, "create")
    /\ \/ db' = [db EXCEPT !.exists = TRUE] /\ Goto(p, "write") /\ NoFault
       \/ End(p) /\ Fault /\ UNCHANGED db
    /\ UNCHANGED <<pidfile, unchecked, split>>

\* sarah_node_flush: the record; a failure ends the program (errno 4)
WriteDb(p) ==
    /\ At(p, "write")
    /\ \/ /\ db' = [db EXCEPT !.len = NodeSize, !.id = proc[p].id]
          /\ Goto(p, "boot")
          /\ NoFault
       \/ /\ \E n \in ShortLens :
                db' = [db EXCEPT !.len = IF n > @ THEN n ELSE @]
          /\ End(p)
          /\ Fault
    /\ UNCHANGED <<pidfile, unchecked, split>>

\* (mutant) the number of bytes read is not compared with the record's size
ReadDb_AnyLength(p) ==
    /\ At(p, "read")
    /\ \E i \in Ids :
        proc' = [proc EXCEPT ![p].pc = "boot",
                             ![p].id = IF db.len = NodeSize THEN db.id ELSE i]
    /\ UNCHANGED <<pidfile, db, unchecked, split, budget>>

\* Read the record.  A short one is error 2, reported at the very end.  A file
\* that cannot be opened is no error: the program goes on without an id.
ReadDb(p) ==
    /\ At(p, "read")
    /\ \/ /\ db.len = NodeSize
          /\ proc' = [proc EXCEPT ![p].pc = "boot", ![p].id = db.id]
          /\ NoFault
       \/ /\ db.len < NodeSize
          /\ proc' = [proc EXCEPT ![p].pc = "boot", ![p].rno = 2]
          /\ NoFault
       \/ /\ \E rno \in {0, 2} :
                proc' = [proc EXCEPT ![p].pc = "boot", ![p].rno = rno]
          /\ Fault
    /\ UNCHANGED <<pidfile, db, unchecked, split>>

\* (mutant) the field is appended
Stamped_Append(f) == [f EXCEPT !.len = @ + 4]

\* _write_buffer at offset 8: a file that is shorter grows to that field's end
Stamped(f) == [f EXCEPT !.len = IF @ < BootEnd THEN BootEnd ELSE @]

\* sarah_node_set_last_boot_at, written to the file unless the node is new;
\* its failure is ignored
Boot(p) ==
    /\ At(p, "boot")
    /\ Goto(p, "config")
    /\ \/ db' = (IF proc[p].new THEN db ELSE Stamped(db)) /\ NoFault
       \/ ~proc[p].new /\ UNCHANGED db /\ Fault
    /\ UNCHANGED <<pidfile, unchecked, split>>

\* config.json and the return value: error 2 survives until here
Config(p) ==
    /\ At(p, "config")
    /\ \/ /\ IF proc[p].rno = 0
             THEN Goto(p, IF proc[p].prog = "booter" THEN "last" ELSE "run")
             ELSE End(p)
          /\ NoFault
       \/ End(p) /\ Fault
    /\ UNCHANGED <<pidfile, db, unchecked, split>>

-----------------------------------------------------------------------------
(***************************************************************************)
(* After the node is there.                                                *)
(***************************************************************************)

\* main(): sarah_node_set_last_boot_at with synchronisation
LastBoot(p) ==
    /\ At(p, "last")
    /\ Goto(p, "arm")
    /\ \/ db' = Stamped(db) /\ NoFault
       \/ UNCHANGED db /\ Fault
    /\ UNCHANGED <<pidfile, unchecked, split>>

\* install the signal handlers and run
Arm(p) ==
    /\ At(p, "arm")
    /\ Goto(p, "run")
    /\ UNCHANGED <<pidfile, db, unchecked, split, budget>>

\* the tool has run its script
ToolEnd(p) ==
    /\ At(p, "run")
    /\ proc[p].prog = "tool"
    /\ End(p)
    /\ UNCHANGED <<pidfile, db, unchecked, split, budget>>

\* EXIT or RESTART: sarah_booter_setpid(0), then the end or execve; the result
\* of the write is ignored (failing, it costs a fault besides the operation)
Leave(p) ==
    /\ At(p, "run")
    /\ proc[p].prog = "booter"
    /\ budget.ops > 0
    /\ \/ /\ pidfile' = NoPid
          /\ budget' = [budget EXCEPT !.ops = @ - 1]
       \/ /\ budget.faults > 0
          /\ UNCHANGED pidfile
          /\ budget' = [budget EXCEPT !.ops = @ - 1, !.faults = @ - 1]
    /\ \/ End(p)
       \/ proc' = [proc EXCEPT ![p] =
                      [Off EXCEPT !.prog = "booter", !.pc = "init"]]
    /\ UNCHANGED <<db, unchecked, split>>

\* a crash, or SIGKILL, or any signal before the handlers are there
Crash(p) ==
    /\ Alive(p)
    /\ End(p)
    /\ Fault
    /\ UNCHANGED <<pidfile, db, unchecked, split>>

\* the steps a program takes by itself
Step(p) ==
    \/ ReadPid(p) \/ CheckPid(p) \/ SetPid(p)
    \/ Access(p) \/ CreateDb(p) \/ WriteDb(p) \/ ReadDb(p)
    \/ Boot(p) \/ Config(p) \/ LastBoot(p) \/ Arm(p)

Next ==
    \E p \in Procs :
        \/ \E prog \in {"booter", "tool"} : Start(p, prog)
        \/ Step(p)
        \/ ToolEnd(p) \/ Leave(p) \/ Crash(p)

Spec == Init /\ [][Next]_vars

FairSpec == Spec /\ \A p \in Procs : WF_vars(Step(p))

-----------------------------------------------------------------------------
(***************************************************************************)
(* Properties.                                                             *)
(***************************************************************************)

\* The pid file keeps a second booter out: two booters have their pid written
\* only if both were between reading the file and writing it, or one could not
\* read it (sarah_booter_init and sarah_booter_setpid are not one operation).
Exclusive ==
    ~unchecked => \A p, q \in Procs : Live(p) /\ Live(q) => p = q

\* A running program that has a node id has the one of node.db, however many
\* others start, fail or crash meanwhile, unless two created the file at a
\* time (access and open are not one operation).
IdAgreement ==
    ~split => \A p \in Procs :
        At(p, "run") /\ proc[p].id # NoId =>
            db.len = NodeSize /\ db.id = proc[p].id

\* The id of a host is for life: a complete node.db is never cut or given
\* another id, with the same exception.
IdNeverChanges ==
    [][~split' /\ db.len = NodeSize => db'.len = NodeSize /\ db'.id = db.id]_vars

\* A booter that starts undisturbed, after any crashes before, comes up: a
\* stale pid file does not keep it out.  A node.db left short by a failed
\* creation does, and so does a pid file that holds its own pid.
Recovers ==
    \A p \in Procs :
        (/\ At(p, "init")
         /\ \A q \in Procs \ {p} : At(q, "off")
         /\ budget = [starts |-> 0, faults |-> 0, ops |-> 0]
         /\ pidfile # p
         /\ db.exists => db.len = NodeSize)
        ~> At(p, "run")
=============================================================================
