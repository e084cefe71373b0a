------------------------------- MODULE Booter -------------------------------
(***************************************************************************)
(* The supervisor of main/sarah.c and the life cycle of the applications   *)
(* it forks.                                                               *)
(*                                                                         *)
(* One booter process writes its pid file, installs its signal handlers,   *)
(* forks one child per entry of _internal_apps[] and then loops: leave on  *)
(* RESTART/EXIT, follow the ghost u-disk (ghost build only), reboot dead   *)
(* applications, sleep.  All communication is by signals, which set one    *)
(* status word per process.  The work of an application is abstracted to   *)
(* one step; its loop skeleton (EXIT check, STOP check, parent check, tail *)
(* EXIT check) is kept because the supervision protocol depends on it.     *)
(*                                                                         *)
(* Sleeps and time are abstracted: a sleep is a point where any other      *)
(* process may run.  A signal is pending until it is handled, signals do   *)
(* not queue, and pending signals are handled in any order.                *)
(***************************************************************************)
EXTENDS Integers, FiniteSets

CONSTANTS
    NApps,        \* number of entries of _internal_apps[]
    SmartdiskIdx, \* index of sarah-smartdisk, the one that ignores STOP
    UpdaterIdx,   \* index of sarah-updater, the one that restarts the booter
    Pids,         \* process ids the kernel hands out to the applications
    NoPid,        \* 0, the value of app->pid before the first fork
    ForkErr,      \* -1, the value of app->pid after a failed fork
    Ghost,        \* TRUE for `make ghost`, FALSE for `make`
    OpSignals,    \* the signals an operator sends to the booter
    FaultKinds,   \* the kinds of faults of this instance
    MaxOps,       \* bound: operator actions (signals, u-disk changes)
    MaxFaults,    \* bound: faults
    MaxUpdates    \* bound: restarts requested by the updater

Signals   == {"STOP", "CONT", "EXIT", "RESTART", "CHECK"}
Statuses  == {"READY", "RUNNING", "STOP", "RESTART", "EXIT"}
AllFaults == {"death",  \* an application crashes, is killed or fails its init
              "kill",   \* the booter is killed with SIGKILL or crashes
              "fork",   \* fork() fails
              "io",     \* writing the pid file or opening the node fails
              "exec",   \* execve() fails
              "reuse"}  \* a stale pid names a foreign process

ASSUME ConstantsAssumption ==
    /\ NApps \in Nat \ {0}
    /\ SmartdiskIdx \in 0 .. NApps - 1
    /\ UpdaterIdx \in 0 .. NApps - 1
    /\ NoPid \notin Pids
    /\ ForkErr \notin Pids
    /\ NoPid # ForkErr
    /\ Ghost \in BOOLEAN
    /\ OpSignals \subseteq Signals
    /\ FaultKinds \subseteq AllFaults
    /\ MaxOps \in Nat /\ MaxFaults \in Nat /\ MaxUpdates \in Nat

VARIABLES
    bpc,      \* where the booter is in main()
    bstatus,  \* _g_sarah_booter.status in the booter process
    bpend,    \* signals pending for the booter
    idx,      \* _app_idx
    apid,     \* _internal_apps[i].pid in the booter process
    pidfile,  \* /etc/sarah/sarah.pid: 0, the booter's pid, a dead booter's
    udisk,    \* the u-disk plugged into the host
    gst,      \* has_ghost_udisk, sigstop_sended, sigcont_sended
    unlocked, \* history: the booter, or a hangup, has broadcast CONT
    proc,     \* the application processes, by pid
    budget    \* what is left of the bounds

bvars == <<bpc, bstatus, bpend, idx, apid, pidfile, gst, unlocked>>
vars  == <<bpc, bstatus, bpend, idx, apid, pidfile, udisk, gst, unlocked,
           proc, budget>>

Idx == 0 .. NApps - 1

BooterPcs == {"dead", "init", "setpid", "node", "arm", "fork", "loop", "ghost",
              "reboot", "sleep", "stop", "wait", "cleanup", "exec"}
AppPcs    == {"none", "boot", "top", "work", "tail"}
Udisks    == {"absent", "nocfg", "badcfg", "valid"}
GhostInit == [has |-> FALSE, stopSent |-> FALSE, contSent |-> FALSE]

\* An entry of the process table; orphan: its parent is init, not the booter;
\* bootOrphan: whether that was so when it saved boot_ppid.
Process == [st : {"free", "alive", "zombie"}, app : Idx, pc : AppPcs,
            status : Statuses, pend : SUBSET Signals,
            orphan : BOOLEAN, bootOrphan : BOOLEAN]

FreeProcess == [st |-> "free", app |-> 0, pc |-> "none", status |-> "READY",
                pend |-> {}, orphan |-> FALSE, bootOrphan |-> FALSE]

TypeOK ==
    /\ bpc \in BooterPcs
    /\ bstatus \in Statuses
    /\ bpend \in SUBSET Signals
    /\ idx \in Nat
    /\ apid \in [Idx -> Pids \cup {NoPid, ForkErr}]
    /\ pidfile \in {"none", "live", "stale"}
    /\ udisk \in Udisks
    /\ gst \in [has : BOOLEAN, stopSent : BOOLEAN, contSent : BOOLEAN]
    /\ unlocked \in BOOLEAN
    /\ proc \in [Pids -> Process]
    /\ budget \in [ops : 0 .. MaxOps, faults : 0 .. MaxFaults,
                   updates : 0 .. MaxUpdates]

-----------------------------------------------------------------------------
(***************************************************************************)
(* The kernel's part: process table, kill() and waitpid().                 *)
(***************************************************************************)

Children == {p \in Pids : proc[p].st # "free" /\ ~proc[p].orphan}

\* waitpid(target, ...): -1 stands for any child
Waitable(target) == {p \in Children : target \in {p, ForkErr}}
Dead(target)     == {p \in Waitable(target) : proc[p].st = "zombie"}

\* kill(target, sig), -1 being every process but the caller.  As root it
\* fails only when there is no such process, and then the code's retries and
\* its final SIGKILL have no effect either.
Signalled(target, sig) ==
    [p \in Pids |->
        IF proc[p].st = "alive" /\ target \in {p, ForkErr}
        THEN [proc[p] EXCEPT !.pend = @ \cup {sig}]
        ELSE proc[p]]

\* the same signal to every application in turn
SignalledAll(sig) ==
    [p \in Pids |->
        IF /\ proc[p].st = "alive"
           /\ \E i \in Idx : apid[i] \in {p, ForkErr}
        THEN [proc[p] EXCEPT !.pend = @ \cup {sig}]
        ELSE proc[p]]

\* A child of fork(): a copy of the booter, with its handlers and its status.
ForkedChild(i) ==
    [FreeProcess EXCEPT !.st = "alive", !.app = i, !.pc = "boot",
                        !.status = bstatus]

\* What remains of a process that ends: a zombie of the booter, or nothing
\* when init is the parent.
Ended(r) ==
    IF r.orphan THEN FreeProcess
    ELSE [FreeProcess EXCEPT !.st = "zombie", !.app = r.app]

\* (mutant) the handler stores the signal instead of the status it stands for
Handled_RawSignal(sig, status) == IF sig = "CHECK" THEN status ELSE sig

\* _signal_handler: the last signal handled decides
Handled(sig, status) ==
    CASE sig = "STOP"    -> "STOP"
      [] sig = "CONT"    -> "RUNNING"
      [] sig = "EXIT"    -> "EXIT"
      [] sig = "RESTART" -> "RESTART"
      [] OTHER           -> status

Fault(kind) ==
    /\ kind \in FaultKinds
    /\ budget.faults > 0
    /\ budget' = [budget EXCEPT !.faults = @ - 1]

NoFault == UNCHANGED budget

\* The booter process is gone: its children become init's, init reaps the
\* zombies among them, and pf is what the pid file holds.
BooterGone(pf) ==
    /\ bpc' = "dead"
    /\ bstatus' = "READY"
    /\ bpend' = {}
    /\ idx' = 0
    /\ apid' = [i \in Idx |-> NoPid]
    /\ gst' = GhostInit
    /\ proc' = [p \in Pids |->
                   IF proc[p].st = "alive" THEN [proc[p] EXCEPT !.orphan = TRUE]
                   ELSE FreeProcess]
    /\ pidfile' = pf
    /\ UNCHANGED <<udisk, unlocked>>

\* what the pid file is worth when the booter dies without touching it
PidLeft == IF pidfile = "live" THEN "stale" ELSE pidfile

Goto(pc) == bpc' = pc

\* The handlers are installed by "arm" and last until execve.
Armed == bpc \notin {"dead", "init", "setpid", "node", "arm"}

-----------------------------------------------------------------------------
(***************************************************************************)
(* The booter: start.                                                      *)
(***************************************************************************)

\* `sarah start`, or the boot sequence of the host
StartBooter ==
    /\ bpc = "dead"
    /\ Goto("init")
    /\ UNCHANGED <<bstatus, bpend, idx, apid, pidfile, udisk, gst, unlocked,
                   proc, budget>>

\* sarah_booter_init: refuse to start if the pid of the file answers CHECK.
\* A pid file that still holds the booter's own pid (after execve) makes it
\* signal itself, which is fatal before the handlers are installed.
BooterInit ==
    /\ bpc = "init"
    /\ \/ /\ pidfile \in {"none", "stale"}
          /\ Goto("setpid")
          /\ bstatus' = "READY"
          /\ NoFault
          /\ UNCHANGED <<bpend, idx, apid, pidfile, udisk, gst, unlocked, proc>>
       \/ pidfile = "stale" /\ Fault("reuse") /\ BooterGone(PidLeft)
       \/ pidfile = "live" /\ NoFault /\ BooterGone(PidLeft)

\* sarah_booter_setpid(getpid())
BooterSetpid ==
    /\ bpc = "setpid"
    /\ \/ /\ pidfile' = "live"
          /\ Goto("node")
          /\ NoFault
          /\ UNCHANGED <<bstatus, bpend, idx, apid, udisk, gst, unlocked, proc>>
       \/ Fault("io") /\ \E pf \in {pidfile, "none"} : BooterGone(pf)

\* sarah_node_init and sarah_node_set_last_boot_at: a failure ends the booter
\* with its pid still in the pid file
BooterNode ==
    /\ bpc = "node"
    /\ \/ /\ Goto("arm")
          /\ NoFault
          /\ UNCHANGED <<bstatus, bpend, idx, apid, pidfile, udisk, gst,
                         unlocked, proc>>
       \/ Fault("io") /\ BooterGone(PidLeft)

\* install the signal handlers
BooterArm ==
    /\ bpc = "arm"
    /\ Goto("fork")
    /\ idx' = 0
    /\ UNCHANGED <<bstatus, bpend, apid, pidfile, udisk, gst, unlocked, proc,
                   budget>>

\* app->pid = fork(), for the first start and for a reboot; t is the process
\* table at the time of the fork
ForkInto(i, t) ==
    \/ \E p \in Pids :
        /\ t[p].st = "free"
        /\ apid' = [apid EXCEPT ![i] = p]
        /\ proc' = [t EXCEPT ![p] = ForkedChild(i)]
        /\ NoFault
    \/ /\ \/ Fault("fork")
          \/ (\A p \in Pids : t[p].st # "free") /\ NoFault
       /\ apid' = [apid EXCEPT ![i] = ForkErr]
       /\ proc' = t

BooterFork ==
    /\ bpc = "fork"
    /\ idx < NApps
    /\ ForkInto(idx, proc)
    /\ idx' = idx + 1
    /\ UNCHANGED <<bpc, bstatus, bpend, pidfile, udisk, gst, unlocked>>

BooterForked ==
    /\ bpc = "fork"
    /\ idx = NApps
    /\ Goto("loop")
    /\ idx' = 0
    /\ UNCHANGED <<bstatus, bpend, apid, pidfile, udisk, gst, unlocked, proc,
                   budget>>

-----------------------------------------------------------------------------
(***************************************************************************)
(* The booter: supervision loop.                                           *)
(***************************************************************************)

\* the head of the loop: leave on RESTART and EXIT
BooterLoop ==
    /\ bpc = "loop"
    /\ Goto(IF bstatus \in {"RESTART", "EXIT"} THEN "stop"
            ELSE IF Ghost THEN "ghost" ELSE "reboot")
    /\ idx' = 0
    /\ UNCHANGED <<bstatus, bpend, apid, pidfile, udisk, gst, unlocked, proc,
                   budget>>

\* get_ghost_udisk and the check of its config.json, as ghost_errno
GhostErrno ==
    CASE ~gst.has /\ udisk = "absent" -> 1
      [] udisk \in {"absent", "nocfg"} -> 2
      [] udisk = "badcfg" -> 3
      [] OTHER -> 0

\* The ghost u-disk check and the STOP or CONT it sends to the applications,
\* once per change.
BooterGhost ==
    /\ bpc = "ghost"
    /\ Goto("reboot")
    /\ LET has == GhostErrno \notin {1, 2} IN
       \/ /\ GhostErrno > 0 /\ ~gst.stopSent
          /\ proc' = SignalledAll("STOP")
          /\ gst' = [has |-> has, stopSent |-> TRUE, contSent |-> FALSE]
          /\ UNCHANGED unlocked
       \/ /\ GhostErrno = 0 /\ ~gst.contSent
          /\ proc' = SignalledAll("CONT")
          /\ gst' = [has |-> has, stopSent |-> FALSE, contSent |-> TRUE]
          /\ unlocked' = TRUE
       \/ /\ IF GhostErrno > 0 THEN gst.stopSent ELSE gst.contSent
          /\ gst' = [gst EXCEPT !.has = has]
          /\ UNCHANGED <<proc, unlocked>>
    /\ UNCHANGED <<bstatus, bpend, idx, apid, pidfile, udisk, budget>>

\* (mutant) waitpid(...) >= 0: a child that is still running counts as down
BooterReboot_StillRunning ==
    /\ bpc = "reboot"
    /\ bstatus = "RUNNING" \/ idx > 0
    /\ idx < NApps
    /\ ForkInto(idx, [p \in Pids |->
                         IF p \in Dead(apid[idx]) THEN FreeProcess ELSE proc[p]])
    /\ idx' = idx + 2
    /\ UNCHANGED <<bpc, bstatus, bpend, pidfile, udisk, gst, unlocked>>

\* (mutant) a dead application is reaped and not forked again
BooterReboot_ReapOnly ==
    /\ bpc = "reboot"
    /\ bstatus = "RUNNING" \/ idx > 0
    /\ idx < NApps
    /\ proc' = [p \in Pids |->
                  IF p \in Dead(apid[idx]) THEN FreeProcess ELSE proc[p]]
    /\ idx' = idx + 2
    /\ UNCHANGED <<bpc, bstatus, bpend, apid, pidfile, udisk, gst, unlocked, budget>>

\* One round of the reboot loop, entered only with status RUNNING.  The loop
\* advances _app_idx twice a round.
BooterReboot ==
    /\ bpc = "reboot"
    /\ bstatus = "RUNNING" \/ idx > 0
    /\ idx < NApps
    /\ \/ \E p \in Dead(apid[idx]) :
            ForkInto(idx, [proc EXCEPT ![p] = FreeProcess])
       \/ Dead(apid[idx]) = {} /\ UNCHANGED <<apid, proc, budget>>
    /\ idx' = idx + 2
    /\ UNCHANGED <<bpc, bstatus, bpend, pidfile, udisk, gst, unlocked>>

BooterRebooted ==
    /\ bpc = "reboot"
    /\ idx >= NApps \/ (idx = 0 /\ bstatus # "RUNNING")
    /\ Goto("sleep")
    /\ idx' = 0
    /\ UNCHANGED <<bstatus, bpend, apid, pidfile, udisk, gst, unlocked,
                   proc, budget>>

BooterSleep ==
    /\ bpc = "sleep"
    /\ Goto("loop")
    /\ UNCHANGED <<bstatus, bpend, idx, apid, pidfile, udisk, gst, unlocked,
                   proc, budget>>

-----------------------------------------------------------------------------
(***************************************************************************)
(* The booter: shutdown and restart.                                       *)
(***************************************************************************)

\* (mutant) the kill loop advances _app_idx twice a round, as the reboot loop
BooterStop_EveryOther ==
    /\ bpc = "stop"
    /\ IF idx < NApps
       THEN /\ proc' = Signalled(apid[idx], "EXIT")
            /\ idx' = idx + 2
            /\ UNCHANGED bpc
       ELSE Goto("wait") /\ idx' = 0 /\ UNCHANGED proc
    /\ UNCHANGED <<bstatus, bpend, apid, pidfile, udisk, gst, unlocked, budget>>

\* SIGTERM to every application
BooterStop ==
    /\ bpc = "stop"
    /\ \/ /\ idx < NApps
          /\ proc' = Signalled(apid[idx], "EXIT")
          /\ idx' = idx + 1
          /\ UNCHANGED bpc
       \/ /\ idx = NApps
          /\ Goto("wait")
          /\ idx' = 0
          /\ UNCHANGED proc
    /\ UNCHANGED <<bstatus, bpend, apid, pidfile, udisk, gst, unlocked, budget>>

\* (mutant) waitpid with WNOHANG: the loop does not block
BooterWait_NoHang ==
    /\ bpc = "wait"
    /\ IF idx < NApps
       THEN /\ proc' = [p \in Pids |-> IF p \in Dead(apid[idx])
                                       THEN FreeProcess ELSE proc[p]]
            /\ idx' = idx + 1
            /\ UNCHANGED bpc
       ELSE Goto("cleanup") /\ idx' = 0 /\ UNCHANGED proc
    /\ UNCHANGED <<bstatus, bpend, apid, pidfile, udisk, gst, unlocked, budget>>

\* the blocking waitpid() on every application: it returns when it has reaped
\* a process or when there is none to wait for
BooterWait ==
    /\ bpc = "wait"
    /\ \/ /\ idx < NApps
          /\ \/ \E p \in Dead(apid[idx]) :
                  proc' = [proc EXCEPT ![p] = FreeProcess]
             \/ Waitable(apid[idx]) = {} /\ UNCHANGED proc
          /\ idx' = idx + 1
          /\ UNCHANGED bpc
       \/ /\ idx = NApps
          /\ Goto("cleanup")
          /\ idx' = 0
          /\ UNCHANGED proc
    /\ UNCHANGED <<bstatus, bpend, apid, pidfile, udisk, gst, unlocked, budget>>

\* (mutant) the pid file is not reset before execve
BooterCleanup_KeepsPid ==
    /\ bpc = "cleanup"
    /\ NoFault
    /\ IF bstatus = "RESTART"
       THEN /\ Goto("exec")
            /\ UNCHANGED <<bstatus, bpend, idx, apid, pidfile, gst, unlocked,
                           udisk, proc>>
       ELSE BooterGone(PidLeft)

\* sarah_booter_setpid(0), whose result is ignored; the status word decides
\* here, not at the head of the loop, whether the booter starts again
BooterCleanup ==
    /\ bpc = "cleanup"
    /\ \E ok \in BOOLEAN :
        /\ IF ok THEN NoFault ELSE Fault("io")
        /\ IF bstatus = "RESTART"
           THEN /\ Goto("exec")
                /\ pidfile' = IF ok THEN "none" ELSE pidfile
                /\ UNCHANGED <<bstatus, bpend, idx, apid, gst, unlocked, udisk,
                               proc>>
           ELSE BooterGone(IF ok THEN "none" ELSE PidLeft)

\* execve(argv[0]): a fresh image in the same process; pending signals survive
BooterExec ==
    /\ bpc = "exec"
    /\ \/ /\ Goto("init")
          /\ bstatus' = "READY"
          /\ apid' = [i \in Idx |-> NoPid]
          /\ gst' = GhostInit
          /\ NoFault
          /\ UNCHANGED <<bpend, idx, pidfile, udisk, unlocked, proc>>
       \/ Fault("exec") /\ BooterGone(PidLeft)

BooterStep ==
    \/ BooterInit \/ BooterSetpid \/ BooterNode \/ BooterArm
    \/ BooterFork \/ BooterForked
    \/ BooterLoop \/ BooterGhost \/ BooterReboot \/ BooterRebooted \/ BooterSleep
    \/ BooterStop \/ BooterWait \/ BooterCleanup \/ BooterExec

\* A signal reaches the booter; without a handler its default action is to
\* terminate the process.
BooterSignal ==
    \E s \in bpend :
        \/ /\ Armed
           /\ bstatus' = Handled(s, bstatus)
           /\ bpend' = bpend \ {s}
           /\ UNCHANGED <<bpc, idx, apid, pidfile, udisk, gst, unlocked, proc,
                          budget>>
        \/ ~Armed /\ NoFault /\ BooterGone(PidLeft)

BooterKilled ==
    /\ bpc # "dead"
    /\ Fault("kill")
    /\ BooterGone(PidLeft)

-----------------------------------------------------------------------------
(***************************************************************************)
(* The applications.                                                       *)
(***************************************************************************)

AppAt(p, pc) == proc[p].st = "alive" /\ proc[p].pc = pc
AppGoto(p, pc) == proc' = [proc EXCEPT ![p].pc = pc]
AppEnds(p) == proc' = [proc EXCEPT ![p] = Ended(@)]
HonoursStop(i) == i # SmartdiskIdx

\* (mutant) the ghost build does not start its applications as stopped
AppBoot_NotStopped(p) ==
    /\ AppAt(p, "boot")
    /\ proc' = [proc EXCEPT ![p].pc = "top", ![p].bootOrphan = proc[p].orphan]
    /\ UNCHANGED <<bvars, udisk, budget>>

\* sarah_*_application up to its loop: save boot_ppid and, in the ghost
\* build, start as stopped
AppBoot(p) ==
    /\ AppAt(p, "boot")
    /\ proc' = [proc EXCEPT ![p].pc = "top",
                            ![p].bootOrphan = proc[p].orphan,
                            ![p].status = IF Ghost THEN "STOP" ELSE @]
    /\ UNCHANGED <<bvars, udisk, budget>>

\* the head of the application loop; a stopped application just keeps polling
AppTop(p) ==
    /\ AppAt(p, "top")
    /\ \/ /\ proc[p].status = "EXIT"
          /\ AppEnds(p)
       \/ /\ proc[p].status # "EXIT"
          /\ proc[p].status = "STOP" => ~HonoursStop(proc[p].app)
          /\ IF Ghost /\ proc[p].orphan # proc[p].bootOrphan
             THEN AppEnds(p)
             ELSE AppGoto(p, "work")
    /\ UNCHANGED <<bvars, udisk, budget>>

AppWork(p) ==
    /\ AppAt(p, "work")
    /\ AppGoto(p, "tail")
    /\ UNCHANGED <<bvars, udisk, budget>>

\* the updater has installed a package: kill(booter->pid, SIGUSR1), which
\* finds nobody once the booter it was forked by is gone
UpdaterRestarts(p) ==
    /\ AppAt(p, "work")
    /\ proc[p].app = UpdaterIdx
    /\ budget.updates > 0
    /\ budget' = [budget EXCEPT !.updates = @ - 1]
    /\ bpend' = IF proc[p].orphan THEN bpend ELSE bpend \cup {"RESTART"}
    /\ AppGoto(p, "tail")
    /\ UNCHANGED <<bpc, bstatus, idx, apid, pidfile, udisk, gst, unlocked>>

\* the EXIT check before the sleep, which sarah-smartdisk does not have
AppTail(p) ==
    /\ AppAt(p, "tail")
    /\ IF proc[p].status = "EXIT" /\ proc[p].app # SmartdiskIdx
       THEN AppEnds(p)
       ELSE AppGoto(p, "top")
    /\ UNCHANGED <<bvars, udisk, budget>>

AppStep(p) ==
    AppBoot(p) \/ AppTop(p) \/ AppWork(p) \/ UpdaterRestarts(p) \/ AppTail(p)

AppSignal(p) ==
    /\ proc[p].st = "alive"
    /\ \E s \in proc[p].pend :
        proc' = [proc EXCEPT ![p].status = Handled(s, @), ![p].pend = @ \ {s}]
    /\ UNCHANGED <<bvars, udisk, budget>>

AppDies(p) ==
    /\ proc[p].st = "alive"
    /\ Fault("death")
    /\ AppEnds(p)
    /\ UNCHANGED <<bvars, udisk>>

-----------------------------------------------------------------------------
(***************************************************************************)
(* The operator and the host.                                              *)
(***************************************************************************)

OpAction ==
    /\ budget.ops > 0
    /\ budget' = [budget EXCEPT !.ops = @ - 1]

\* config/sarah stop and restart, kill(1), a second sarah-booter (CHECK)
OpSignal(s) ==
    /\ bpc # "dead"
    /\ OpAction
    /\ bpend' = bpend \cup {s}
    /\ UNCHANGED <<bpc, bstatus, idx, apid, pidfile, udisk, gst, unlocked, proc>>

\* The terminal signals the whole process group: Ctrl+C, Ctrl+\ and a hangup.
GroupSignal(s) ==
    /\ bpc # "dead"
    /\ s \in {"EXIT", "STOP", "CONT"}
    /\ OpAction
    /\ bpend' = bpend \cup {s}
    /\ proc' = [p \in Pids |->
                   IF p \in Children /\ proc[p].st = "alive"
                   THEN [proc[p] EXCEPT !.pend = @ \cup {s}]
                   ELSE proc[p]]
    /\ unlocked' = (unlocked \/ s = "CONT")
    /\ UNCHANGED <<bpc, bstatus, idx, apid, pidfile, udisk, gst>>

UdiskChange ==
    /\ Ghost
    /\ OpAction
    /\ udisk' \in Udisks \ {udisk}
    /\ UNCHANGED <<bvars, proc>>

-----------------------------------------------------------------------------
Init ==
    /\ bpc = "dead" /\ bstatus = "READY" /\ bpend = {} /\ idx = 0
    /\ apid = [i \in Idx |-> NoPid]
    /\ pidfile = "none"
    /\ udisk \in IF Ghost THEN {"absent", "valid"} ELSE {"absent"}
    /\ gst = GhostInit
    /\ unlocked = FALSE
    /\ proc = [p \in Pids |-> FreeProcess]
    /\ budget = [ops |-> MaxOps, faults |-> MaxFaults, updates |-> MaxUpdates]

Next ==
    \/ StartBooter
    \/ BooterStep
    \/ BooterSignal
    \/ BooterKilled
    \/ \E p \in Pids : AppStep(p) \/ AppSignal(p) \/ AppDies(p)
    \/ \E s \in OpSignals : OpSignal(s) \/ GroupSignal(s)
    \/ UdiskChange

\* Every process is scheduled and every pending signal reaches a live process.
\* Nothing is assumed of operators, of faults or of the updater.
Fairness ==
    /\ WF_vars(BooterStep)
    /\ WF_vars(BooterSignal)
    /\ \A p \in Pids : /\ WF_vars(AppStep(p))
                       /\ WF_vars(AppSignal(p))

Spec     == Init /\ [][Next]_vars
FairSpec == Spec /\ Fairness
-----------------------------------------------------------------------------
(***************************************************************************)
(* Properties.                                                             *)
(***************************************************************************)

Up(i) == \E p \in Children : proc[p].st = "alive" /\ proc[p].app = i
Supervising == bpc \in {"loop", "ghost", "reboot", "sleep"}

\* Every child of the booter is the one its application's slot of
\* _internal_apps[] names.  So an application never runs twice under one
\* booter and no child escapes the shutdown, in spite of failed forks (pid -1
\* makes waitpid reap another application's child) and of reused pids.
SlotsTrackChildren == \A p \in Children : apid[proc[p].app] = p

\* Once the waitpid loop of the shutdown is over the booter has no child left:
\* neither a terminated booter nor the image that execve starts shares the
\* host with applications of the former one.
NoChildLeftBehind ==
    bpc \in {"dead", "init", "setpid", "node", "arm", "cleanup", "exec"} =>
        Children = {}

\* Ghost build: no application that honours STOP does any work before the
\* booter has seen a valid u-disk and broadcast CONT, or a hangup of the terminal
\* has, which is the same signal.
GhostGate ==
    Ghost => \A p \in Pids :
        AppAt(p, "work") /\ HonoursStop(proc[p].app) => unlocked

\* The booter as Supervisor sees it: its phase, and the applications of its
\* children.
Phase ==
    CASE bpc = "dead"                                         -> "dead"
      [] bpc \in {"init", "setpid", "node", "arm"}            -> "starting"
      [] bpc \in {"fork", "loop", "ghost", "reboot", "sleep"} -> "up"
      [] bpc \in {"stop", "wait"}                             -> "leaving"
      [] bpc \in {"cleanup", "exec"}                          -> "out"
Kids == {proc[p].app : p \in Children}

Sup == INSTANCE Supervisor WITH Apps <- Idx, phase <- Phase, kids <- Kids

\* What the booter promises of its applications, whatever fails and whatever
\* signals come: none is forked that it still has, none while it shuts down,
\* and it is out or starts again only after the last was reaped.
Supervises == Sup!Spec

\* An application has got, beside EXIT, a signal whose handler overwrites it.
ExitOverwritten ==
    \E p \in Children :
        /\ proc[p].pend \cap {"STOP", "CONT"} # {}
        /\ "EXIT" \in proc[p].pend \/ proc[p].status = "EXIT"

\* Once the booter has handled EXIT or RESTART or has begun to leave, it gets rid
\* of every child and terminates or re-executes itself: the blocking waitpid loop
\* ends.  Only a signal that overwrites a status word keeps it going: the
\* booter's, before the loop has seen it, or that of an application, for which
\* the booter then waits.
ShutdownCompletes ==
    (\/ bstatus \in {"EXIT", "RESTART"} /\ (Supervising \/ bpc = "fork")
     \/ bpc = "stop" /\ idx = 0) ~>
        \/ bpc \in {"dead", "exec"}
        \/ bstatus \notin {"EXIT", "RESTART"} /\ (Supervising \/ bpc = "fork")
        \/ ExitOverwritten

\* A booter that is about to reset its pid file and to re-execute itself is
\* supervising again later, whatever failed before, unless it is disturbed by a
\* signal or by a fault from there on.
RestartComesBack ==
    (/\ bpc = "cleanup" /\ bstatus = "RESTART" /\ bpend = {}
     /\ budget.ops = 0 /\ budget.faults = 0) ~> bpc = "loop"

\* the slots that the reboot loop visits, and a failed fork into one of them
Scanned    == {i \in Idx : i % 2 = 0}
ForkFailed == \E i \in Scanned : apid[i] = ForkErr

\* Application i is down and waits to be reaped, by its own slot only: no other
\* slot that is visited holds its pid, as after the pid was used again, or -1.
Fallen(i) ==
    \E p \in Children :
        /\ proc[p].st = "zombie" /\ proc[p].app = i
        /\ \A j \in Scanned \ {i} : apid[j] \notin {p, ForkErr}

RestartOf(i) ==
    (Supervising /\ bstatus = "RUNNING" /\ Fallen(i)) ~>
        (Up(i) \/ ~Supervising \/ bstatus # "RUNNING" \/ ForkFailed)

\* With status RUNNING, an application whose index the reboot scan visits is
\* started again when it goes down, unless fork() fails, for it or for another
\* that is visited: waitpid(-1) of a slot that holds -1 reaps anybody, and what
\* it reaps is not missed by its own slot.
ScannedAppsRestart == \A i \in Scanned : RestartOf(i)

\* What the comment above the supervision loop says: make sure they are
\* running or start it up if any one of them is down.
DeadAppsRestart ==
    \A i \in Idx : (Supervising /\ ~Up(i)) ~> (Up(i) \/ ~Supervising)

\* Ghost build, "Please insert the Ghost u-disk to continue": with a valid
\* u-disk in place a stopped application is continued.
UdiskContinues ==
    \A p \in Pids :
        (/\ udisk = "valid" /\ Supervising
         /\ AppAt(p, "top") /\ proc[p].status = "STOP" /\ ~proc[p].orphan) ~>
        (udisk # "valid" \/ ~Supervising \/ proc[p].status # "STOP")
=============================================================================
