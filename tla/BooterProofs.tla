---------------------------- MODULE BooterProofs ----------------------------
(***************************************************************************)
(* Proofs about Booter, for any number of applications and any set of      *)
(* pids: type correctness, SlotsTrackChildren, NoChildLeftBehind,          *)
(* GhostGate, and that Booter implements Supervisor.                       *)
(*                                                                         *)
(* SlotsTrackChildren is inductive only together with what the two loops   *)
(* over _internal_apps[] have done so far: while forking, no child belongs *)
(* to a slot not yet forked (or the fork would overwrite its pid); while   *)
(* waiting, no child belongs to a slot already waited for.                 *)
(***************************************************************************)
EXTENDS Booter, TLAPS

ForkPrefix == bpc = "fork" => \A p \in Children : proc[p].app < idx
WaitSuffix == bpc = "wait" => \A p \in Children : proc[p].app >= idx

ChildInv ==
    /\ SlotsTrackChildren
    /\ NoChildLeftBehind
    /\ ForkPrefix
    /\ WaitSuffix

-----------------------------------------------------------------------------
\* A free entry, a forked child and an ended process are process records.
LEMMA ProcessRecords ==
    ASSUME TypeOK
    PROVE  /\ FreeProcess \in Process
           /\ \A i \in Idx : ForkedChild(i) \in Process
           /\ \A r \in Process : Ended(r) \in Process
<1>1. FreeProcess \in Process
    BY ConstantsAssumption DEF FreeProcess, Process, Idx, AppPcs, Statuses
<1>2. \A i \in Idx : ForkedChild(i) \in Process
    BY <1>1 DEF TypeOK, ForkedChild, FreeProcess, Process, AppPcs
<1>3. \A r \in Process : Ended(r) \in Process
    BY <1>1 DEF Ended, FreeProcess, Process
<1> QED BY <1>1, <1>2, <1>3

GhostState == [has : BOOLEAN, stopSent : BOOLEAN, contSent : BOOLEAN]

\* The u-disk bookkeeping starts well typed.
LEMMA GhostInitType == GhostInit \in GhostState
<1>1. FALSE \in BOOLEAN
    BY Zenon
<1> QED BY <1>1, Zenon DEF GhostInit, GhostState

\* The process table stays well typed when signals are sent.
LEMMA SignalsType ==
    ASSUME TypeOK, NEW sig \in Signals
    PROVE  /\ \A target : Signalled(target, sig) \in [Pids -> Process]
           /\ SignalledAll(sig) \in [Pids -> Process]
<1>1. \A p \in Pids : [proc[p] EXCEPT !.pend = @ \cup {sig}] \in Process
    BY DEF TypeOK, Process
<1> QED BY <1>1 DEF Signalled, SignalledAll, TypeOK

\* A handled signal leaves a status.
LEMMA HandledType ==
    ASSUME NEW s \in Signals, NEW st \in Statuses
    PROVE  Handled(s, st) \in Statuses
BY DEF Handled, Statuses, Signals

\* The death of the booter preserves the types.
LEMMA GoneType ==
    ASSUME TypeOK, NEW pf \in {"none", "live", "stale"}, BooterGone(pf),
           budget' \in [ops : 0 .. MaxOps, faults : 0 .. MaxFaults,
                        updates : 0 .. MaxUpdates]
    PROVE  TypeOK'
<1>1. \A p \in Pids : [proc[p] EXCEPT !.orphan = TRUE] \in Process
    BY DEF TypeOK, Process
<1>2. proc' \in [Pids -> Process]
    BY <1>1, ProcessRecords DEF BooterGone
<1> QED BY <1>2, GhostInitType
        DEF BooterGone, TypeOK, BooterPcs, Statuses, GhostState

\* Faults and fault-free steps keep the budget well typed.
LEMMA BudgetType ==
    ASSUME TypeOK, (\E k : Fault(k)) \/ NoFault \/ OpAction
    PROVE  budget' \in [ops : 0 .. MaxOps, faults : 0 .. MaxFaults,
                        updates : 0 .. MaxUpdates]
BY ConstantsAssumption DEF TypeOK, Fault, NoFault, OpAction

\* What a fork stores is well typed.
LEMMA ForkType ==
    ASSUME TypeOK, NEW i \in Idx, NEW t \in [Pids -> Process], ForkInto(i, t)
    PROVE  /\ apid' \in [Idx -> Pids \cup {NoPid, ForkErr}]
           /\ proc' \in [Pids -> Process]
           /\ budget' \in [ops : 0 .. MaxOps, faults : 0 .. MaxFaults,
                           updates : 0 .. MaxUpdates]
<1>1. budget' \in [ops : 0 .. MaxOps, faults : 0 .. MaxFaults,
                   updates : 0 .. MaxUpdates]
    BY BudgetType DEF ForkInto
<1>2. ForkedChild(i) \in Process
    BY ProcessRecords
<1> QED BY <1>1, <1>2 DEF ForkInto, TypeOK

\* A step of the booter preserves the types.
LEMMA BooterStepType ==
    ASSUME TypeOK, BooterStep
    PROVE  TypeOK'
<1> USE ConstantsAssumption
<1> DEFINE B == [ops : 0 .. MaxOps, faults : 0 .. MaxFaults,
                 updates : 0 .. MaxUpdates]
<1>pf. PidLeft \in {"none", "live", "stale"} /\ pidfile \in {"none", "live", "stale"}
    BY DEF PidLeft, TypeOK
<1>1. CASE BooterInit
    <2>1. budget' \in B
        BY <1>1, BudgetType DEF BooterInit
    <2>2. CASE BooterGone(PidLeft)
        BY <2>1, <2>2, <1>pf, GoneType
    <2>3. CASE ~BooterGone(PidLeft)
        BY <1>1, <2>1, <2>3 DEF BooterInit, Goto, TypeOK, BooterPcs, Statuses
    <2> QED BY <2>2, <2>3
<1>2. CASE BooterSetpid
    <2>1. budget' \in B
        BY <1>2, BudgetType DEF BooterSetpid
    <2>2. CASE \E pf \in {pidfile, "none"} : BooterGone(pf)
        BY <2>1, <2>2, <1>pf, GoneType
    <2>3. CASE ~ \E pf \in {pidfile, "none"} : BooterGone(pf)
        BY <1>2, <2>1, <2>3 DEF BooterSetpid, Goto, TypeOK, BooterPcs
    <2> QED BY <2>2, <2>3
<1>3. CASE BooterNode
    <2>1. budget' \in B
        BY <1>3, BudgetType DEF BooterNode
    <2>2. CASE BooterGone(PidLeft)
        BY <2>1, <2>2, <1>pf, GoneType
    <2>3. CASE ~BooterGone(PidLeft)
        BY <1>3, <2>1, <2>3 DEF BooterNode, Goto, TypeOK, BooterPcs
    <2> QED BY <2>2, <2>3
<1>4. CASE BooterArm
    BY <1>4 DEF BooterArm, Goto, TypeOK, BooterPcs
<1>5. CASE BooterFork
    <2>1. idx \in Idx /\ ForkInto(idx, proc) /\ proc \in [Pids -> Process]
        BY <1>5 DEF BooterFork, TypeOK, Idx
    <2> QED BY <1>5, <2>1, ForkType DEF BooterFork, TypeOK
<1>6. CASE BooterForked
    BY <1>6 DEF BooterForked, Goto, TypeOK, BooterPcs
<1>7. CASE BooterLoop
    BY <1>7 DEF BooterLoop, Goto, TypeOK, BooterPcs
<1>8. CASE BooterGhost
    <2>1. proc' \in [Pids -> Process]
        <3>1. "STOP" \in Signals /\ "CONT" \in Signals
            BY DEF Signals
        <3> QED BY <1>8, <3>1, SignalsType DEF BooterGhost, TypeOK
    <2>2. gst' \in GhostState
        <3> DEFINE has == GhostErrno \notin {1, 2}
        <3>1. has \in BOOLEAN /\ TRUE \in BOOLEAN /\ FALSE \in BOOLEAN
            BY Zenon
        <3>2. gst \in GhostState
            BY DEF TypeOK, GhostState
        <3>3. /\ [has |-> has, stopSent |-> TRUE, contSent |-> FALSE] \in GhostState
              /\ [has |-> has, stopSent |-> FALSE, contSent |-> TRUE] \in GhostState
            BY <3>1, Zenon DEF GhostState
        <3>4. [gst EXCEPT !.has = has] \in GhostState
            <4> HIDE DEF has
            <4> QED BY <3>1, <3>2 DEF GhostState
        <3>5. \/ gst' = [has |-> has, stopSent |-> TRUE, contSent |-> FALSE]
              \/ gst' = [has |-> has, stopSent |-> FALSE, contSent |-> TRUE]
              \/ gst' = [gst EXCEPT !.has = has]
            BY <1>8, Zenon DEF BooterGhost
        <3> HIDE DEF has
        <3> QED BY <3>3, <3>4, <3>5, Zenon
    <2>3. unlocked' \in BOOLEAN
        BY <1>8, Zenon DEF BooterGhost, TypeOK
    <2> QED BY <1>8, <2>1, <2>2, <2>3 DEF BooterGhost, Goto, TypeOK, BooterPcs,
                                          GhostState
<1>9. CASE BooterReboot
    <2>1. idx \in Idx
        BY <1>9 DEF BooterReboot, TypeOK, Idx
    <2>2. CASE \E p \in Dead(apid[idx]) :
                 ForkInto(idx, [proc EXCEPT ![p] = FreeProcess])
        <3>1. PICK p \in Dead(apid[idx]) :
                ForkInto(idx, [proc EXCEPT ![p] = FreeProcess])
            BY <2>2
        <3>2. [proc EXCEPT ![p] = FreeProcess] \in [Pids -> Process]
            BY ProcessRecords DEF TypeOK
        <3>3. /\ apid' \in [Idx -> Pids \cup {NoPid, ForkErr}]
              /\ proc' \in [Pids -> Process]
              /\ budget' \in B
            BY <2>1, <3>1, <3>2, ForkType
        <3> QED BY <1>9, <3>3 DEF BooterReboot, TypeOK
    <2>3. CASE UNCHANGED <<apid, proc, budget>>
        BY <1>9, <2>3 DEF BooterReboot, TypeOK
    <2> QED BY <1>9, <2>2, <2>3 DEF BooterReboot
<1>10. CASE BooterRebooted
    BY <1>10 DEF BooterRebooted, Goto, TypeOK, BooterPcs
<1>11. CASE BooterSleep
    BY <1>11 DEF BooterSleep, Goto, TypeOK, BooterPcs
<1>12. CASE BooterStop
    <2>1. "EXIT" \in Signals
        BY DEF Signals
    <2> QED BY <1>12, <2>1, SignalsType DEF BooterStop, Goto, TypeOK, BooterPcs
<1>13. CASE BooterWait
    <2>1. \A p : [proc EXCEPT ![p] = FreeProcess] \in [Pids -> Process]
        BY ProcessRecords DEF TypeOK
    <2> QED BY <1>13, <2>1 DEF BooterWait, Goto, TypeOK, BooterPcs
<1>14. CASE BooterCleanup
    <2>1. budget' \in B
        BY <1>14, BudgetType DEF BooterCleanup
    <2>2. CASE bstatus = "RESTART"
        BY <1>14, <2>1, <2>2 DEF BooterCleanup, Goto, TypeOK, BooterPcs
    <2>3. CASE bstatus # "RESTART"
        <3>1. BooterGone("none") \/ BooterGone(PidLeft)
            BY <1>14, <2>3 DEF BooterCleanup
        <3> QED BY <2>1, <3>1, <1>pf, GoneType
    <2> QED BY <2>2, <2>3
<1>15. CASE BooterExec
    <2>1. budget' \in B
        BY <1>15, BudgetType DEF BooterExec
    <2>2. CASE BooterGone(PidLeft)
        BY <2>1, <2>2, <1>pf, GoneType
    <2>3. CASE ~BooterGone(PidLeft)
        BY <1>15, <2>1, <2>3, GhostInitType
           DEF BooterExec, Goto, TypeOK, BooterPcs, Statuses, GhostState
    <2> QED BY <2>2, <2>3
<1> QED
    BY <1>1, <1>2, <1>3, <1>4, <1>5, <1>6, <1>7, <1>8, <1>9, <1>10, <1>11,
       <1>12, <1>13, <1>14, <1>15 DEF BooterStep

\* A step of an application preserves the types.
LEMMA AppType ==
    ASSUME TypeOK, NEW p \in Pids, AppStep(p) \/ AppSignal(p) \/ AppDies(p)
    PROVE  TypeOK'
<1> USE ConstantsAssumption
<1>p. proc[p] \in Process /\ Ended(proc[p]) \in Process
    BY ProcessRecords DEF TypeOK
<1>e. AppEnds(p) => proc' \in [Pids -> Process]
    BY <1>p DEF AppEnds, TypeOK
<1>g. \A pc \in AppPcs : AppGoto(p, pc) => proc' \in [Pids -> Process]
    BY <1>p DEF AppGoto, TypeOK, Process
<1>pc. "top" \in AppPcs /\ "work" \in AppPcs /\ "tail" \in AppPcs
    BY DEF AppPcs
<1>1. CASE AppBoot(p)
    <2>1. proc' \in [Pids -> Process]
        BY <1>1, <1>p, <1>pc DEF AppBoot, TypeOK, Process, Statuses
    <2> QED BY <1>1, <2>1 DEF AppBoot, TypeOK, bvars
<1>2. CASE AppTop(p)
    <2>1. proc' \in [Pids -> Process]
        BY <1>2, <1>e, <1>g, <1>pc DEF AppTop
    <2> QED BY <1>2, <2>1 DEF AppTop, TypeOK, bvars
<1>3. CASE AppWork(p)
    <2>1. proc' \in [Pids -> Process]
        BY <1>3, <1>g, <1>pc DEF AppWork
    <2> QED BY <1>3, <2>1 DEF AppWork, TypeOK, bvars
<1>4. CASE UpdaterRestarts(p)
    <2>1. proc' \in [Pids -> Process]
        BY <1>4, <1>g, <1>pc DEF UpdaterRestarts
    <2>2. budget' \in [ops : 0 .. MaxOps, faults : 0 .. MaxFaults,
                       updates : 0 .. MaxUpdates]
        BY <1>4 DEF UpdaterRestarts, TypeOK
    <2>3. bpend' \in SUBSET Signals
        BY <1>4 DEF UpdaterRestarts, TypeOK, Signals
    <2> QED BY <1>4, <2>1, <2>2, <2>3 DEF UpdaterRestarts, TypeOK
<1>5. CASE AppTail(p)
    <2>1. proc' \in [Pids -> Process]
        BY <1>5, <1>e, <1>g, <1>pc DEF AppTail
    <2> QED BY <1>5, <2>1 DEF AppTail, TypeOK, bvars
<1>6. CASE AppSignal(p)
    <2>1. PICK s \in proc[p].pend :
            proc' = [proc EXCEPT ![p].status = Handled(s, @), ![p].pend = @ \ {s}]
        BY <1>6 DEF AppSignal
    <2>2. Handled(s, proc[p].status) \in Statuses
        BY <1>p, HandledType DEF Process
    <2>3. proc' \in [Pids -> Process]
        BY <1>p, <2>1, <2>2 DEF TypeOK, Process
    <2> QED BY <1>6, <2>3 DEF AppSignal, TypeOK, bvars
<1>7. CASE AppDies(p)
    BY <1>7, <1>e, BudgetType DEF AppDies, TypeOK, bvars
<1> QED BY <1>1, <1>2, <1>3, <1>4, <1>5, <1>6, <1>7 DEF AppStep

\* Every reachable state of the booter and its applications is well typed.
THEOREM TypeCorrect == Spec => []TypeOK
<1> USE ConstantsAssumption
<1>1. Init => TypeOK
    <2> SUFFICES ASSUME Init PROVE TypeOK
        OBVIOUS
    <2>1. FreeProcess \in Process
        BY DEF FreeProcess, Process, Idx, AppPcs, Statuses
    <2>2. unlocked \in BOOLEAN
        BY Zenon DEF Init
    <2> QED BY <2>1, <2>2, GhostInitType
            DEF Init, TypeOK, BooterPcs, Statuses, Udisks, GhostState
<1>2. TypeOK /\ [Next]_vars => TypeOK'
    <2> SUFFICES ASSUME TypeOK, [Next]_vars PROVE TypeOK'
        OBVIOUS
    <2>pf. PidLeft \in {"none", "live", "stale"}
        BY DEF PidLeft, TypeOK
    <2>1. CASE StartBooter
        BY <2>1 DEF StartBooter, Goto, TypeOK, BooterPcs
    <2>2. CASE BooterStep
        BY <2>2, BooterStepType
    <2>3. CASE BooterSignal
        <3>1. PICK s \in bpend :
                \/ /\ bstatus' = Handled(s, bstatus)
                   /\ bpend' = bpend \ {s}
                   /\ UNCHANGED <<bpc, idx, apid, pidfile, udisk, gst, unlocked,
                                  proc, budget>>
                \/ NoFault /\ BooterGone(PidLeft)
            BY <2>3 DEF BooterSignal
        <3>2. Handled(s, bstatus) \in Statuses
            BY HandledType DEF TypeOK
        <3>3. CASE BooterGone(PidLeft) /\ NoFault
            BY <3>3, <2>pf, GoneType, BudgetType
        <3> QED BY <3>1, <3>2, <3>3 DEF TypeOK
    <2>4. CASE BooterKilled
        BY <2>4, <2>pf, GoneType, BudgetType DEF BooterKilled
    <2>5. ASSUME NEW p \in Pids, AppStep(p) \/ AppSignal(p) \/ AppDies(p)
          PROVE  TypeOK'
        BY <2>5, AppType
    <2>6. ASSUME NEW s \in OpSignals, OpSignal(s)
          PROVE  TypeOK'
        BY <2>6, BudgetType DEF OpSignal, TypeOK
    <2>7. ASSUME NEW s \in OpSignals, GroupSignal(s)
          PROVE  TypeOK'
        <3>0. s \in Signals
            OBVIOUS
        <3>1. \A p \in Pids : [proc[p] EXCEPT !.pend = @ \cup {s}] \in Process
            BY <3>0 DEF TypeOK, Process
        <3>2. proc' \in [Pids -> Process]
            BY <2>7, <3>1 DEF GroupSignal, TypeOK
        <3>3. bpend' \in SUBSET Signals
            BY <2>7, <3>0 DEF GroupSignal, TypeOK
        <3>4. unlocked' \in BOOLEAN
            BY <2>7, Zenon DEF GroupSignal
        <3>5. budget' \in [ops : 0 .. MaxOps, faults : 0 .. MaxFaults,
                            updates : 0 .. MaxUpdates]
            BY <2>7, BudgetType DEF GroupSignal
        <3> QED BY <2>7, <3>2, <3>3, <3>4, <3>5 DEF GroupSignal, TypeOK
    <2>8. CASE UdiskChange
        BY <2>8, BudgetType DEF UdiskChange, TypeOK, bvars
    <2>9. CASE UNCHANGED vars
        BY <2>9 DEF vars, TypeOK
    <2> QED
        BY <2>1, <2>2, <2>3, <2>4, <2>5, <2>6, <2>7, <2>8, <2>9 DEF Next
<1> QED BY <1>1, <1>2, PTL DEF Spec

-----------------------------------------------------------------------------
\* A step that makes no process a child of the booter keeps every child in
\* its slot.
LEMMA FewerChildren ==
    ASSUME SlotsTrackChildren, UNCHANGED apid,
           \A p \in Children' : p \in Children /\ proc'[p].app = proc[p].app
    PROVE  SlotsTrackChildren'
BY DEF SlotsTrackChildren

\* Such a step preserves the whole invariant when the booter does not move.
LEMMA BooterStill ==
    ASSUME ChildInv, UNCHANGED <<bpc, idx, apid>>,
           \A p \in Children' : p \in Children /\ proc'[p].app = proc[p].app
    PROVE  ChildInv'
<1>1. SlotsTrackChildren'
    BY FewerChildren DEF ChildInv
<1>2. NoChildLeftBehind'
    BY DEF ChildInv, NoChildLeftBehind
<1>3. ForkPrefix' /\ WaitSuffix'
    BY DEF ChildInv, ForkPrefix, WaitSuffix
<1> QED BY <1>1, <1>2, <1>3 DEF ChildInv

\* A dead booter has no children.
LEMMA GoneChildren ==
    ASSUME TypeOK, NEW pf, BooterGone(pf)
    PROVE  ChildInv'
<1>1. Children' = {}
    BY DEF BooterGone, Children, FreeProcess, TypeOK, Process
<1>2. bpc' = "dead"
    BY DEF BooterGone
<1> QED
    BY <1>1, <1>2 DEF ChildInv, SlotsTrackChildren, NoChildLeftBehind,
                      ForkPrefix, WaitSuffix

\* Signals make nobody a child.
LEMMA SignalsChildren ==
    ASSUME TypeOK,
           \/ \E target, sig : proc' = Signalled(target, sig)
           \/ \E sig : proc' = SignalledAll(sig)
    PROVE  \A p \in Children' : p \in Children /\ proc'[p].app = proc[p].app
BY DEF Signalled, SignalledAll, Children, TypeOK, Process

\* A fork into slot i is harmless when no child belongs to slot i, t being the
\* process table after the wait that preceded it.
LEMMA ForkChildren ==
    ASSUME TypeOK, SlotsTrackChildren,
           NEW i \in Idx, NEW t \in [Pids -> Process],
           \A p \in Pids : t[p] = proc[p] \/ t[p] = FreeProcess,
           \A p \in Children : t[p] = proc[p] => proc[p].app # i,
           ForkInto(i, t)
    PROVE  /\ SlotsTrackChildren'
           /\ \A p \in Children' : \/ proc'[p].app = i
                                   \/ p \in Children /\ proc'[p].app = proc[p].app
<1> USE DEF TypeOK
<1>1. FreeProcess.st = "free" /\ ForkedChild(i).app = i
    BY ProcessRecords DEF FreeProcess, ForkedChild
<1>2. CASE /\ apid' = [apid EXCEPT ![i] = ForkErr]
           /\ proc' = t
    <2>1. \A p \in Children' : /\ p \in Children /\ t[p] = proc[p]
                               /\ proc'[p].app = proc[p].app
                               /\ proc[p].app # i
        BY <1>1, <1>2 DEF Children
    <2>2. \A p \in Children' : proc[p].app \in Idx
        BY <2>1 DEF Children, Process
    <2> QED BY <1>2, <2>1, <2>2 DEF SlotsTrackChildren
<1>3. ASSUME NEW q \in Pids, t[q].st = "free",
             apid' = [apid EXCEPT ![i] = q],
             proc' = [t EXCEPT ![q] = ForkedChild(i)]
      PROVE  /\ SlotsTrackChildren'
             /\ \A p \in Children' : \/ proc'[p].app = i
                                     \/ p \in Children /\ proc'[p].app = proc[p].app
    <2>1. proc'[q].app = i /\ apid'[i] = q
        BY <1>1, <1>3
    <2>2. \A p \in Children' \ {q} : /\ p \in Children /\ t[p] = proc[p]
                                     /\ proc'[p].app = proc[p].app
                                     /\ proc[p].app # i
        BY <1>1, <1>3 DEF Children
    <2>3. \A p \in Children' \ {q} : proc[p].app \in Idx
        BY <2>2 DEF Children, Process
    <2>4. \A p \in Children' \ {q} : apid'[proc'[p].app] = p
        BY <1>3, <2>2, <2>3 DEF SlotsTrackChildren
    <2> QED BY <2>1, <2>2, <2>4 DEF SlotsTrackChildren
<1> QED BY <1>2, <1>3 DEF ForkInto

\* waitpid on slot i leaves no child of slot i behind when it reaps one, and
\* reaps nobody else's in its place.
LEMMA WaitTakesSlot ==
    ASSUME TypeOK, SlotsTrackChildren, NEW i \in Idx,
           NEW p \in Dead(apid[i])
    PROVE  \A q \in Children : q # p => proc[q].app # i
<1> SUFFICES ASSUME NEW q \in Children, q # p, proc[q].app = i
             PROVE  FALSE
    OBVIOUS
<1>1. apid[i] = q
    BY DEF SlotsTrackChildren
<1>2. q \in Pids /\ q # ForkErr
    BY ConstantsAssumption DEF Children
<1> QED BY <1>1, <1>2 DEF Dead, Waitable

\* The booter's own steps preserve the invariant.
LEMMA BooterStepChildren ==
    ASSUME TypeOK, ChildInv, BooterStep
    PROVE  ChildInv'
<1> USE ConstantsAssumption
<1> DEFINE Fewer == \A p \in Children' : p \in Children /\ proc'[p].app = proc[p].app
<1>0. ASSUME UNCHANGED proc PROVE Children' = Children /\ Fewer
    BY <1>0 DEF Children
<1>t. SlotsTrackChildren /\ NoChildLeftBehind /\ ForkPrefix /\ WaitSuffix
    BY DEF ChildInv
\* before the first fork, and after the last wait, there are no children
<1>1. CASE BooterInit \/ BooterSetpid \/ BooterNode \/ BooterExec
    <2>1. CASE \E pf : BooterGone(pf)
        BY <2>1, GoneChildren
    <2>2. CASE ~ \E pf : BooterGone(pf)
        <3>1. /\ UNCHANGED proc
              /\ bpc \in {"init", "setpid", "node", "exec"}
              /\ bpc' \in {"init", "setpid", "node", "arm"}
            BY <1>1, <2>2 DEF BooterInit, BooterSetpid, BooterNode, BooterExec, Goto
        <3>2. Children' = {}
            BY <3>1, <1>0, <1>t DEF NoChildLeftBehind
        <3> QED BY <3>1, <3>2 DEF ChildInv, SlotsTrackChildren,
                                  NoChildLeftBehind, ForkPrefix, WaitSuffix
    <2> QED BY <2>1, <2>2
<1>2. CASE BooterArm
    <2>1. Children' = {}
        BY <1>2, <1>0, <1>t DEF BooterArm, NoChildLeftBehind
    <2> QED BY <2>1 DEF ChildInv, SlotsTrackChildren, NoChildLeftBehind,
                        ForkPrefix, WaitSuffix
<1>3. CASE BooterFork
    <2>1. /\ idx \in Idx /\ bpc = "fork" /\ bpc' = "fork" /\ idx' = idx + 1
          /\ ForkInto(idx, proc)
        BY <1>3 DEF BooterFork, TypeOK, Idx
    <2>2. \A p \in Children : proc[p].app < idx /\ proc[p].app # idx
        BY <2>1, <1>t DEF ForkPrefix, TypeOK, Children, Process, Idx
    <2>3. /\ SlotsTrackChildren'
          /\ \A p \in Children' : \/ proc'[p].app = idx
                                  \/ p \in Children /\ proc'[p].app = proc[p].app
        <3>1. proc \in [Pids -> Process]
            BY DEF TypeOK
        <3> QED BY <2>1, <2>2, <3>1, <1>t, ForkChildren
    <2>4. \A p \in Children : proc[p].app \in Int
        BY DEF TypeOK, Children, Process, Idx
    <2>5. ForkPrefix'
        <3>1. idx \in Int
            BY <2>1 DEF Idx
        <3>2. \A p \in Children' : proc'[p].app < idx + 1
            BY <2>2, <2>3, <2>4, <3>1
        <3> QED BY <2>1, <3>2 DEF ForkPrefix
    <2> QED BY <2>1, <2>3, <2>5 DEF ChildInv, NoChildLeftBehind, WaitSuffix
<1>4. CASE BooterForked \/ BooterLoop \/ BooterRebooted \/ BooterSleep
    <2>1. /\ UNCHANGED <<proc, apid>>
          /\ bpc' \in {"loop", "stop", "ghost", "reboot", "sleep"}
        BY <1>4 DEF BooterForked, BooterLoop, BooterRebooted, BooterSleep, Goto
    <2>2. SlotsTrackChildren'
        BY <2>1, <1>0, <1>t, FewerChildren
    <2> QED BY <2>1, <2>2 DEF ChildInv, NoChildLeftBehind, ForkPrefix, WaitSuffix
<1>5. CASE BooterGhost
    <2>1. Fewer
        BY <1>5, <1>0, SignalsChildren DEF BooterGhost
    <2>2. bpc' = "reboot" /\ UNCHANGED apid
        BY <1>5 DEF BooterGhost, Goto
    <2>3. SlotsTrackChildren'
        BY <2>1, <2>2, <1>t, FewerChildren
    <2> QED BY <2>2, <2>3 DEF ChildInv, NoChildLeftBehind, ForkPrefix, WaitSuffix
<1>6. CASE BooterReboot
    <2>1. bpc' = "reboot" /\ idx \in Idx
        BY <1>6 DEF BooterReboot, TypeOK, Idx
    <2>2. CASE UNCHANGED <<apid, proc, budget>>
        <3>1. SlotsTrackChildren'
            BY <2>2, <1>0, <1>t, FewerChildren
        <3> QED BY <2>1, <3>1 DEF ChildInv, NoChildLeftBehind, ForkPrefix, WaitSuffix
    <2>3. ASSUME NEW p \in Dead(apid[idx]),
                 ForkInto(idx, [proc EXCEPT ![p] = FreeProcess])
          PROVE  ChildInv'
        <3> DEFINE t == [proc EXCEPT ![p] = FreeProcess]
        <3>1. t \in [Pids -> Process] /\ p \in Pids
            BY ProcessRecords DEF TypeOK, Dead, Waitable, Children
        <3>2. \A q \in Pids : t[q] = proc[q] \/ t[q] = FreeProcess
            BY DEF TypeOK
        <3>3. t[p] # proc[p]
            BY <3>1 DEF Dead, FreeProcess, TypeOK
        <3>4. \A q \in Children : t[q] = proc[q] => proc[q].app # idx
            BY <2>1, <3>3, <1>t, WaitTakesSlot
        <3> HIDE DEF t
        <3>5. SlotsTrackChildren'
            BY <2>1, <2>3, <3>1, <3>2, <3>4, <1>t, ForkChildren DEF t
        <3> QED BY <2>1, <3>5 DEF ChildInv, NoChildLeftBehind, ForkPrefix, WaitSuffix
    <2> QED BY <1>6, <2>2, <2>3 DEF BooterReboot
<1>7. CASE BooterStop
    <2>1. Fewer
        BY <1>7, <1>0, SignalsChildren DEF BooterStop
    <2>2. SlotsTrackChildren'
        BY <1>7, <2>1, <1>t, FewerChildren DEF BooterStop
    <2>3. \/ bpc' = "stop"
          \/ bpc' = "wait" /\ idx' = 0
        BY <1>7 DEF BooterStop, Goto
    <2>4. WaitSuffix'
        <3>1. \A p \in Children' : proc'[p].app >= 0
            BY <2>1 DEF TypeOK, Children, Process, Idx
        <3> QED BY <2>3, <3>1 DEF WaitSuffix
    <2> QED BY <2>2, <2>3, <2>4 DEF ChildInv, NoChildLeftBehind, ForkPrefix
<1>8. CASE BooterWait
    <2>1. CASE idx < NApps
        <3>1. /\ bpc = "wait" /\ bpc' = "wait" /\ idx' = idx + 1 /\ idx \in Idx
              /\ UNCHANGED apid
            BY <1>8, <2>1 DEF BooterWait, TypeOK, Idx
        <3>2. Fewer /\ \A p \in Children' : proc[p].app # idx
            <4>1. ASSUME NEW p \in Dead(apid[idx]),
                         proc' = [proc EXCEPT ![p] = FreeProcess]
                  PROVE  Fewer /\ \A q \in Children' : proc[q].app # idx
                <5>1. \A q \in Children' : /\ q # p /\ q \in Children
                                           /\ proc'[q] = proc[q]
                    BY <4>1 DEF Children, FreeProcess, TypeOK, Dead, Waitable
                <5>2. \A q \in Children : q # p => proc[q].app # idx
                    BY <3>1, <1>t, WaitTakesSlot
                <5> QED BY <5>1, <5>2
            <4>2. ASSUME Waitable(apid[idx]) = {}, UNCHANGED proc
                  PROVE  Fewer /\ \A q \in Children' : proc[q].app # idx
                <5>1. \A q \in Children : proc[q].app # idx
                    BY <4>2, <1>t DEF Waitable, SlotsTrackChildren
                <5> QED BY <4>2, <5>1, <1>0
            <4> QED BY <1>8, <2>1, <4>1, <4>2 DEF BooterWait
        <3>3. SlotsTrackChildren'
            BY <3>1, <3>2, <1>t, FewerChildren
        <3>4. WaitSuffix'
            BY <3>1, <3>2, <1>t DEF WaitSuffix, TypeOK, Children, Process, Idx
        <3> QED BY <3>1, <3>3, <3>4 DEF ChildInv, NoChildLeftBehind, ForkPrefix
    <2>2. CASE idx = NApps
        <3>1. Children = {}
            BY <1>8, <2>2, <1>t DEF BooterWait, WaitSuffix, TypeOK, Children,
                                    Process, Idx
        <3>2. bpc' = "cleanup" /\ UNCHANGED <<proc, apid>>
            BY <1>8, <2>2 DEF BooterWait, Goto
        <3>3. Children' = {}
            BY <3>1, <3>2, <1>0
        <3> QED BY <3>2, <3>3 DEF ChildInv, SlotsTrackChildren,
                                  NoChildLeftBehind, ForkPrefix, WaitSuffix
    <2> QED BY <1>8, <2>1, <2>2 DEF BooterWait
<1>9. CASE BooterCleanup
    <2>1. CASE \E pf : BooterGone(pf)
        BY <2>1, GoneChildren
    <2>2. CASE ~ \E pf : BooterGone(pf)
        <3>1. bpc = "cleanup" /\ bpc' = "exec" /\ UNCHANGED proc
            BY <1>9, <2>2 DEF BooterCleanup, Goto
        <3>2. Children' = {}
            BY <3>1, <1>0, <1>t DEF NoChildLeftBehind
        <3> QED BY <3>1, <3>2 DEF ChildInv, SlotsTrackChildren,
                                  NoChildLeftBehind, ForkPrefix, WaitSuffix
    <2> QED BY <2>1, <2>2
<1> QED
    BY <1>1, <1>2, <1>3, <1>4, <1>5, <1>6, <1>7, <1>8, <1>9 DEF BooterStep

\* No step of an application makes it, or anybody else, a child.
LEMMA AppChildren ==
    ASSUME TypeOK, ChildInv,
           NEW p \in Pids, AppStep(p) \/ AppSignal(p) \/ AppDies(p)
    PROVE  ChildInv'
<1>1. UNCHANGED <<bpc, idx, apid>>
    BY DEF AppStep, AppSignal, AppDies, AppBoot, AppTop, AppWork,
           UpdaterRestarts, AppTail, bvars
<1>p. proc[p] \in Process
    BY DEF TypeOK
<1>2. /\ proc[p].st = "alive"
      /\ \A q \in Pids \ {p} : proc'[q] = proc[q]
    BY DEF AppStep, AppSignal, AppDies, AppBoot, AppTop, AppWork, AppAt,
           UpdaterRestarts, AppTail, AppEnds, AppGoto, TypeOK
<1>3. p \in Children' => ~proc[p].orphan /\ proc'[p].app = proc[p].app
    <2>1. CASE AppEnds(p)
        BY <2>1, <1>p DEF AppEnds, Ended, FreeProcess, Children, TypeOK
    <2>2. CASE \E pc : AppGoto(p, pc)
        BY <2>2, <1>p DEF AppGoto, Children, TypeOK, Process
    <2>3. CASE AppBoot(p)
        <3>1. proc'[p].app = proc[p].app
            BY <2>3, <1>p DEF AppBoot, TypeOK, Process
        <3>2. proc'[p].orphan = proc[p].orphan
            BY <2>3, <1>p DEF AppBoot, TypeOK, Process
        <3> QED BY <3>1, <3>2, Zenon DEF Children
    <2>4. CASE AppSignal(p)
        <3>1. PICK s \in proc[p].pend :
                proc' = [proc EXCEPT ![p].status = Handled(s, @), ![p].pend = @ \ {s}]
            BY <2>4 DEF AppSignal
        <3>2. proc'[p].app = proc[p].app /\ proc'[p].orphan = proc[p].orphan
            BY <3>1, <1>p DEF TypeOK, Process
        <3> QED BY <3>2, Zenon DEF Children
    <2> QED BY <2>1, <2>2, <2>3, <2>4
            DEF AppStep, AppDies, AppTop, AppWork, UpdaterRestarts, AppTail
<1>4. \A q \in Children' : q \in Children /\ proc'[q].app = proc[q].app
    BY <1>2, <1>3 DEF Children
<1> QED BY <1>1, <1>4, BooterStill

\* The invariant the two properties of the run follow from.
THEOREM ChildInvariant == Spec => []ChildInv
<1> USE ConstantsAssumption
<1>1. Init => ChildInv
    <2> SUFFICES ASSUME Init PROVE ChildInv
        OBVIOUS
    <2>1. Children = {} /\ bpc = "dead"
        BY DEF Init, Children, FreeProcess
    <2> QED BY <2>1 DEF ChildInv, SlotsTrackChildren, NoChildLeftBehind,
                        ForkPrefix, WaitSuffix
<1>2. TypeOK /\ ChildInv /\ [Next]_vars => ChildInv'
    <2> SUFFICES ASSUME TypeOK, ChildInv, [Next]_vars PROVE ChildInv'
        OBVIOUS
    <2>0. ASSUME UNCHANGED <<bpc, idx, apid, proc>> PROVE ChildInv'
        BY <2>0, BooterStill DEF Children
    <2>1. CASE StartBooter
        <3>1. bpc = "dead" /\ bpc' = "init" /\ UNCHANGED proc
            BY <2>1 DEF StartBooter, Goto
        <3>2. Children' = {}
            BY <3>1 DEF ChildInv, NoChildLeftBehind, Children
        <3> QED BY <3>1, <3>2 DEF ChildInv, SlotsTrackChildren,
                                  NoChildLeftBehind, ForkPrefix, WaitSuffix
    <2>2. CASE BooterStep
        BY <2>2, BooterStepChildren
    <2>3. CASE BooterSignal
        BY <2>3, <2>0, GoneChildren DEF BooterSignal
    <2>4. CASE BooterKilled
        BY <2>4, GoneChildren DEF BooterKilled
    <2>5. ASSUME NEW p \in Pids, AppStep(p) \/ AppSignal(p) \/ AppDies(p)
          PROVE  ChildInv'
        BY <2>5, AppChildren
    <2>6. ASSUME NEW s \in OpSignals, OpSignal(s)
          PROVE  ChildInv'
        BY <2>6, <2>0 DEF OpSignal
    <2>7. ASSUME NEW s \in OpSignals, GroupSignal(s)
          PROVE  ChildInv'
        <3>1. \A q \in Children' : q \in Children /\ proc'[q].app = proc[q].app
            BY <2>7 DEF GroupSignal, Children, TypeOK, Process
        <3> QED BY <2>7, <3>1, BooterStill DEF GroupSignal
    <2>8. CASE UdiskChange
        BY <2>8, <2>0 DEF UdiskChange, bvars
    <2>9. CASE UNCHANGED vars
        BY <2>9, <2>0 DEF vars
    <2> QED
        BY <2>1, <2>2, <2>3, <2>4, <2>5, <2>6, <2>7, <2>8, <2>9 DEF Next
<1> QED BY <1>1, <1>2, TypeCorrect, PTL DEF Spec

\* Every child is in its application's slot: fork failures, pid -1 and pid
\* reuse never make the booter lose or duplicate a child.
THEOREM SlotsAlwaysTrackChildren == Spec => []SlotsTrackChildren
<1>1. ChildInv => SlotsTrackChildren
    BY DEF ChildInv
<1> QED BY <1>1, ChildInvariant, PTL

\* The booter neither ends nor re-executes itself with a child still there.
THEOREM NoChildIsLeftBehind == Spec => []NoChildLeftBehind
<1>1. ChildInv => NoChildLeftBehind
    BY DEF ChildInv
<1> QED BY <1>1, ChildInvariant, PTL
-----------------------------------------------------------------------------
(***************************************************************************)
(* GhostGate.  Before the first CONT broadcast a gated application has got *)
(* no signal but STOP and EXIT, so once past its boot it stays at the head *)
(* of its loop with one of the two as its status.                          *)
(***************************************************************************)

Gated(r) ==
    r.st = "alive" /\ HonoursStop(r.app) =>
        /\ r.pend \subseteq {"STOP", "EXIT"}
        /\ r.pc \in {"boot", "top"}
        /\ r.pc = "top" => r.status \in {"STOP", "EXIT"}

GateInv == Ghost /\ ~unlocked => \A p \in Pids : Gated(proc[p])

\* A process that is free or a zombie, a forked child, a process that got a
\* STOP or an EXIT and one that lost its parent are gated if they were.
LEMMA GatedRecords ==
    ASSUME TypeOK
    PROVE  /\ Gated(FreeProcess)
           /\ \A i \in Idx : Gated(ForkedChild(i))
           /\ \A r \in Process : Gated(Ended(r))
           /\ \A r \in Process : Gated(r) =>
                /\ Gated([r EXCEPT !.pend = @ \cup {"STOP"}])
                /\ Gated([r EXCEPT !.pend = @ \cup {"EXIT"}])
                /\ Gated([r EXCEPT !.orphan = TRUE])
<1>1. Gated(FreeProcess)
    BY DEF Gated, FreeProcess
<1>2. \A i \in Idx : Gated(ForkedChild(i))
    BY DEF Gated, ForkedChild, FreeProcess
<1>3. \A r \in Process : Gated(Ended(r))
    BY DEF Gated, Ended, FreeProcess
<1>4. ASSUME NEW r \in Process, Gated(r), NEW s \in {"STOP", "EXIT"}
      PROVE  Gated([r EXCEPT !.pend = @ \cup {s}])
    BY <1>4 DEF Gated, Process
<1>5. ASSUME NEW r \in Process, Gated(r)
      PROVE  Gated([r EXCEPT !.orphan = TRUE])
    BY <1>5 DEF Gated, Process
<1> QED BY <1>1, <1>2, <1>3, <1>4, <1>5

\* A fork adds a child that is still booting.
LEMMA ForkGated ==
    ASSUME TypeOK, NEW i \in Idx, NEW t \in [Pids -> Process],
           ForkInto(i, t), \A p \in Pids : Gated(t[p])
    PROVE  \A p \in Pids : Gated(proc'[p])
<1>1. CASE proc' = t
    BY <1>1
<1>2. ASSUME NEW p \in Pids, proc' = [t EXCEPT ![p] = ForkedChild(i)]
      PROVE  \A q \in Pids : Gated(proc'[q])
    BY <1>2, GatedRecords
<1> QED BY <1>1, <1>2 DEF ForkInto

\* The end of the booter opens no gate.
LEMMA GoneGated ==
    ASSUME TypeOK, \A p \in Pids : Gated(proc[p]),
           NEW pf, BooterGone(pf)
    PROVE  \A p \in Pids : Gated(proc'[p])
<1>1. \A p \in Pids : proc[p] \in Process
    BY DEF TypeOK
<1> QED BY <1>1, GatedRecords DEF BooterGone

\* Without a CONT, no step of the booter opens the gate.
LEMMA BooterStepGated ==
    ASSUME TypeOK, \A p \in Pids : Gated(proc[p]), BooterStep, ~unlocked'
    PROVE  \A p \in Pids : Gated(proc'[p])
<1> USE ConstantsAssumption
<1>p. \A p \in Pids : proc[p] \in Process
    BY DEF TypeOK
<1>s. \A sig \in {"STOP", "EXIT"} :
        /\ \A target : \A p \in Pids : Gated(Signalled(target, sig)[p])
        /\ \A p \in Pids : Gated(SignalledAll(sig)[p])
    BY <1>p, GatedRecords DEF Signalled, SignalledAll
<1>f. ASSUME NEW q \in Pids
      PROVE  /\ [proc EXCEPT ![q] = FreeProcess] \in [Pids -> Process]
             /\ \A p \in Pids : Gated([proc EXCEPT ![q] = FreeProcess][p])
    BY GatedRecords, ProcessRecords DEF TypeOK
<1>1. CASE \/ BooterInit \/ BooterSetpid \/ BooterNode \/ BooterCleanup
           \/ BooterExec
    <2>1. UNCHANGED proc \/ \E pf : BooterGone(pf)
        BY <1>1 DEF BooterInit, BooterSetpid, BooterNode, BooterCleanup,
                    BooterExec
    <2> QED BY <2>1, GoneGated
<1>2. CASE \/ BooterArm \/ BooterForked \/ BooterLoop \/ BooterRebooted
           \/ BooterSleep
    BY <1>2 DEF BooterArm, BooterForked, BooterLoop, BooterRebooted, BooterSleep
<1>3. CASE BooterFork
    <2>1. idx \in Idx /\ ForkInto(idx, proc) /\ proc \in [Pids -> Process]
        BY <1>3 DEF BooterFork, TypeOK, Idx
    <2> QED BY <2>1, ForkGated
<1>4. CASE BooterGhost
    <2>1. UNCHANGED proc \/ proc' = SignalledAll("STOP")
        BY <1>4 DEF BooterGhost
    <2> QED BY <2>1, <1>s
<1>5. CASE BooterReboot
    <2>1. idx \in Idx
        BY <1>5 DEF BooterReboot, TypeOK, Idx
    <2>2. CASE UNCHANGED proc
        BY <2>2
    <2>3. ASSUME NEW q \in Dead(apid[idx]),
                 ForkInto(idx, [proc EXCEPT ![q] = FreeProcess])
          PROVE  \A p \in Pids : Gated(proc'[p])
        <3>1. q \in Pids
            BY DEF Dead, Waitable, Children
        <3> QED BY <2>1, <2>3, <3>1, <1>f, ForkGated
    <2> QED BY <1>5, <2>2, <2>3 DEF BooterReboot
<1>6. CASE BooterStop
    <2>1. UNCHANGED proc \/ proc' = Signalled(apid[idx], "EXIT")
        BY <1>6 DEF BooterStop
    <2> QED BY <2>1, <1>s
<1>7. CASE BooterWait
    <2>1. UNCHANGED proc \/ \E q \in Pids : proc' = [proc EXCEPT ![q] = FreeProcess]
        BY <1>7 DEF BooterWait, Dead, Waitable, Children
    <2> QED BY <2>1, <1>f
<1> QED BY <1>1, <1>2, <1>3, <1>4, <1>5, <1>6, <1>7 DEF BooterStep

\* In the ghost build a gated application that takes a step is gated again.
LEMMA AppGated ==
    ASSUME TypeOK, Ghost, NEW p \in Pids, Gated(proc[p]),
           AppStep(p) \/ AppSignal(p) \/ AppDies(p)
    PROVE  Gated(proc'[p])
<1>p. proc[p] \in Process
    BY DEF TypeOK
<1>a. proc[p].st = "alive"
    BY DEF AppStep, AppSignal, AppDies, AppBoot, AppTop, AppWork, AppAt,
           UpdaterRestarts, AppTail
<1>h. CASE ~HonoursStop(proc[p].app)
    <2>1. CASE AppEnds(p)
        BY <2>1, <1>p, GatedRecords DEF AppEnds, TypeOK
    <2>2. CASE ~AppEnds(p)
        <3>1. CASE \E pc : AppGoto(p, pc)
            BY <3>1, <1>p, <1>h DEF AppGoto, Gated, TypeOK, Process
        <3>2. CASE AppBoot(p)
            <4>1. proc'[p].app = proc[p].app
                BY <3>2, <1>p DEF AppBoot, TypeOK, Process
            <4> QED BY <4>1, <1>h, Zenon DEF Gated
        <3>3. CASE AppSignal(p)
            <4>1. PICK s \in proc[p].pend :
                    proc' = [proc EXCEPT ![p].status = Handled(s, @),
                                         ![p].pend = @ \ {s}]
                BY <3>3 DEF AppSignal
            <4>2. proc'[p].app = proc[p].app
                BY <4>1, <1>p DEF TypeOK, Process
            <4> QED BY <4>2, <1>h, Zenon DEF Gated
        <3> QED BY <2>2, <3>1, <3>2, <3>3
                DEF AppStep, AppDies, AppTop, AppWork, UpdaterRestarts, AppTail
    <2> QED BY <2>1, <2>2
<1>g. CASE HonoursStop(proc[p].app)
    <2>0. /\ proc[p].pend \subseteq {"STOP", "EXIT"}
          /\ proc[p].pc \in {"boot", "top"}
          /\ proc[p].pc = "top" => proc[p].status \in {"STOP", "EXIT"}
        BY <1>a, <1>g DEF Gated
    <2>1. CASE AppBoot(p)
        <3>1. proc'[p].pc = "top" /\ proc'[p].status = "STOP"
            BY <2>1, <1>p DEF AppBoot, TypeOK, Process
        <3>2. proc'[p].pend = proc[p].pend
            BY <2>1, <1>p DEF AppBoot, TypeOK, Process
        <3> QED BY <2>0, <3>1, <3>2, Zenon DEF Gated
    <2>2. CASE AppTop(p) \/ AppDies(p)
        <3>1. AppEnds(p)
            BY <2>0, <2>2, <1>g DEF AppTop, AppDies, AppAt
        <3> QED BY <3>1, <1>p, GatedRecords DEF AppEnds, TypeOK
    <2>3. CASE AppSignal(p)
        <3>1. PICK s \in proc[p].pend :
                proc' = [proc EXCEPT ![p].status = Handled(s, @), ![p].pend = @ \ {s}]
            BY <2>3 DEF AppSignal
        <3>2. Handled(s, proc[p].status) \in {"STOP", "EXIT"}
            BY <2>0 DEF Handled
        <3>3. /\ proc'[p].pc = proc[p].pc
              /\ proc'[p].pend = proc[p].pend \ {s}
              /\ proc'[p].status = Handled(s, proc[p].status)
            BY <3>1, <1>p DEF TypeOK, Process
        <3> QED BY <2>0, <3>2, <3>3 DEF Gated
    <2> QED BY <2>0, <2>1, <2>2, <2>3
            DEF AppStep, AppWork, UpdaterRestarts, AppTail, AppAt
<1> QED BY <1>h, <1>g

\* The invariant GhostGate follows from.
THEOREM GateInvariant == Spec => []GateInv
<1>1. Init => GateInv
    <2> SUFFICES ASSUME Init, NEW p \in Pids PROVE Gated(proc[p])
        BY DEF GateInv
    <2> QED BY DEF Init, FreeProcess, Gated
<1>2. TypeOK /\ GateInv /\ [Next]_vars => GateInv'
    <2> SUFFICES ASSUME TypeOK, GateInv, [Next]_vars, Ghost, ~unlocked'
                 PROVE  \A p \in Pids : Gated(proc'[p])
        BY DEF GateInv
    <2>u. ~unlocked
        <3>1. CASE UNCHANGED unlocked
            BY <3>1
        <3>2. CASE unlocked' = TRUE
            BY <3>2
        <3>3. CASE \E s : GroupSignal(s)
            BY <3>3, Zenon DEF GroupSignal
        <3> QED
            BY <3>1, <3>2, <3>3
               DEF Next, vars, bvars, StartBooter, BooterStep, BooterSignal,
                   BooterKilled, BooterInit, BooterSetpid, BooterNode,
                   BooterArm, BooterFork, BooterForked, BooterLoop,
                   BooterGhost, BooterReboot, BooterRebooted, BooterSleep,
                   BooterStop, BooterWait, BooterCleanup, BooterExec,
                   BooterGone, AppStep, AppSignal, AppDies, AppBoot, AppTop,
                   AppWork, UpdaterRestarts, AppTail, OpSignal, UdiskChange
    <2>g. \A p \in Pids : Gated(proc[p])
        BY <2>u DEF GateInv
    <2>1. CASE StartBooter \/ UdiskChange \/ UNCHANGED vars
        BY <2>1, <2>g DEF StartBooter, UdiskChange, vars
    <2>2. CASE BooterStep
        BY <2>2, <2>g, BooterStepGated
    <2>3. CASE BooterSignal \/ BooterKilled
        <3>1. UNCHANGED proc \/ \E pf : BooterGone(pf)
            BY <2>3 DEF BooterSignal, BooterKilled
        <3> QED BY <3>1, <2>g, GoneGated
    <2>4. ASSUME NEW q \in Pids, AppStep(q) \/ AppSignal(q) \/ AppDies(q)
          PROVE  \A p \in Pids : Gated(proc'[p])
        <3>1. \A p \in Pids \ {q} : proc'[p] = proc[p]
            BY <2>4 DEF AppStep, AppSignal, AppDies, AppBoot, AppTop, AppWork,
                        AppAt, UpdaterRestarts, AppTail, AppEnds, AppGoto, TypeOK
        <3>2. Gated(proc'[q])
            BY <2>4, <2>g, AppGated
        <3> QED BY <3>1, <3>2, <2>g
    <2>5. ASSUME NEW s \in OpSignals, OpSignal(s)
          PROVE  \A p \in Pids : Gated(proc'[p])
        BY <2>5, <2>g DEF OpSignal
    <2>6. ASSUME NEW s \in OpSignals, GroupSignal(s)
          PROVE  \A p \in Pids : Gated(proc'[p])
        <3>1. \A p \in Pids : proc[p] \in Process
            BY DEF TypeOK
        <3>2. s # "CONT"
            BY <2>6, Zenon DEF GroupSignal
        <3>3. s \in {"STOP", "EXIT"}
            BY <2>6, <3>2 DEF GroupSignal
        <3> QED BY <2>6, <2>g, <3>1, <3>3, GatedRecords DEF GroupSignal
    <2> QED BY <2>1, <2>2, <2>3, <2>4, <2>5, <2>6 DEF Next
<1> QED BY <1>1, <1>2, TypeCorrect, PTL DEF Spec

\* In the ghost build no application that honours STOP works before the first
\* CONT broadcast, however forks, signals, crashes and restarts interleave.
THEOREM GhostGateHolds == Spec => []GhostGate
<1>1. GateInv => GhostGate
    BY DEF GateInv, GhostGate, Gated, AppAt
<1> QED BY <1>1, GateInvariant, PTL

-----------------------------------------------------------------------------
(***************************************************************************)
(* The booter implements Supervisor.                                       *)
(***************************************************************************)

\* The applications of the children after a step that neither adds nor takes
\* a child.
LEMMA KidsStay ==
    ASSUME Children' = Children,
           \A p \in Children : proc'[p].app = proc[p].app
    PROVE  Kids' = Kids
BY DEF Kids

\* The death of the booter, at any point, leaves it without children.
LEMMA GoneSupervises ==
    ASSUME TypeOK, NEW pf, BooterGone(pf)
    PROVE  Sup!Die
<1>1. Children' = {}
    BY DEF BooterGone, Children, FreeProcess, TypeOK, Process
<1>2. Phase' = "dead"
    BY DEF BooterGone, Phase
<1>3. Kids' = {}
    BY <1>1 DEF Kids
<1> QED BY <1>2, <1>3 DEF Sup!Die

\* Signals neither add nor take a child.
LEMMA SignalsKids ==
    ASSUME TypeOK,
           \/ \E target, sig : proc' = Signalled(target, sig)
           \/ \E sig : proc' = SignalledAll(sig)
    PROVE  Kids' = Kids
<1>1. Children' = Children /\ \A p \in Children : proc'[p].app = proc[p].app
    BY DEF Signalled, SignalledAll, Children, TypeOK, Process
<1> QED BY <1>1, KidsStay

\* A child that waitpid reaps takes its application away: no other child is
\* of the same.
LEMMA ReapedKids ==
    ASSUME TypeOK, SlotsTrackChildren, NEW p \in Children
    PROVE  LET t == [proc EXCEPT ![p] = FreeProcess] IN
           {t[q].app : q \in {r \in Pids : t[r].st # "free" /\ ~t[r].orphan}}
               = Kids \ {proc[p].app}
<1> DEFINE t == [proc EXCEPT ![p] = FreeProcess]
           C == {r \in Pids : t[r].st # "free" /\ ~t[r].orphan}
<1>1. C = Children \ {p} /\ \A q \in C : t[q] = proc[q]
    BY DEF Children, FreeProcess, TypeOK
<1>2. \A q \in Children : proc[q].app = proc[p].app => q = p
    BY DEF SlotsTrackChildren
<1> HIDE DEF t, C
<1>3. {t[q].app : q \in C} = Kids \ {proc[p].app}
    BY <1>1, <1>2 DEF Kids
<1> QED BY <1>3 DEF t, C

\* A fork adds the application to those of the process table t it starts
\* from, or nothing if it fails.
LEMMA ForkedKids ==
    ASSUME TypeOK, NEW i \in Idx, NEW t \in [Pids -> Process], ForkInto(i, t),
           NEW K,
           K = {t[q].app : q \in {r \in Pids : t[r].st # "free" /\ ~t[r].orphan}}
    PROVE  Kids' = K \/ Kids' = K \cup {i}
<1> DEFINE C == {r \in Pids : t[r].st # "free" /\ ~t[r].orphan}
<1>1. /\ ForkedChild(i).app = i /\ ForkedChild(i).st = "alive"
      /\ ~ForkedChild(i).orphan
    BY DEF ForkedChild, FreeProcess
<1>2. CASE proc' = t
    BY <1>2 DEF Kids, Children
<1>3. ASSUME NEW p \in Pids, t[p].st = "free",
             proc' = [t EXCEPT ![p] = ForkedChild(i)]
      PROVE  Kids' = K \cup {i}
    <2>1. p \notin C /\ Children' = C \cup {p}
        BY <1>1, <1>3 DEF Children
    <2>2. proc'[p].app = i /\ \A q \in C : proc'[q] = t[q]
        BY <1>1, <1>3, <2>1
    <2> HIDE DEF C
    <2>3. Kids' = {proc'[q].app : q \in Children'}
        BY DEF Kids
    <2>4. K = {t[q].app : q \in C}
        BY DEF C
    <2> QED BY <2>1, <2>2, <2>3, <2>4
<1> QED BY <1>2, <1>3 DEF ForkInto

\* Every step of the booter is one of Supervisor or changes nothing of what
\* Supervisor speaks of.
LEMMA BooterStepSupervises ==
    ASSUME TypeOK, ChildInv, BooterStep
    PROVE  [Sup!Next]_<<Phase, Kids>>
<1> USE ConstantsAssumption
<1>0. ASSUME UNCHANGED proc PROVE UNCHANGED Kids
    BY <1>0, KidsStay DEF Children
<1>g. ASSUME NEW pf, BooterGone(pf) PROVE Sup!Next
    BY <1>g, GoneSupervises DEF Sup!Next
<1>t. SlotsTrackChildren /\ NoChildLeftBehind /\ ForkPrefix /\ WaitSuffix
    BY DEF ChildInv
<1>1. CASE BooterInit \/ BooterSetpid \/ BooterNode
    <2>1. \/ \E pf : BooterGone(pf)
          \/ /\ UNCHANGED proc
             /\ bpc \in {"init", "setpid", "node"}
             /\ bpc' \in {"setpid", "node", "arm"}
        BY <1>1 DEF BooterInit, BooterSetpid, BooterNode, Goto
    <2>2. ASSUME UNCHANGED proc,
                 bpc \in {"init", "setpid", "node"},
                 bpc' \in {"setpid", "node", "arm"}
          PROVE  UNCHANGED <<Phase, Kids>>
        BY <2>2, <1>0 DEF Phase
    <2> QED BY <2>1, <2>2, <1>g
<1>2. CASE BooterArm
    <2>1. Phase = "starting" /\ Phase' = "up" /\ UNCHANGED Kids
        BY <1>2, <1>0 DEF BooterArm, Goto, Phase
    <2> QED BY <2>1 DEF Sup!Next, Sup!Arrive
<1>3. CASE BooterFork
    <2>1. /\ idx \in Idx /\ bpc = "fork" /\ bpc' = "fork"
          /\ ForkInto(idx, proc) /\ proc \in [Pids -> Process]
        BY <1>3 DEF BooterFork, TypeOK, Idx
    <2>2. Kids' = Kids \/ Kids' = Kids \cup {idx}
        <3>1. Kids = {proc[q].app : q \in {r \in Pids : proc[r].st # "free" /\ ~proc[r].orphan}}
            BY DEF Kids, Children
        <3> QED BY <2>1, <3>1, ForkedKids
    <2>3. \A p \in Children : proc[p].app # idx
        BY <2>1, <1>t DEF ForkPrefix, TypeOK, Children, Process, Idx
    <2>4. idx \notin Kids
        BY <2>3 DEF Kids
    <2>5. Phase = "up" /\ Phase' = "up"
        BY <2>1 DEF Phase
    <2>6. ASSUME Kids' = Kids \cup {idx} PROVE Sup!Launch
        <3>1. PICK gone \in SUBSET Kids : gone = {}
            OBVIOUS
        <3>2. /\ \A j, k \in gone : j = k
              /\ idx \notin Kids \ gone
              /\ Kids' = (Kids \ gone) \cup {idx}
            BY <2>4, <2>6, <3>1
        <3> QED BY <2>1, <2>5, <3>2 DEF Sup!Launch
    <2> QED BY <2>2, <2>5, <2>6 DEF Sup!Next
<1>4. CASE BooterForked \/ BooterRebooted \/ BooterSleep
    <2>1. /\ UNCHANGED proc
          /\ bpc \in {"fork", "reboot", "sleep"}
          /\ bpc' \in {"loop", "sleep"}
        BY <1>4 DEF BooterForked, BooterRebooted, BooterSleep, Goto
    <2> QED BY <2>1, <1>0 DEF Phase
<1>5. CASE BooterLoop
    <2>1. bpc = "loop" /\ bpc' \in {"stop", "ghost", "reboot"} /\ UNCHANGED proc
        BY <1>5 DEF BooterLoop, Goto
    <2>2. CASE bpc' = "stop"
        <3>1. Phase = "up" /\ Phase' = "leaving" /\ UNCHANGED Kids
            BY <2>1, <2>2, <1>0 DEF Phase
        <3> QED BY <3>1 DEF Sup!Next, Sup!Quit
    <2>3. CASE bpc' # "stop"
        BY <2>1, <2>3, <1>0 DEF Phase
    <2> QED BY <2>2, <2>3
<1>6. CASE BooterGhost
    <2>1. bpc = "ghost" /\ bpc' = "reboot"
        BY <1>6 DEF BooterGhost, Goto
    <2>2. UNCHANGED Kids
        BY <1>6, <1>0, SignalsKids DEF BooterGhost
    <2> QED BY <2>1, <2>2 DEF Phase
<1>7. CASE BooterReboot
    <2>1. idx \in Idx /\ bpc = "reboot" /\ bpc' = "reboot"
        BY <1>7 DEF BooterReboot, TypeOK, Idx
    <2>2. Phase = "up" /\ Phase' = "up"
        BY <2>1 DEF Phase
    <2>3. CASE UNCHANGED proc
        BY <2>2, <2>3, <1>0
    <2>4. ASSUME NEW p \in Dead(apid[idx]),
                 ForkInto(idx, [proc EXCEPT ![p] = FreeProcess])
          PROVE  Sup!Next
        <3> DEFINE t == [proc EXCEPT ![p] = FreeProcess]
                   gone == {proc[p].app}
        <3>1. p \in Children /\ p \in Pids
            BY DEF Dead, Waitable, Children
        <3>2. t \in [Pids -> Process]
            BY ProcessRecords DEF TypeOK
        <3>3. Kids \ gone = {t[q].app : q \in {r \in Pids : t[r].st # "free" /\ ~t[r].orphan}}
            BY <3>1, <1>t, ReapedKids
        <3>4. ForkInto(idx, t)
            BY <2>4
        <3>5. idx \notin Kids \ gone
            BY <2>1, <1>t, WaitTakesSlot DEF Kids
        <3>6. proc[p].app \in Kids
            BY <3>1 DEF Kids
        <3> HIDE DEF t
        <3>7. Kids' = Kids \ gone \/ Kids' = (Kids \ gone) \cup {idx}
            <4> HIDE DEF gone
            <4> QED BY <2>1, <3>2, <3>3, <3>4, ForkedKids
        <3>8. CASE Kids' = Kids \ gone
            BY <2>2, <3>6, <3>8 DEF Sup!Next, Sup!Reap
        <3>9. CASE Kids' = (Kids \ gone) \cup {idx}
            <4>1. gone \in SUBSET Kids /\ \A j, k \in gone : j = k
                BY <3>6
            <4> HIDE DEF gone
            <4> QED BY <2>1, <2>2, <3>5, <3>9, <4>1 DEF Sup!Next, Sup!Launch
        <3> QED BY <3>7, <3>8, <3>9
    <2> QED BY <1>7, <2>3, <2>4 DEF BooterReboot
<1>8. CASE BooterStop
    <2>1. bpc = "stop" /\ bpc' \in {"stop", "wait"}
        BY <1>8 DEF BooterStop, Goto
    <2>2. UNCHANGED Kids
        BY <1>8, <1>0, SignalsKids DEF BooterStop
    <2> QED BY <2>1, <2>2 DEF Phase
<1>9. CASE BooterWait
    <2>1. ASSUME NEW p \in Dead(apid[idx]), bpc = "wait", bpc' = "wait",
                 proc' = [proc EXCEPT ![p] = FreeProcess]
          PROVE  Sup!Next
        <3>1. p \in Children
            BY DEF Dead, Waitable
        <3>2. Kids' = Kids \ {proc[p].app}
            BY <2>1, <3>1, <1>t, ReapedKids DEF Kids, Children
        <3>3. proc[p].app \in Kids
            BY <3>1 DEF Kids
        <3>4. Phase = "leaving" /\ Phase' = "leaving"
            BY <2>1 DEF Phase
        <3> QED BY <3>2, <3>3, <3>4 DEF Sup!Next, Sup!Reap
    <2>2. ASSUME UNCHANGED proc, bpc = "wait", bpc' = "wait"
          PROVE  UNCHANGED <<Phase, Kids>>
        BY <2>2, <1>0 DEF Phase
    <2>3. ASSUME idx = NApps, UNCHANGED proc, bpc = "wait", bpc' = "cleanup"
          PROVE  Sup!Next
        <3>1. Children = {}
            BY <2>3, <1>t DEF WaitSuffix, TypeOK, Children, Process, Idx
        <3>2. Kids = {} /\ UNCHANGED Kids
            BY <2>3, <3>1, <1>0 DEF Kids
        <3>3. Phase = "leaving" /\ Phase' = "out"
            BY <2>3 DEF Phase
        <3> QED BY <3>2, <3>3 DEF Sup!Next, Sup!Out
    <2> QED BY <1>9, <2>1, <2>2, <2>3 DEF BooterWait, Goto
<1>10. CASE BooterCleanup
    <2>1. \/ \E pf : BooterGone(pf)
          \/ bpc = "cleanup" /\ bpc' = "exec" /\ UNCHANGED proc
        BY <1>10 DEF BooterCleanup, Goto
    <2>2. ASSUME bpc = "cleanup", bpc' = "exec", UNCHANGED proc
          PROVE  UNCHANGED <<Phase, Kids>>
        BY <2>2, <1>0 DEF Phase
    <2> QED BY <2>1, <2>2, <1>g
<1>11. CASE BooterExec
    <2>1. \/ \E pf : BooterGone(pf)
          \/ bpc = "exec" /\ bpc' = "init" /\ UNCHANGED proc
        BY <1>11 DEF BooterExec, Goto
    <2>2. ASSUME bpc = "exec", bpc' = "init", UNCHANGED proc
          PROVE  Sup!Next
        <3>1. Phase = "out" /\ Phase' = "starting" /\ UNCHANGED Kids
            BY <2>2, <1>0 DEF Phase
        <3> QED BY <3>1 DEF Sup!Next, Sup!Start
    <2> QED BY <2>1, <2>2, <1>g
<1> QED
    BY <1>1, <1>2, <1>3, <1>4, <1>5, <1>6, <1>7, <1>8, <1>9, <1>10, <1>11
       DEF BooterStep

\* An application neither moves the booter nor, when it ends, leaves the
\* process table before its parent has waited for it.
LEMMA AppSupervises ==
    ASSUME TypeOK, NEW p \in Pids, AppStep(p) \/ AppSignal(p) \/ AppDies(p)
    PROVE  UNCHANGED <<Phase, Kids>>
<1>1. bpc' = bpc
    BY DEF AppStep, AppSignal, AppDies, AppBoot, AppTop, AppWork,
           UpdaterRestarts, AppTail, bvars
<1>p. proc[p] \in Process
    BY DEF TypeOK
<1>2. /\ proc[p].st = "alive"
      /\ \A q \in Pids \ {p} : proc'[q] = proc[q]
    BY DEF AppStep, AppSignal, AppDies, AppBoot, AppTop, AppWork, AppAt,
           UpdaterRestarts, AppTail, AppEnds, AppGoto, TypeOK
<1>3. /\ proc'[p].st # "free" /\ ~proc'[p].orphan <=> ~proc[p].orphan
      /\ ~proc[p].orphan => proc'[p].app = proc[p].app
    <2>1. CASE AppEnds(p)
        <3>1. proc'[p] = Ended(proc[p])
            BY <2>1, <1>p DEF AppEnds, TypeOK
        <3>2. CASE proc[p].orphan
            BY <3>1, <3>2 DEF Ended, FreeProcess
        <3>3. CASE ~proc[p].orphan
            BY <3>1, <3>3 DEF Ended, FreeProcess
        <3> QED BY <3>2, <3>3
    <2>2. ASSUME /\ proc'[p].st = proc[p].st
                 /\ proc'[p].app = proc[p].app
                 /\ proc'[p].orphan = proc[p].orphan
          PROVE  /\ proc'[p].st # "free" /\ ~proc'[p].orphan <=> ~proc[p].orphan
                 /\ ~proc[p].orphan => proc'[p].app = proc[p].app
        <3>1. proc'[p].st # "free"
            BY <2>2, <1>2
        <3> QED BY <2>2, <3>1, Zenon
    <2>3. CASE \E pc : AppGoto(p, pc)
        BY <2>2, <2>3, <1>p DEF AppGoto, TypeOK, Process
    <2>4. CASE AppBoot(p)
        BY <2>2, <2>4, <1>p DEF AppBoot, TypeOK, Process
    <2>5. CASE AppSignal(p)
        <3>1. PICK s \in proc[p].pend :
                proc' = [proc EXCEPT ![p].status = Handled(s, @), ![p].pend = @ \ {s}]
            BY <2>5 DEF AppSignal
        <3> QED BY <2>2, <3>1, <1>p DEF TypeOK, Process
    <2> QED BY <2>1, <2>3, <2>4, <2>5
            DEF AppStep, AppDies, AppTop, AppWork, UpdaterRestarts, AppTail
<1>4. Children' = Children /\ \A q \in Children : proc'[q].app = proc[q].app
    BY <1>2, <1>3 DEF Children
<1>5. UNCHANGED Kids
    BY <1>4, KidsStay
<1> QED BY <1>1, <1>5 DEF Phase

\* The booter implements Supervisor: whatever forks fail, applications die,
\* pids are used again and signals come, an application is forked only while
\* the booter is up and has none of it, and the waitpid loop is left only
\* when the last child was reaped.
THEOREM BooterSupervises == Spec => Supervises
<1>1. Init => Sup!Init
    <2> SUFFICES ASSUME Init PROVE Sup!Init
        OBVIOUS
    <2>1. Children = {} /\ bpc = "dead"
        BY DEF Init, Children, FreeProcess
    <2> QED BY <2>1 DEF Sup!Init, Phase, Kids
<1>2. TypeOK /\ ChildInv /\ [Next]_vars => [Sup!Next]_<<Phase, Kids>>
    <2> SUFFICES ASSUME TypeOK, ChildInv, [Next]_vars
                 PROVE  [Sup!Next]_<<Phase, Kids>>
        OBVIOUS
    <2>0. ASSUME UNCHANGED <<bpc, proc>> PROVE UNCHANGED <<Phase, Kids>>
        BY <2>0, KidsStay DEF Phase, Children
    <2>g. ASSUME NEW pf, BooterGone(pf) PROVE Sup!Next
        BY <2>g, GoneSupervises DEF Sup!Next
    <2>1. CASE StartBooter
        <3>1. bpc = "dead" /\ bpc' = "init" /\ UNCHANGED proc
            BY <2>1 DEF StartBooter, Goto
        <3>2. Phase = "dead" /\ Phase' = "starting"
            BY <3>1 DEF Phase
        <3>3. UNCHANGED Kids
            BY <3>1, KidsStay DEF Children
        <3> QED BY <3>2, <3>3 DEF Sup!Next, Sup!Start
    <2>2. CASE BooterStep
        BY <2>2, BooterStepSupervises
    <2>3. CASE BooterSignal
        BY <2>3, <2>0, <2>g DEF BooterSignal
    <2>4. CASE BooterKilled
        BY <2>4, <2>g DEF BooterKilled
    <2>5. ASSUME NEW p \in Pids, AppStep(p) \/ AppSignal(p) \/ AppDies(p)
          PROVE  UNCHANGED <<Phase, Kids>>
        BY <2>5, AppSupervises
    <2>6. ASSUME NEW s \in OpSignals, OpSignal(s)
          PROVE  UNCHANGED <<Phase, Kids>>
        BY <2>6, <2>0 DEF OpSignal
    <2>7. ASSUME NEW s \in OpSignals, GroupSignal(s)
          PROVE  UNCHANGED <<Phase, Kids>>
        <3>1. Children' = Children /\ \A q \in Children : proc'[q].app = proc[q].app
            BY <2>7 DEF GroupSignal, Children, TypeOK, Process
        <3> QED BY <2>7, <3>1, KidsStay DEF GroupSignal, Phase
    <2>8. CASE UdiskChange
        BY <2>8, <2>0 DEF UdiskChange, bvars
    <2>9. CASE UNCHANGED vars
        BY <2>9, <2>0 DEF vars
    <2> QED
        BY <2>1, <2>2, <2>3, <2>4, <2>5, <2>6, <2>7, <2>8, <2>9 DEF Next
<1>3. Supervises <=> Sup!Init /\ [][Sup!Next]_<<Phase, Kids>>
    BY DEF Supervises, Sup!Spec
<1> QED
    BY <1>1, <1>2, <1>3, TypeCorrect, ChildInvariant, PTL DEF Spec
=============================================================================
