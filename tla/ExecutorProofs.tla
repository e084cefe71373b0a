--------------------------- MODULE ExecutorProofs ---------------------------
(***************************************************************************)
(* Proofs about Executor, for any tasks, any max_busy_count and any        *)
(* bounds: BusyBacksOff and OneTaskAfterStop, which are statements about   *)
(* the executor's own loop; type correctness; and LimitHolds, which is     *)
(* about the children.                                                     *)
(***************************************************************************)
EXTENDS Executor, TLAPS

\* empty_count never passes max_busy_count, and in a busy spell it counts at
\* least the pulls without a task since the last one with (it may count more,
\* for it is not reset when a task is found).
BusyInv ==
    /\ empty \in 0 .. MaxBusy
    /\ quiet \in Nat
    /\ dur = "busy" => quiet <= empty
    /\ epc \in {"check", "fork"} => quiet = 0

\* A task started after STOP or EXIT is the end of the pass: the executor does
\* not get past the head of its loop before CONT resets the count.
StopInv ==
    /\ late \in {0, 1}
    /\ late = 1 => status \in {"STOP", "EXIT"} /\ epc \in {"cleanup", "top", "gone"}

-----------------------------------------------------------------------------
\* The children change nothing of the executor's loop.
LEMMA KidsLeaveLoopAlone ==
    ASSUME NEW t \in Tasks, KidStep(t) \/ KidCalls(t) \/ KidDies(t)
    PROVE  UNCHANGED <<epc, status, empty, dur, quiet, late>>
<1>1. CASE KidStart(t)
    BY <1>1 DEF KidStart, Sync, evars
<1>2. CASE KidReturn(t)
    BY <1>2 DEF KidReturn, evars
<1>3. CASE KidReport(t)
    BY <1>3 DEF KidReport, Sync, evars
<1>4. CASE BashRead(t)
    BY <1>4 DEF BashRead, evars
<1>5. CASE LuaAppend(t)
    BY <1>5 DEF LuaAppend, evars
<1>6. CASE LuaSetMax(t)
    BY <1>6 DEF LuaSetMax, evars
<1>7. CASE LuaClear(t)
    BY <1>7 DEF LuaClear, evars
<1>8. CASE LuaSync(t)
    BY <1>8 DEF LuaSync, Sync, evars
<1>9. CASE KidDies(t)
    BY <1>9 DEF KidDies, evars
<1> QED BY <1>1, <1>2, <1>3, <1>4, <1>5, <1>6, <1>7, <1>8, <1>9
        DEF KidStep, KidCalls

\* Every step keeps the bookkeeping of the pull duration.
LEMMA BusyStep ==
    ASSUME BusyInv, [Next]_vars
    PROVE  BusyInv'
<1> USE ExecutorAssumption DEF BusyInv, Goto
<1>1. CASE Top
    BY <1>1 DEF Top
<1>2. CASE Exit
    BY <1>2 DEF Exit
<1>3. CASE PullTask \/ PullNothing
    BY <1>3 DEF PullTask, PullNothing, Slower
<1>4. CASE Check
    BY <1>4 DEF Check
<1>5. CASE Fork
    BY <1>5 DEF Fork
<1>6. CASE Cleanup
    BY <1>6, <1>2 DEF Cleanup
<1>7. CASE ExecutorDies
    BY <1>7 DEF ExecutorDies
<1>8. ASSUME NEW s \in Signals, Signal(s) PROVE BusyInv'
    BY <1>8 DEF Signal
<1>9. ASSUME NEW t \in Tasks, KidStep(t) \/ KidCalls(t) \/ KidDies(t)
      PROVE  BusyInv'
    BY <1>9, KidsLeaveLoopAlone
<1>10. CASE UNCHANGED vars
    BY <1>10 DEF vars
<1> QED BY <1>1, <1>2, <1>3, <1>4, <1>5, <1>6, <1>7, <1>8, <1>9, <1>10
        DEF Next, ExecutorStep

\* The executor polls every second for at most max_busy_count pulls in a row
\* without a task.
THEOREM BusyAlwaysBacksOff == Spec => []BusyBacksOff
<1>1. Init => BusyInv
    BY ExecutorAssumption DEF Init, BusyInv
<1>2. BusyInv /\ [Next]_vars => BusyInv'
    BY BusyStep
<1>3. BusyInv => BusyBacksOff
    BY ExecutorAssumption DEF BusyInv, BusyBacksOff
<1> QED BY <1>1, <1>2, <1>3, PTL DEF Spec

-----------------------------------------------------------------------------
\* Every step keeps the count of tasks started after STOP or EXIT.
LEMMA StopStep ==
    ASSUME StopInv, [Next]_vars
    PROVE  StopInv'
<1> USE ExecutorAssumption DEF StopInv, Goto
<1>1. CASE Top
    BY <1>1 DEF Top
<1>2. CASE Exit
    BY <1>2 DEF Exit
<1>3. CASE PullTask \/ PullNothing
    BY <1>3 DEF PullTask, PullNothing
<1>4. CASE Check
    BY <1>4 DEF Check
<1>5. CASE Fork
    BY <1>5 DEF Fork
<1>6. CASE Cleanup
    BY <1>6, <1>2 DEF Cleanup
<1>7. CASE ExecutorDies
    BY <1>7 DEF ExecutorDies
<1>8. ASSUME NEW s \in Signals, Signal(s) PROVE StopInv'
    BY <1>8 DEF Signal
<1>9. ASSUME NEW t \in Tasks, KidStep(t) \/ KidCalls(t) \/ KidDies(t)
      PROVE  StopInv'
    BY <1>9, KidsLeaveLoopAlone
<1>10. CASE UNCHANGED vars
    BY <1>10 DEF vars
<1> QED BY <1>1, <1>2, <1>3, <1>4, <1>5, <1>6, <1>7, <1>8, <1>9, <1>10
        DEF Next, ExecutorStep

\* After STOP or EXIT the executor starts at most the task it was pulling.
THEOREM AtMostOneTaskAfterStop == Spec => []OneTaskAfterStop
<1>1. Init => StopInv
    BY DEF Init, StopInv
<1>2. StopInv /\ [Next]_vars => StopInv'
    BY StopStep
<1>3. StopInv => OneTaskAfterStop
    BY DEF StopInv, OneTaskAfterStop
<1> QED BY <1>1, <1>2, <1>3, PTL DEF Spec

-----------------------------------------------------------------------------
(***************************************************************************)
(* Types, and the limit of the data.                                       *)
(***************************************************************************)

\* Where a task is looked at there is one.
TaskInv == epc \in {"check", "fork"} => task \in Tasks

\* a child may become the record r: well typed, and not beyond its limit by
\* growing
MayBecome(k, r) == r \in Kid /\ (r.len > k.len => r.len <= k.max)

\* the types of the loop's variables, and of the others, as in TypeOK
LoopType ==
    /\ epc \in {"top", "pull", "check", "fork", "cleanup", "gone"}
    /\ status \in {"READY", "RUNNING", "STOP", "EXIT"}
    /\ empty \in Nat
    /\ dur \in {"norm", "busy"}
    /\ task \in Tasks \cup {NoTask}
    /\ console \in SUBSET Tasks
    /\ quiet \in 0 .. MaxBusy + 1
    /\ late \in Nat
BudgetType == [faults : 0 .. MaxFaults, signals : 0 .. MaxSignals]
RestType ==
    /\ board \in [Tasks -> SUBSET Reports]
    /\ dropped \in SUBSET Tasks
    /\ calls \in 0 .. MaxCalls
    /\ budget \in BudgetType

\* The fields of a child and the records it can become.
LEMMA KidRecords ==
    ASSUME NEW k \in Kid
    PROVE  /\ k.len \in Nat /\ k.max \in Nat
           /\ MayBecome(k, k)
           /\ \A pc \in {"start", "run", "zombie", "reaped"} :
                  MayBecome(k, [k EXCEPT !.pc = pc])
           /\ \A e \in {0, 1} : MayBecome(k, [k EXCEPT !.pc = "report", !.errno = e])
           /\ \A pc \in {"zombie", "reaped"}, st \in Reports :
                  MayBecome(k, [k EXCEPT !.pc = pc, !.st = st])
           /\ \A n \in Nat : MayBecome(k, [k EXCEPT !.max = n])
           /\ MayBecome(k, [k EXCEPT !.len = 0])
           /\ \A n \in Nat : k.len + n <= k.max \/ n = 0
                  => MayBecome(k, [k EXCEPT !.len = @ + n])
<1>1. k.len \in Nat /\ k.max \in Nat
    BY DEF Kid
<1>2. MayBecome(k, k)
    BY <1>1 DEF MayBecome
<1>3. ASSUME NEW pc \in {"start", "run", "zombie", "reaped"}
      PROVE  MayBecome(k, [k EXCEPT !.pc = pc])
    BY <1>1 DEF MayBecome, Kid
<1>4. ASSUME NEW e \in {0, 1}
      PROVE  MayBecome(k, [k EXCEPT !.pc = "report", !.errno = e])
    <2>1. [k EXCEPT !.pc = "report", !.errno = e] \in Kid
        BY DEF Kid
    <2>2. [k EXCEPT !.pc = "report", !.errno = e].len = k.len
        BY DEF Kid
    <2> QED
        BY <1>1, <2>1, <2>2 DEF MayBecome
<1>5. ASSUME NEW pc \in {"zombie", "reaped"}, NEW st \in Reports
      PROVE  MayBecome(k, [k EXCEPT !.pc = pc, !.st = st])
    <2>1. [k EXCEPT !.pc = pc, !.st = st] \in Kid
        BY DEF Kid
    <2>2. [k EXCEPT !.pc = pc, !.st = st].len = k.len
        BY DEF Kid
    <2> QED
        BY <1>1, <2>1, <2>2 DEF MayBecome
<1>6. ASSUME NEW n \in Nat
      PROVE  MayBecome(k, [k EXCEPT !.max = n])
    BY <1>1 DEF MayBecome, Kid
<1>7. MayBecome(k, [k EXCEPT !.len = 0])
    BY <1>1 DEF MayBecome, Kid
<1>8. ASSUME NEW n \in Nat, k.len + n <= k.max \/ n = 0
      PROVE  MayBecome(k, [k EXCEPT !.len = @ + n])
    BY <1>1, <1>8 DEF MayBecome, Kid
<1> QED
    BY <1>1, <1>2, <1>3, <1>4, <1>5, <1>6, <1>7, <1>8

\* What a report makes of a child.
LEMMA SyncRecord ==
    ASSUME NEW k \in Kid, NEW pc \in {"run", "zombie", "reaped"}, NEW st \in Reports,
           NEW body \in Bodies, NEW sync \in {"ok", "failed"}, NEW told \in {"accepted", "not"}
    PROVE  MayBecome(k, [k EXCEPT !.pc = pc, !.st = st, !.body = body, !.sync = sync,
                                  !.told = told])
<1> DEFINE r == [k EXCEPT !.pc = pc, !.st = st, !.body = body, !.sync = sync,
                          !.told = told]
<1>1. r \in Kid
    BY DEF Kid
<1>2. r.len = k.len /\ k.len \in Nat
    BY DEF Kid
<1> HIDE DEF r
<1>3. MayBecome(k, r)
    BY <1>1, <1>2 DEF MayBecome
<1> QED
    BY <1>3 DEF r

\* Changing one child.
LEMMA OneKid ==
    ASSUME kid \in [Tasks -> Kid], NEW t \in Tasks, NEW r, MayBecome(kid[t], r),
           kid' = [kid EXCEPT ![t] = r]
    PROVE  kid' \in [Tasks -> Kid] /\ \A u \in Tasks : MayBecome(kid[u], kid'[u])
<1>1. r \in Kid
    BY DEF MayBecome
<1>2. ASSUME NEW u \in Tasks
      PROVE  MayBecome(kid[u], kid'[u])
    <2>1. CASE u = t
        BY <2>1
    <2>2. CASE u # t
        BY <2>2, KidRecords
    <2> QED
        BY <2>1, <2>2
<1> QED
    BY <1>1, <1>2

\* The children through every step.
LEMMA KidsMayBecome ==
    ASSUME kid \in [Tasks -> Kid], TaskInv, [Next]_vars
    PROVE  kid' \in [Tasks -> Kid] /\ \A u \in Tasks : MayBecome(kid[u], kid'[u])
<1> DEFINE Goal == kid' \in [Tasks -> Kid] /\ \A u \in Tasks : MayBecome(kid[u], kid'[u])
<1>1. CASE kid' = kid
    BY <1>1, KidRecords
<1>2. CASE kid' = Reaped
    <2>1. ASSUME NEW u \in Tasks
          PROVE  MayBecome(kid[u], Reaped[u])
        BY KidRecords DEF Reaped
    <2>2. \A u \in Tasks : Reaped[u] \in Kid
        BY <2>1 DEF MayBecome
    <2>3. Reaped \in [Tasks -> Kid]
        BY <2>2 DEF Reaped
    <2> QED
        BY <1>2, <2>1, <2>3
<1>3. CASE ExecutorStep
    <2>1. CASE Fork
        <3>1. task \in Tasks
            BY <2>1 DEF Fork, Goto, TaskInv
        <3>2. CASE kid' = [kid EXCEPT ![task].pc = "start"]
            <4>1. kid' = [kid EXCEPT ![task] = [kid[task] EXCEPT !.pc = "start"]]
                BY <3>2
            <4>2. MayBecome(kid[task], [kid[task] EXCEPT !.pc = "start"])
                BY <3>1, KidRecords
            <4> QED
                BY <3>1, <4>1, <4>2, OneKid
        <3> QED
            BY <1>1, <2>1, <3>2 DEF Fork
    <2>2. kid' = kid \/ kid' = Reaped \/ Fork
        BY <1>3 DEF ExecutorStep, Top, Exit, PullTask, PullNothing, Check, Cleanup
    <2> QED
        BY <1>1, <1>2, <2>1, <2>2
<1>4. CASE ExecutorDies
    BY <1>2, <1>4 DEF ExecutorDies
<1>5. ASSUME NEW s \in Signals, Signal(s)
      PROVE  Goal
    BY <1>1, <1>5 DEF Signal
<1>6. ASSUME NEW t \in Tasks, NEW st \in Reports, NEW pc \in {"run", "zombie", "reaped"},
             Sync(t, st, pc)
      PROVE  Goal
    <2>1. PICK http \in {"none", "200", "other"}, new \in Bodies, accepted \in BOOLEAN :
            kid' = [kid EXCEPT ![t] = Synced(kid[t], st, pc, http, new, accepted)]
        BY <1>6, Zenon DEF Sync
    <2> DEFINE body == Received(kid[t].body, new)
               sync == IF http = "200" /\ body = "ok" THEN "ok" ELSE "failed"
               told == IF accepted THEN "accepted" ELSE "not"
               r == [kid[t] EXCEPT !.pc = pc, !.st = st, !.body = body, !.sync = sync,
                                   !.told = told]
    <2>2. kid[t] \in Kid /\ kid[t].body \in Bodies
        BY DEF Kid
    <2>3. body \in Bodies /\ sync \in {"ok", "failed"} /\ told \in {"accepted", "not"}
        BY <2>2 DEF Received
    <2>4. Synced(kid[t], st, pc, http, new, accepted) = r
        BY Zenon DEF Synced
    <2> HIDE DEF body, sync, told
    <2>5. kid' = [kid EXCEPT ![t] = r]
        BY <2>1, <2>4, Zenon
    <2>6. MayBecome(kid[t], r)
        BY <2>2, <2>3, SyncRecord
    <2> QED
        BY <2>5, <2>6, OneKid
<1>7. ASSUME NEW t \in Tasks, NEW n \in Chunks, Taken(t, n)
      PROVE  Goal
    <2> DEFINE k == kid[t]
               m == Room(t, n)
    <2>1. n \in Nat /\ k \in Kid /\ k.len \in Nat /\ k.max \in Nat
        BY ExecutorAssumption, KidRecords
    <2>2. m \in Nat /\ (k.len + m <= k.max \/ m = 0)
        BY <2>1 DEF Room
    <2> HIDE DEF m
    <2>3. kid' = [kid EXCEPT ![t] = [k EXCEPT !.len = @ + m]]
        BY <1>7 DEF Taken, m
    <2>4. MayBecome(k, [k EXCEPT !.len = @ + m])
        BY <2>1, <2>2, KidRecords
    <2> QED
        BY <2>3, <2>4, OneKid
<1>8. ASSUME NEW t \in Tasks, KidCalls(t)
      PROVE  Goal
    <2>1. CASE BashRead(t) \/ LuaAppend(t)
        BY <1>7, <2>1 DEF BashRead, LuaAppend
    <2>2. CASE LuaSetMax(t)
        <3>1. PICK n \in Limits : kid' = [kid EXCEPT ![t].max = n]
            BY <2>2 DEF LuaSetMax
        <3>2. kid' = [kid EXCEPT ![t] = [kid[t] EXCEPT !.max = n]]
            BY <3>1
        <3>3. MayBecome(kid[t], [kid[t] EXCEPT !.max = n])
            BY ExecutorAssumption, KidRecords
        <3> QED
            BY <3>2, <3>3, OneKid
    <2>3. CASE LuaClear(t)
        <3>1. kid' = [kid EXCEPT ![t] = [kid[t] EXCEPT !.len = 0]]
            BY <2>3 DEF LuaClear
        <3>2. MayBecome(kid[t], [kid[t] EXCEPT !.len = 0])
            BY KidRecords
        <3> QED
            BY <3>1, <3>2, OneKid
    <2>4. CASE LuaSync(t)
        BY <1>6, <2>4 DEF LuaSync
    <2> QED
        BY <1>8, <2>1, <2>2, <2>3, <2>4 DEF KidCalls
<1>9. ASSUME NEW t \in Tasks, NEW pc \in {"run", "zombie", "reaped"},
             kid' = [kid EXCEPT ![t].pc = pc]
      PROVE  Goal
    <2>1. kid' = [kid EXCEPT ![t] = [kid[t] EXCEPT !.pc = pc]]
        BY <1>9
    <2>2. MayBecome(kid[t], [kid[t] EXCEPT !.pc = pc])
        BY KidRecords
    <2> QED
        BY <2>1, <2>2, OneKid
<1>10. ASSUME NEW t \in Tasks, KidStep(t) \/ KidDies(t)
       PROVE  Goal
    <2>1. CASE KidStart(t)
        BY <1>6, <1>9, <2>1 DEF KidStart, Reports
    <2>2. CASE KidReturn(t)
        <3>1. PICK e \in {0, 1} : kid' = [kid EXCEPT ![t].pc = "report", ![t].errno = e]
            BY <2>2 DEF KidReturn
        <3>2. kid' = [kid EXCEPT ![t] = [kid[t] EXCEPT !.pc = "report", !.errno = e]]
            BY <3>1
        <3>3. MayBecome(kid[t], [kid[t] EXCEPT !.pc = "report", !.errno = e])
            BY KidRecords
        <3> QED
            BY <3>2, <3>3, OneKid
    <2>3. CASE KidReport(t)
        <3>1. PICK st \in {"completed", "err"} :
                Sync(t, st, End) \/ kid' = [kid EXCEPT ![t].pc = End, ![t].st = st]
            BY <2>3 DEF KidReport
        <3>2. End \in {"zombie", "reaped"} /\ st \in Reports
            BY DEF End, Reports
        <3>3. CASE kid' = [kid EXCEPT ![t].pc = End, ![t].st = st]
            <4>1. kid' = [kid EXCEPT ![t] = [kid[t] EXCEPT !.pc = End, !.st = st]]
                BY <3>3
            <4>2. MayBecome(kid[t], [kid[t] EXCEPT !.pc = End, !.st = st])
                BY <3>2, KidRecords
            <4> QED
                BY <4>1, <4>2, OneKid
        <3> QED
            BY <1>6, <3>1, <3>2, <3>3
    <2>4. CASE KidDies(t)
        BY <1>9, <2>4 DEF KidDies, End
    <2> QED
        BY <1>10, <2>1, <2>2, <2>3, <2>4 DEF KidStep
<1>11. CASE UNCHANGED vars
    BY <1>1, <1>11 DEF vars
<1> QED
    BY <1>3, <1>4, <1>5, <1>8, <1>10, <1>11 DEF Next

\* The constants the types rest on.
LEMMA ExecutorConstants ==
    /\ MaxBusy \in Nat /\ MaxFaults \in Nat /\ MaxSignals \in Nat /\ MaxCalls \in Nat
    /\ Signals \subseteq {"STOP", "CONT", "EXIT"} /\ MaxLimit \in Nat
<1>1. MaxLimit \in Limits
    BY ExecutorAssumption DEF MaxLimit
<1> QED
    BY <1>1, ExecutorAssumption

\* A fault or a signal leaves the bounds well typed.
LEMMA BudgetRecords ==
    ASSUME NEW b \in BudgetType
    PROVE  /\ b.faults > 0 => [b EXCEPT !.faults = @ - 1] \in BudgetType
           /\ b.signals > 0 => [b EXCEPT !.signals = @ - 1] \in BudgetType
<1>1. b.faults \in 0 .. MaxFaults /\ b.signals \in 0 .. MaxSignals
    BY DEF BudgetType
<1>2. ASSUME b.faults > 0
      PROVE  b.faults - 1 \in 0 .. MaxFaults
    BY <1>1, <1>2, ExecutorConstants
<1>3. ASSUME b.signals > 0
      PROVE  b.signals - 1 \in 0 .. MaxSignals
    BY <1>1, <1>3, ExecutorConstants
<1> QED
    BY <1>2, <1>3 DEF BudgetType

\* The variables of the loop through every step.
LEMMA LoopStep ==
    ASSUME LoopType, TaskInv, [Next]_vars
    PROVE  LoopType' /\ TaskInv'
<1> USE DEF LoopType, TaskInv, Goto
<1>1. CASE Top
    BY <1>1 DEF Top
<1>2. CASE Exit
    BY <1>2 DEF Exit
<1>3. CASE PullTask
    BY <1>3, ExecutorConstants DEF PullTask
<1>4. CASE PullNothing
    <2>1. empty' \in Nat /\ dur' \in {"norm", "busy"}
        BY <1>4, ExecutorConstants DEF PullNothing, Slower
    <2>2. quiet' \in 0 .. MaxBusy + 1
        BY <1>4, ExecutorConstants DEF PullNothing
    <2>3. console' \subseteq console
        BY <1>4 DEF PullNothing
    <2>4. epc' = "cleanup" /\ UNCHANGED <<status, task, late>>
        BY <1>4 DEF PullNothing
    <2> QED
        BY <2>1, <2>2, <2>3, <2>4
<1>5. CASE Check
    BY <1>5 DEF Check
<1>6. CASE Fork
    BY <1>6 DEF Fork
<1>7. CASE Cleanup
    BY <1>2, <1>7 DEF Cleanup
<1>8. CASE ExecutorDies
    BY <1>8 DEF ExecutorDies
<1>9. ASSUME NEW s \in Signals, Signal(s)
      PROVE  LoopType' /\ TaskInv'
    BY <1>9, ExecutorConstants DEF Signal
<1>10. ASSUME NEW t \in Tasks, KidStep(t) \/ KidCalls(t) \/ KidDies(t)
       PROVE  LoopType' /\ TaskInv'
    <2>1. UNCHANGED <<task, console>>
        BY <1>10 DEF KidStep, KidCalls, KidDies, KidStart, KidReturn, KidReport, BashRead,
                     LuaAppend, LuaSetMax, LuaClear, LuaSync, Sync, evars
    <2> QED
        BY <1>10, <2>1, KidsLeaveLoopAlone
<1>11. CASE UNCHANGED vars
    BY <1>11 DEF vars
<1> QED
    BY <1>1, <1>2, <1>3, <1>4, <1>5, <1>6, <1>7, <1>8, <1>9, <1>10, <1>11
       DEF Next, ExecutorStep

\* The console's board, the history and the bounds through every step.
LEMMA RestStep ==
    ASSUME RestType, LoopType, TaskInv, [Next]_vars
    PROVE  RestType'
<1>1. ASSUME NEW kind, Fault(kind)
      PROVE  budget' \in BudgetType
    BY <1>1, BudgetRecords DEF Fault, RestType
<1>2. ASSUME NoFault
      PROVE  budget' \in BudgetType
    BY <1>2 DEF NoFault, RestType
<1>3. ASSUME Call
      PROVE  calls' \in 0 .. MaxCalls
    BY <1>3, ExecutorConstants DEF Call, RestType
<1>4. CASE Top \/ Exit \/ PullTask \/ Check \/ Cleanup
    BY <1>2, <1>4 DEF Top, Exit, PullTask, Check, Cleanup, RestType
<1>5. CASE PullNothing
    <2>1. budget' \in BudgetType
        BY <1>1, <1>2, <1>5 DEF PullNothing
    <2>2. dropped' = dropped \/ \E t \in console : dropped' = dropped \cup {t}
        BY <1>5 DEF PullNothing
    <2>3. dropped' \in SUBSET Tasks
        BY <2>2 DEF RestType, LoopType
    <2>4. UNCHANGED <<board, calls>>
        BY <1>5 DEF PullNothing
    <2> QED
        BY <2>1, <2>3, <2>4 DEF RestType
<1>6. CASE Fork
    <2>1. budget' \in BudgetType
        BY <1>1, <1>2, <1>6 DEF Fork
    <2>2. task \in Tasks /\ dropped' \in {dropped, dropped \cup {task}}
        BY <1>6 DEF Fork, Goto, TaskInv
    <2>3. UNCHANGED <<board, calls>>
        BY <1>6 DEF Fork
    <2> QED
        BY <2>1, <2>2, <2>3 DEF RestType
<1>7. CASE ExecutorDies
    <2>1. budget' \in BudgetType
        BY <1>1, <1>7 DEF ExecutorDies
    <2>2. dropped' \in SUBSET Tasks
        BY <1>7 DEF ExecutorDies, TaskInv, RestType
    <2>3. UNCHANGED <<board, calls>>
        BY <1>7 DEF ExecutorDies
    <2> QED
        BY <2>1, <2>2, <2>3 DEF RestType
<1>8. ASSUME NEW s \in Signals, Signal(s)
      PROVE  RestType'
    <2>1. budget' \in BudgetType
        BY <1>8, BudgetRecords DEF Signal, RestType
    <2> QED
        BY <1>8, <2>1 DEF Signal, RestType
<1>9. ASSUME NEW t \in Tasks, NEW st \in Reports, NEW pc, Sync(t, st, pc)
      PROVE  /\ board' \in [Tasks -> SUBSET Reports] /\ dropped' \in SUBSET Tasks
             /\ budget' \in BudgetType
    <2>1. budget' \in BudgetType
        BY <1>1, <1>2, <1>9 DEF Sync
    <2>2. board' = [board EXCEPT ![t] = @ \cup {st}] \/ board' = board
        <3>1. board' = [board EXCEPT ![t] = @ \cup {st}] \/ board' = [board EXCEPT ![t] = @]
            BY <1>9 DEF Sync
        <3>2. board = [board EXCEPT ![t] = @]
            BY DEF RestType
        <3> QED
            BY <3>1, <3>2
    <2>3. board' \in [Tasks -> SUBSET Reports]
        BY <2>2 DEF RestType
    <2>4. dropped' \in {dropped, dropped \cup {t}}
        BY <1>9 DEF Sync
    <2> QED
        BY <2>1, <2>3, <2>4 DEF RestType
<1>10. ASSUME NEW t \in Tasks, KidStart(t) \/ KidReport(t)
       PROVE  RestType'
    <2>1. PICK st \in Reports, pc \in {"run", End} :
            Sync(t, st, pc) \/ (NoFault /\ UNCHANGED <<board, dropped>>)
        BY <1>10 DEF KidStart, KidReport, Reports
    <2>2. UNCHANGED calls
        BY <1>10 DEF KidStart, KidReport
    <2>3. CASE Sync(t, st, pc)
        BY <1>9, <2>2, <2>3 DEF RestType
    <2>4. CASE NoFault /\ UNCHANGED <<board, dropped>>
        BY <1>2, <2>2, <2>4 DEF RestType
    <2> QED
        BY <2>1, <2>3, <2>4
<1>11. ASSUME NEW t \in Tasks, KidReturn(t)
       PROVE  RestType'
    <2>1. budget' \in BudgetType
        BY <1>1, <1>2, <1>11 DEF KidReturn
    <2> QED
        BY <1>11, <2>1 DEF KidReturn, RestType
<1>12. ASSUME NEW t \in Tasks, BashRead(t) \/ LuaAppend(t) \/ LuaSetMax(t) \/ LuaClear(t)
       PROVE  RestType'
    <2>1. Call /\ NoFault /\ UNCHANGED <<board, dropped>>
        BY <1>12 DEF BashRead, LuaAppend, LuaSetMax, LuaClear
    <2> QED
        BY <1>2, <1>3, <2>1 DEF RestType
<1>13. ASSUME NEW t \in Tasks, LuaSync(t)
       PROVE  RestType'
    BY <1>3, <1>9, <1>13 DEF LuaSync, RestType
<1>14. ASSUME NEW t \in Tasks, KidDies(t)
       PROVE  RestType'
    <2>1. budget' \in BudgetType
        BY <1>1, <1>14 DEF KidDies
    <2> QED
        BY <1>14, <2>1 DEF KidDies, RestType
<1>15. CASE UNCHANGED vars
    BY <1>15 DEF vars, RestType
<1>16. ASSUME NEW t \in Tasks, KidStep(t) \/ KidCalls(t) \/ KidDies(t)
       PROVE  RestType'
    BY <1>10, <1>11, <1>12, <1>13, <1>14, <1>16 DEF KidStep, KidCalls
<1> QED
    BY <1>4, <1>5, <1>6, <1>7, <1>8, <1>15, <1>16 DEF Next, ExecutorStep

\* all of the types, with the task that is looked at
ExecutorInv == LoopType /\ RestType /\ kid \in [Tasks -> Kid] /\ TaskInv

\* The executor starts well typed (sarah_executor_init).
LEMMA ExecutorInvInit == Init => ExecutorInv
<1> SUFFICES ASSUME Init
             PROVE  ExecutorInv
    OBVIOUS
<1>1. LoopType /\ TaskInv
    BY ExecutorConstants DEF Init, LoopType, TaskInv
<1>2. NewKid \in Kid
    BY ExecutorConstants DEF NewKid, Kid, Bodies
<1>3. kid \in [Tasks -> Kid]
    BY <1>2 DEF Init
<1>4. budget \in BudgetType
    BY ExecutorConstants DEF Init, BudgetType
<1>5. RestType
    BY <1>4, ExecutorConstants DEF Init, RestType
<1> QED
    BY <1>1, <1>3, <1>5 DEF ExecutorInv

LEMMA ExecutorInvStep == ExecutorInv /\ [Next]_vars => ExecutorInv'
    BY LoopStep, RestStep, KidsMayBecome DEF ExecutorInv

\* Every reachable state of the executor, its children and the console is well
\* typed.
THEOREM ExecutorTypeCorrect == Spec => []TypeOK
<1>1. ExecutorInv => TypeOK
    BY DEF ExecutorInv, LoopType, RestType, BudgetType, TypeOK
<1> QED
    BY <1>1, ExecutorInvInit, ExecutorInvStep, PTL DEF Spec

\* No call of the executor API takes the data beyond the limit in force, for
\* any lengths and limits: LimitHolds of sarah_executor_data_append.
THEOREM LimitAlwaysHolds == Spec => LimitHolds
<1> DEFINE Grows == \A t \in Tasks : kid'[t].len > kid[t].len => kid'[t].len <= kid[t].max
<1>1. ExecutorInv /\ [Next]_vars => [Grows]_vars
    BY KidsMayBecome DEF ExecutorInv, MayBecome
<1>2. LimitHolds <=> [][Grows]_vars
    BY DEF LimitHolds
<1> HIDE DEF Grows
<1> QED
    BY <1>1, <1>2, ExecutorInvInit, ExecutorInvStep, PTL DEF Spec
=============================================================================
