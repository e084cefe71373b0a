------------------------------ MODULE Executor ------------------------------
(***************************************************************************)
(* The task executor: main/app_executor.c pulls tasks from the console and *)
(* forks a child for each, main/executor.c holds what a child collects and *)
(* reports it, script_bash.c, script_lua.c and lib_executor.c run its      *)
(* script.                                                                 *)
(*                                                                         *)
(* The executor and its children share nothing after the fork; they meet   *)
(* at the console, in waitpid() and in the signals that stop or end the    *)
(* executor but not its children.  A task is a model value with its        *)
(* attributes as constants, a data buffer is its length, a response is     *)
(* what cJSON_Parse makes of it.                                           *)
(***************************************************************************)
EXTENDS Integers

CONSTANTS
    Tasks,      \* the tasks the console has
    NoTask,     \* NULL
    Signed,     \* those whose signature is right
    Engine,     \* task->engine
    Mask,       \* task->sync_mask
    MaxBusy,    \* max_busy_count
    Limits,     \* max_datalen: the limits a script may set
    Chunks,     \* the lengths of what a script appends
    Signals,    \* the signals sent to the executor
    FaultKinds, \* the kinds of faults of this instance
    MaxFaults,  \* bound: faults
    MaxSignals, \* bound: signals
    MaxCalls    \* bound: calls of the executor API by the scripts

Engines   == {"bash", "lua", "sarah"}
SyncBits  == {"err", "start", "completed"}
AllFaults == {"pull",    \* a pull fails; the task it was to get may be lost
              "fork",    \* fork() fails
              "crash",   \* the executor or a child dies
              "script",  \* popen() fails or the script ends in an error
              "request", \* a report does not reach the console
              "http",    \* the console answers other than 200, or not JSON
              "refuse"}  \* the console refuses a report

ASSUME ExecutorAssumption ==
    /\ NoTask \notin Tasks
    /\ Signed \subseteq Tasks
    /\ Engine \in [Tasks -> Engines \cup {"other"}]
    /\ Mask \in [Tasks -> SUBSET SyncBits]
    /\ MaxBusy \in Nat
    /\ Limits \subseteq Nat
    /\ \E n \in Limits : \A m \in Limits : m <= n
    /\ Chunks \subseteq Nat \ {0}
    /\ Signals \subseteq {"STOP", "CONT", "EXIT"}
    /\ FaultKinds \subseteq AllFaults
    /\ MaxFaults \in Nat /\ MaxSignals \in Nat /\ MaxCalls \in Nat

VARIABLES
    epc,     \* where the executor is in its loop
    status,  \* booter->status in the executor process
    empty,   \* empty_count
    dur,     \* pull_duration_sec
    task,    \* task
    console, \* tasks the console has not handed out yet
    kid,     \* the child of each task, with its copy of the executor entry
    board,   \* the reports the console has accepted, by task
    quiet,   \* history: pulls without a task since the last one with
    late,    \* history: tasks started since STOP or EXIT was handled
    dropped, \* history: tasks given up for a fault
    calls,   \* calls of the executor API left to the scripts
    budget   \* what is left of the other bounds

evars == <<epc, status, empty, dur, task, console, quiet, late>>
vars  == <<epc, status, empty, dur, task, console, quiet, late, kid, board,
           dropped, calls, budget>>

Reports == {"executing", "completed", "err"}
Bodies  == {"empty", "ok", "no", "junk"}
Kid == [pc : {"none", "start", "run", "report", "zombie", "reaped"},
        errno : {0, 1},   \* what dostring() returned
        st : Reports \cup {"ready"},
        len : Nat,        \* data_buffer.size
        max : Nat,        \* max_datalen
        body : Bodies,    \* what cJSON_Parse finds in res_buffer
        sync : {"never", "ok", "failed"},       \* the last sync_errno
        told : {"never", "accepted", "not"}]    \* what the console made of it

\* sarah_executor_init; the default limit is the largest
MaxLimit == CHOOSE n \in Limits : \A m \in Limits : m <= n
NewKid == [pc |-> "none", errno |-> 0, st |-> "ready", len |-> 0, max |-> MaxLimit,
           body |-> "empty", sync |-> "never", told |-> "never"]

TypeOK ==
    /\ epc \in {"top", "pull", "check", "fork", "cleanup", "gone"}
    /\ status \in {"READY", "RUNNING", "STOP", "EXIT"}
    /\ empty \in Nat
    /\ dur \in {"norm", "busy"}
    /\ task \in Tasks \cup {NoTask}
    /\ console \in SUBSET Tasks
    /\ kid \in [Tasks -> Kid]
    /\ board \in [Tasks -> SUBSET Reports]
    /\ quiet \in 0 .. MaxBusy + 1
    /\ late \in Nat
    /\ dropped \in SUBSET Tasks
    /\ calls \in 0 .. MaxCalls
    /\ budget \in [faults : 0 .. MaxFaults, signals : 0 .. MaxSignals]

Fault(kind) ==
    /\ kind \in FaultKinds
    /\ budget.faults > 0
    /\ budget' = [budget EXCEPT !.faults = @ - 1]
NoFault == UNCHANGED budget

Goto(from, to) == epc = from /\ epc' = to

-----------------------------------------------------------------------------
(***************************************************************************)
(* The executor.                                                           *)
(***************************************************************************)

\* init inherits the zombies of an executor that is gone
Reaped == [t \in Tasks |-> IF kid[t].pc = "zombie"
                           THEN [kid[t] EXCEPT !.pc = "reaped"] ELSE kid[t]]

\* the head of the loop: EXIT, STOP
Exit ==
    /\ status = "EXIT"
    /\ epc' = "gone"
    /\ task' = NoTask
    /\ kid' = Reaped
    /\ UNCHANGED <<status, empty, dur, console, board, quiet, late, dropped, calls,
                   budget>>

\* (mutant) STOP is not checked
Top_NoStop ==
    /\ Goto("top", "pull")
    /\ status # "EXIT"
    /\ kid' = Reaped
    /\ UNCHANGED <<status, empty, dur, task, console, board, quiet, late, dropped,
                   calls, budget>>

\* (mutant) the children are not waited for
Top_NoWait ==
    /\ Goto("top", "pull")
    /\ status \notin {"EXIT", "STOP"}
    /\ UNCHANGED <<status, empty, dur, task, console, kid, board, quiet, late,
                   dropped, calls, budget>>

\* A pass of the loop starts: clear the executor entry and reap every child
\* that has ended.
Top ==
    /\ Goto("top", "pull")
    /\ status \notin {"EXIT", "STOP"}
    /\ kid' = Reaped
    /\ UNCHANGED <<status, empty, dur, task, console, board, quiet, late, dropped,
                   calls, budget>>

\* (mutant) the counter wraps without going back to the normal duration
Slower_CounterOnly ==
    /\ empty' = IF empty >= MaxBusy THEN 0 ELSE empty + 1
    /\ UNCHANGED dur

\* a pull without a task: after max_busy_count of them go back to the normal
\* duration; empty_count keeps its value when a task is found
Slower ==
    /\ empty' = IF empty >= MaxBusy THEN 0 ELSE empty + 1
    /\ dur' = IF empty >= MaxBusy THEN "norm" ELSE dur

\* _pull_remote_task gets a task
PullTask ==
    /\ Goto("pull", "check")
    /\ \E t \in console : task' = t /\ console' = console \ {t}
    /\ quiet' = 0
    /\ NoFault
    /\ UNCHANGED <<status, empty, dur, kid, board, late, dropped, calls>>

\* A pull without a task: the console has none, the request fails, or what the
\* console sent is not a task (sarah_task_init_from_json), which is then lost.
PullNothing ==
    /\ Goto("pull", "cleanup")
    /\ Slower
    /\ quiet' = IF quiet > MaxBusy THEN quiet ELSE quiet + 1
    /\ \/ console = {} /\ NoFault /\ UNCHANGED <<console, dropped>>
       \/ Fault("pull") /\ UNCHANGED <<console, dropped>>
       \/ \E t \in console : /\ Fault("pull")
                             /\ console' = console \ {t}
                             /\ dropped' = dropped \cup {t}
    /\ UNCHANGED <<status, task, kid, board, late, calls>>

\* sarah_task_validity: md5 of node id, command, engine and creation time
Valid(t) == t \in Signed

\* the busy duration and the choice of the engine, for a valid task
Check ==
    /\ \/ /\ ~Valid(task)
          /\ Goto("check", "cleanup")
          /\ UNCHANGED dur
       \/ /\ Valid(task)
          /\ Goto("check", IF Engine[task] \in Engines THEN "fork" ELSE "cleanup")
          /\ dur' = "busy"
    /\ UNCHANGED <<status, empty, task, console, kid, board, quiet, late, dropped,
                   calls, budget>>

\* fork(): a failure is printed and the task is given up
Fork ==
    /\ Goto("fork", "cleanup")
    /\ \/ /\ kid' = [kid EXCEPT ![task].pc = "start"]
          /\ late' = IF status \in {"STOP", "EXIT"} THEN late + 1 ELSE late
          /\ NoFault
          /\ UNCHANGED dropped
       \/ /\ Fault("fork")
          /\ dropped' = dropped \cup {task}
          /\ UNCHANGED <<kid, late>>
    /\ UNCHANGED <<status, empty, dur, task, console, board, quiet, calls>>

\* free_task_entry, the EXIT check and the sleep
Cleanup ==
    /\ epc = "cleanup"
    /\ \/ Exit
       \/ /\ status # "EXIT"
          /\ epc' = "top"
          /\ task' = NoTask
          /\ UNCHANGED <<status, empty, dur, console, kid, board, quiet, late,
                         dropped, calls, budget>>

ExecutorStep ==
    Top \/ (epc = "top" /\ Exit) \/ PullTask \/ PullNothing \/ Check \/ Fork \/ Cleanup

\* The executor dies: killed, or by a response without "errno", which
\* _pull_remote_task dereferences.
ExecutorDies ==
    /\ epc # "gone"
    /\ Fault("crash")
    /\ epc' = "gone"
    /\ task' = NoTask
    /\ kid' = Reaped
    /\ dropped' = IF epc \in {"check", "fork"} THEN dropped \cup {task} ELSE dropped
    /\ UNCHANGED <<status, empty, dur, console, board, quiet, late, calls>>

\* (mutant) the handler stores the signal itself
Signal_Raw(s) ==
    /\ epc # "gone"
    /\ budget.signals > 0
    /\ budget' = [budget EXCEPT !.signals = @ - 1]
    /\ status' = s
    /\ late' = IF s = "CONT" THEN 0 ELSE late
    /\ UNCHANGED <<epc, empty, dur, task, console, kid, board, quiet, dropped,
                   calls>>

\* _signal_handler in the executor process
Signal(s) ==
    /\ epc # "gone"
    /\ budget.signals > 0
    /\ budget' = [budget EXCEPT !.signals = @ - 1]
    /\ status' = IF s = "CONT" THEN "RUNNING" ELSE s
    /\ late' = IF s = "CONT" THEN 0 ELSE late
    /\ UNCHANGED <<epc, empty, dur, task, console, kid, board, quiet, dropped,
                   calls>>

-----------------------------------------------------------------------------
(***************************************************************************)
(* A child.                                                                *)
(***************************************************************************)

At(t, pc) == kid[t].pc = pc

\* the end of a child: a zombie until the executor, or init, waits for it
End == IF epc = "gone" THEN "reaped" ELSE "zombie"

\* _post_recv_callback appends to res_buffer, which nothing clears: the JSON
\* that cJSON_Parse finds is the one received first
Received(old, new) == IF old = "empty" THEN new ELSE old

\* The child k after a report: its result is what the HTTP status and the
\* first answer say, whatever the console made of the report.
Synced(k, st, pc, http, new, accepted) ==
    LET body == Received(k.body, new)
    IN  [k EXCEPT !.pc = pc, !.st = st, !.body = body,
                  !.sync = IF http = "200" /\ body = "ok" THEN "ok" ELSE "failed",
                  !.told = IF accepted THEN "accepted" ELSE "not"]

\* sarah_executor_sync_status with status st, after which the child is at pc:
\* the request may get lost, before or after the console has seen it, the
\* console may answer with an error page, something that is not JSON, a
\* refusal, or accept
Sync(t, st, pc) ==
    /\ \E http \in {"none", "200", "other"}, new \in Bodies, accepted \in BOOLEAN :
        /\ \/ http = "none" /\ new \in {"empty", "junk"} /\ Fault("request")
           \/ http = "other" /\ new \in {"empty", "junk"} /\ ~accepted /\ Fault("http")
           \/ http = "200" /\ new \in {"empty", "junk"} /\ Fault("http")
           \/ http = "200" /\ new = "no" /\ ~accepted /\ Fault("refuse")
           \/ http = "200" /\ new = "ok" /\ accepted /\ NoFault
        /\ kid' = [kid EXCEPT ![t] = Synced(kid[t], st, pc, http, new, accepted)]
        /\ board' = [board EXCEPT ![t] = IF accepted THEN @ \cup {st} ELSE @]
        /\ dropped' = IF accepted \/ pc = "run" THEN dropped
                      ELSE dropped \cup {t}
    /\ UNCHANGED evars

\* the first thing a child does: report, if the mask asks for it
KidStart(t) ==
    /\ At(t, "start")
    /\ \/ "start" \in Mask[t] /\ Sync(t, "executing", "run")
       \/ /\ "start" \notin Mask[t]
          /\ kid' = [kid EXCEPT ![t].pc = "run"]
          /\ NoFault
          /\ UNCHANGED <<evars, board, dropped>>
    /\ UNCHANGED calls

Call == calls > 0 /\ calls' = calls - 1

\* (mutant) the length is not cut at the limit
Room_Whole(t, n) == IF kid[t].len >= kid[t].max THEN 0 ELSE n

\* sarah_executor_data_append and data_insert: how much of n is taken
Room(t, n) ==
    IF kid[t].len >= kid[t].max THEN 0
    ELSE IF kid[t].len + n > kid[t].max THEN kid[t].max - kid[t].len ELSE n

Taken(t, n) == kid' = [kid EXCEPT ![t].len = @ + Room(t, n)]

\* script_bash_dostring reads a line of the command's output; at the limit it
\* keeps reading
BashRead(t) ==
    /\ At(t, "run") /\ Engine[t] = "bash"
    /\ Call
    /\ \E n \in Chunks : Taken(t, n)
    /\ NoFault
    /\ UNCHANGED <<evars, board, dropped>>

\* executor.appendData, and insertData with an index up to the end
LuaAppend(t) ==
    /\ At(t, "run") /\ Engine[t] = "lua"
    /\ Call
    /\ \E n \in Chunks : Taken(t, n)
    /\ NoFault
    /\ UNCHANGED <<evars, board, dropped>>

\* executor.setMaxDataLen
LuaSetMax(t) ==
    /\ At(t, "run") /\ Engine[t] = "lua"
    /\ Call
    /\ \E n \in Limits : kid' = [kid EXCEPT ![t].max = n]
    /\ NoFault
    /\ UNCHANGED <<evars, board, dropped>>

\* executor.clearData
LuaClear(t) ==
    /\ At(t, "run") /\ Engine[t] = "lua"
    /\ Call
    /\ kid' = [kid EXCEPT ![t].len = 0]
    /\ NoFault
    /\ UNCHANGED <<evars, board, dropped>>

\* executor.setStatus, then syncStatus
LuaSync(t) ==
    /\ At(t, "run") /\ Engine[t] = "lua"
    /\ Call
    /\ \E st \in Reports : Sync(t, st, "run")

\* dostring() returns: popen() failed or luaL_loadstring, lua_pcall did
KidReturn(t) ==
    /\ At(t, "run")
    /\ \E e \in {0, 1} :
        /\ IF e = 0 THEN NoFault ELSE Engine[t] # "sarah" /\ Fault("script")
        /\ kid' = [kid EXCEPT ![t].pc = "report", ![t].errno = e]
    /\ UNCHANGED <<evars, calls, board, dropped>>

\* (mutant) the final report looks at the bit of the start report
KidReport_StartBit(t) ==
    /\ At(t, "report")
    /\ LET st == IF kid[t].errno = 0 THEN "completed" ELSE "err" IN
       \/ "start" \in Mask[t] /\ Sync(t, st, End)
       \/ /\ "start" \notin Mask[t]
          /\ kid' = [kid EXCEPT ![t].pc = End, ![t].st = st]
          /\ NoFault
          /\ UNCHANGED <<evars, board, dropped>>
    /\ UNCHANGED calls

\* the final status, reported if the mask asks for it, and the child's end
KidReport(t) ==
    /\ At(t, "report")
    /\ LET st == IF kid[t].errno = 0 THEN "completed" ELSE "err" IN
       \/ st \in Mask[t] /\ Sync(t, st, End)
       \/ /\ st \notin Mask[t]
          /\ kid' = [kid EXCEPT ![t].pc = End, ![t].st = st]
          /\ NoFault
          /\ UNCHANGED <<evars, board, dropped>>
    /\ UNCHANGED calls

KidStep(t) == KidStart(t) \/ KidReturn(t) \/ KidReport(t)
KidCalls(t) ==
    BashRead(t) \/ LuaAppend(t) \/ LuaSetMax(t) \/ LuaClear(t) \/ LuaSync(t)

KidDies(t) ==
    /\ kid[t].pc \in {"start", "run", "report"}
    /\ Fault("crash")
    /\ kid' = [kid EXCEPT ![t].pc = End]
    /\ dropped' = dropped \cup {t}
    /\ UNCHANGED <<evars, calls, board>>

-----------------------------------------------------------------------------
Init ==
    /\ epc = "top" /\ status = "READY"
    /\ empty = 0 /\ dur = "norm"
    /\ task = NoTask
    /\ console = Tasks
    /\ kid = [t \in Tasks |-> NewKid]
    /\ board = [t \in Tasks |-> {}]
    /\ quiet = 0 /\ late = 0 /\ dropped = {}
    /\ calls = MaxCalls
    /\ budget = [faults |-> MaxFaults, signals |-> MaxSignals]

Next ==
    \/ ExecutorStep
    \/ ExecutorDies
    \/ \E s \in Signals : Signal(s)
    \/ \E t \in Tasks : KidStep(t) \/ KidCalls(t) \/ KidDies(t)

\* Processes are scheduled, and scripts, requests (10 seconds each) and sleeps
\* come to an end.
Fairness == WF_vars(ExecutorStep) /\ \A t \in Tasks : WF_vars(KidStep(t))

Spec     == Init /\ [][Next]_vars
FairSpec == Spec /\ Fairness

-----------------------------------------------------------------------------
(***************************************************************************)
(* Properties.                                                             *)
(***************************************************************************)

\* The executor polls every second only while tasks keep coming: after
\* max_busy_count pulls without one it is back at the normal duration, however
\* pulls with and without a task, valid or not, alternate.
BusyBacksOff == dur = "busy" => quiet <= MaxBusy

\* A stopped or ending executor starts at most the one task it was pulling
\* when the signal came.
OneTaskAfterStop == late <= 1

\* What a script appends or inserts never takes the data beyond the limit in
\* force, also after the limit was lowered below what is there.
LimitHolds ==
    [][\A t \in Tasks : kid'[t].len > kid[t].len => kid'[t].len <= kid[t].max]_vars

Reported(t) == board[t] \cap {"completed", "err"} # {}

\* A signed task of a known engine whose mask asks for its result is reported
\* to the console, even when the executor is stopped or ends while it runs,
\* unless a fault made away with it.
TaskReported ==
    \A t \in Signed :
        Engine[t] \in Engines /\ {"completed", "err"} \subseteq Mask[t] =>
            (task = t ~> (Reported(t) \/ t \in dropped))

\* A child that has ended is reaped, unless the executor is stopped.
ZombiesReaped ==
    \A t \in Tasks : At(t, "zombie") ~> (~At(t, "zombie") \/ status = "STOP")

\* "int 0 for succeed and none 0 for failed": sarah_executor_sync_status
\* succeeds only if the console has accepted the report.
SyncReturnsOutcome == \A t \in Tasks : kid[t].sync = "ok" => kid[t].told = "accepted"
=============================================================================
