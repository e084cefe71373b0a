----------------------------- MODULE Collector ------------------------------
(***************************************************************************)
(* The collector of main/app_collector.c: every pass gathers the machine's *)
(* data, compares two samples of the counters of /proc/stat and            *)
(* /proc/net/dev, posts the report and takes the first sample of the next  *)
(* pass before it sleeps.                                                  *)
(*                                                                         *)
(* The counters move, interfaces come and go, and signals arrive while the *)
(* collector runs.  An interface has one counter, its received bytes; of   *)
(* the CPU the busy (user, nice, system) and the idle time are kept.       *)
(***************************************************************************)
EXTENDS StrBuff, FiniteSets, SequencesExt

CONSTANTS
    Interfaces,
    Rx0,        \* the counter of an interface that is there at first
    Cpu0,       \* the CPU times at first
    Wrap,       \* 2^w, the width of the counters
    Opacity,    \* the receive buffer's first size, 256 in the code
    Chunks,     \* what the transfer may hand over at once
    MaxBody,    \* bound: bytes of an answer
    Ghost,      \* the ghost build: stopped at first, and the parent is watched
    Signals,
    FaultKinds, MaxFaults, MaxTicks, MaxChanges, MaxSignals

AllFaults == {"init",     \* sarah_collector_init cannot allocate
              "stat",     \* /proc/stat cannot be read
              "net",      \* /proc/net/dev cannot be read
              "curl",     \* there is no curl handle
              "alloc",    \* the receive buffer cannot be resized
              "request"}  \* the request fails or the code is not 200
CpuTime == [busy : 0 .. Wrap - 1, idle : 0 .. Wrap - 1]

ASSUME CollectorAssumption ==
    /\ IsFiniteSet(Interfaces)
    /\ Wrap \in Nat \ {0}
    /\ Rx0 \in 0 .. Wrap - 1 /\ Cpu0 \in CpuTime
    /\ Opacity \in Nat \ {0}
    /\ Chunks \subseteq Seq(Bytes)
    /\ Ghost \in BOOLEAN
    /\ Signals \subseteq {"STOP", "CONT", "EXIT"}
    /\ FaultKinds \subseteq AllFaults
    /\ MaxFaults \in Nat /\ MaxTicks \in Nat /\ MaxChanges \in Nat
    /\ MaxSignals \in Nat /\ MaxBody \in Nat

VARIABLES
    cpc,       \* where the collector is in its loop
    status,    \* booter->status
    togo,      \* stat_to_go
    gathered,  \* the CPU, disk and process lists hold entries
    cpu1, cpu2,   \* cpu_time_r1, cpu_time_r2
    l1, l2,    \* net_stat_l1, net_stat_l2
    bands,     \* bandwidth_list
    json,      \* json_string, until it is handed to curl
    buf,       \* collector.strbuff
    nics,      \* the interfaces, in the kernel's order
    rx, cpu,   \* the kernel's counters
    orphan,    \* the booter is gone
    received,  \* history: what this request delivered
    since,     \* history: bytes of each interface since l1 was filled
    odd,       \* history: what happened since cpu1 and l1 were taken
    budget     \* what is left of the bounds

lists  == <<gathered, l1, l2, bands>>
app    == <<cpc, togo, lists, cpu1, cpu2, json, buf, received>>
kernel == <<nics, rx, cpu, orphan, status>>
vars   == <<app, kernel, since, odd, budget>>

None     == <<>>      \* no report, or a CPU time that was never read
Oddities == {"changed", "wrapped", "unread", "lost"}
NetStat  == [device : Interfaces, receive : 0 .. Wrap - 1]
Band     == [name : Interfaces, incoming : 0 .. Wrap - 1]
Ratio    == Int \X Int

TypeOK ==
    /\ cpc \in {"init", "top", "gather", "round1", "round2", "package",
                "upload", "request", "parse", "again", "clean", "end"}
    /\ status \in {"READY", "RUNNING", "STOP", "EXIT"}
    /\ togo \in BOOLEAN /\ gathered \in BOOLEAN /\ orphan \in BOOLEAN
    /\ cpu1 \in CpuTime \cup {None} /\ cpu2 \in CpuTime \cup {None}
    /\ l1 \in Seq(NetStat) /\ l2 \in Seq(NetStat)
    /\ bands \in Seq(Band)
    /\ json \in [bands : Seq(Band), load : Ratio] \cup {None}
    /\ buf \in Buffer
    /\ nics \in Seq(Interfaces)
    /\ rx \in [Interfaces -> 0 .. Wrap - 1] /\ cpu \in CpuTime
    /\ received \in Seq(Bytes)
    /\ since \in [Interfaces -> Nat]
    /\ odd \subseteq Oddities
    /\ budget \in [faults : 0 .. MaxFaults, ticks : 0 .. MaxTicks,
                   changes : 0 .. MaxChanges, signals : 0 .. MaxSignals]

Goto(from, to) == cpc = from /\ cpc' = to

Spend(what) ==
    /\ budget[what] > 0
    /\ budget' = [budget EXCEPT ![what] = @ - 1]
Fault(kind) == kind \in FaultKinds /\ Spend("faults")

-----------------------------------------------------------------------------
(***************************************************************************)
(* The samples and what is computed from them.                             *)
(***************************************************************************)

\* sarah_get_net_stat: one entry per line, appended to what the list holds
Sampled(l) ==
    l \o [k \in DOMAIN nics |-> [device |-> nics[k], receive |-> rx[nics[k]]]]

\* sarah_get_cpu_time fails: the time stays as it was, and may be anything when
\* it was never read
Unread(time) == IF time = None THEN CpuTime ELSE {time}

\* the first sample: cpu_time_r1 and net_stat_l1
TakeFirst ==
    \/ /\ cpu1' = cpu /\ l1' = Sampled(l1)
       /\ since' = [i \in Interfaces |-> 0]
       /\ odd' = odd \cap {"lost"}
       /\ UNCHANGED budget
    \/ /\ Fault("stat")
       /\ cpu1' \in Unread(cpu1)
       /\ l1' = Sampled(l1)
       /\ since' = [i \in Interfaces |-> 0]
       /\ odd' = (odd \ {"changed"}) \cup {"unread"}
    \/ /\ Fault("net")
       /\ cpu1' = cpu
       /\ odd' = odd \ {"wrapped", "unread"}
       /\ UNCHANGED <<l1, since>>

\* (mutant) the quotient is upside down
Occupy_Swapped(s1, s2) ==
    LET total(s) == (s.busy + s.idle) % Wrap
    IN  IF total(s2) = total(s1) THEN <<0, 0>>
        ELSE <<total(s2) - total(s1), s2.busy - s1.busy>>

\* sarah_cal_cpu_occupy: sums of unsigned int, then a quotient of differences
Occupy(s1, s2) ==
    LET total(s) == (s.busy + s.idle) % Wrap
    IN  IF total(s2) = total(s1) THEN <<0, 0>>
        ELSE <<s2.busy - s1.busy, total(s2) - total(s1)>>

\* _cal_bandwidth_stat pairs the two lists by position up to the end of the
\* shorter one.  The differences are unsigned; the report names the interface
\* of the first sample.  Their division by cost_secs, a double that is read off
\* the clock, is left out: it cannot trap, and no step depends on its result.
CalBandwidthStat(s1, s2) ==
    [k \in DOMAIN Zip(s1, s2) |->
        [name     |-> s1[k].device,
         incoming |-> (s2[k].receive - s1[k].receive) % Wrap]]

\* _make_json_package, of which the statistics are kept
JsonPackage(bandwidth, occupy) == [bands |-> bandwidth, load |-> occupy]

-----------------------------------------------------------------------------
(***************************************************************************)
(* The loop of sarah_collector_application.                                *)
(***************************************************************************)
Start ==
    /\ \/ Goto("init", "top") /\ UNCHANGED budget
          /\ status' = IF Ghost THEN "STOP" ELSE status
       \/ Goto("init", "end") /\ Fault("init") /\ UNCHANGED status
    /\ UNCHANGED <<togo, lists, cpu1, cpu2, json, buf, received, nics, rx, cpu,
                   orphan, since, odd>>

\* (mutant) nobody looks at the parent
Top_NoParent ==
    /\ status # "STOP"
    /\ Goto("top", IF status = "EXIT" THEN "clean" ELSE "gather")
    /\ UNCHANGED <<togo, lists, cpu1, cpu2, json, buf, received, kernel, since, odd,
                   budget>>

\* (mutant) an orphan goes round instead of leaving
Top_OrphanLoops ==
    /\ status # "STOP"
    /\ status = "EXIT" \/ ~(Ghost /\ orphan)
    /\ Goto("top", IF status = "EXIT" THEN "clean" ELSE "gather")
    /\ UNCHANGED <<togo, lists, cpu1, cpu2, json, buf, received, kernel, since, odd,
                   budget>>

\* EXIT leaves; under STOP the loop only sleeps, and comes back before the
\* parent is looked at
Top ==
    /\ status # "STOP"
    /\ Goto("top", IF status = "EXIT" \/ (Ghost /\ orphan) THEN "clean" ELSE "gather")
    /\ UNCHANGED <<togo, lists, cpu1, cpu2, json, buf, received, kernel, since, odd,
                   budget>>

Gather ==
    /\ Goto("gather", IF togo THEN "round2" ELSE "round1")
    /\ gathered' = TRUE
    /\ UNCHANGED <<togo, l1, l2, bands, cpu1, cpu2, json, buf, received, kernel,
                   since, odd, budget>>

\* the first sample of the first pass, then a second of sleep
Round1 ==
    /\ Goto("round1", "round2")
    /\ TakeFirst
    /\ UNCHANGED <<togo, gathered, l2, bands, cpu2, json, buf, received, kernel>>

\* the second sample and the rates
Round2 ==
    /\ Goto("round2", "package")
    /\ \/ /\ cpu2' = cpu /\ l2' = Sampled(l2)
          /\ UNCHANGED <<odd, budget>>
       \/ /\ Fault("stat")
          /\ cpu2' \in Unread(cpu2)
          /\ l2' = Sampled(l2)
          /\ odd' = odd \cup {"unread"}
       \/ /\ Fault("net")
          /\ cpu2' = cpu
          /\ UNCHANGED <<l2, odd>>
    /\ bands' = bands \o CalBandwidthStat(l1, l2')
    /\ UNCHANGED <<togo, gathered, l1, cpu1, json, buf, received, kernel, since>>

\* (mutant) the second sample stays in its list
Package_KeepsSample ==
    /\ Goto("package", "upload")
    /\ json' = JsonPackage(bands, Occupy(cpu1, cpu2))
    /\ gathered' = FALSE
    /\ l1' = <<>> /\ bands' = <<>>
    /\ UNCHANGED <<togo, l2, cpu1, cpu2, buf, received, kernel, since, odd, budget>>

\* the report, and the clearing of every list
Package ==
    /\ Goto("package", "upload")
    /\ json' = JsonPackage(bands, Occupy(cpu1, cpu2))
    /\ gathered' = FALSE
    /\ l1' = <<>> /\ l2' = <<>> /\ bands' = <<>>
    /\ UNCHANGED <<togo, cpu1, cpu2, buf, received, kernel, since, odd, budget>>

\* (mutant) the receive buffer is not cleared
Upload_NoClear ==
    /\ \/ Goto("upload", "again") /\ Fault("curl") /\ UNCHANGED <<received, odd>>
       \/ /\ Goto("upload", "request")
          /\ received' = <<>>
          /\ odd' = odd \ {"lost"}
          /\ UNCHANGED budget
    /\ json' = None
    /\ UNCHANGED <<togo, lists, cpu1, cpu2, buf, kernel, since>>

\* _do_json_upload up to the request; without a handle it returns before the
\* receive buffer is cleared
Upload ==
    /\ \/ /\ Goto("upload", "again")
          /\ Fault("curl")
          /\ UNCHANGED <<buf, received, odd>>
       \/ /\ Goto("upload", "request")
          /\ buf' = ClearBuff(buf)
          /\ received' = <<>>
          /\ odd' = odd \ {"lost"}
          /\ UNCHANGED budget
    /\ json' = None
    /\ UNCHANGED <<togo, lists, cpu1, cpu2, kernel, since>>

\* _post_recv_callback; a failed append is not noticed
Receive(c) ==
    /\ cpc = "request"
    /\ Len(received) + Len(c) <= MaxBody
    /\ received' = received \o c
    /\ \/ buf' = AppendFrom(buf, c) /\ UNCHANGED <<odd, budget>>
       \/ /\ buf.size + Len(c) >= Len(buf.mem)
          /\ Fault("alloc")
          /\ odd' = odd \cup {"lost"}
          /\ UNCHANGED buf
    /\ UNCHANGED <<cpc, togo, lists, cpu1, cpu2, json, kernel, since>>

\* the transfer ends or is given up after fifteen seconds
Answer ==
    /\ \/ Goto("request", "parse") /\ UNCHANGED budget
       \/ Goto("request", "again") /\ Fault("request")
    /\ UNCHANGED <<togo, lists, cpu1, cpu2, json, buf, received, kernel, since, odd>>

\* the answer is parsed; whatever it says, the pass goes on
Parse ==
    /\ Goto("parse", "again")
    /\ UNCHANGED <<togo, lists, cpu1, cpu2, json, buf, received, kernel, since, odd,
                   budget>>

\* the first sample of the next pass, then the sleep
Again ==
    /\ Goto("again", IF status = "EXIT" THEN "clean" ELSE "top")
    /\ TakeFirst
    /\ togo' = TRUE
    /\ received' = <<>>
    /\ UNCHANGED <<gathered, l2, bands, cpu2, json, buf, kernel>>

\* (mutant) the sample taken before the last check is forgotten
CleanUp_KeepsSample ==
    /\ Goto("clean", "end")
    /\ UNCHANGED <<togo, lists, cpu1, cpu2, json, buf, received, kernel, since, odd,
                   budget>>

CleanUp ==
    /\ Goto("clean", "end")
    /\ l1' = <<>>
    /\ UNCHANGED <<togo, gathered, l2, bands, cpu1, cpu2, json, buf, received,
                   kernel, since, odd, budget>>

CollectorStep ==
    \/ Start \/ Top \/ Gather \/ Round1 \/ Round2 \/ Package \/ Upload
    \/ \E c \in Chunks : Receive(c)
    \/ Answer \/ Parse \/ Again \/ CleanUp

-----------------------------------------------------------------------------
(***************************************************************************)
(* The kernel, the network and the booter.  They are let in where a pass   *)
(* begins or the collector was asleep, before each second sample and       *)
(* when the request is sent; the other steps read nothing they change.     *)
(***************************************************************************)
Outside(what) ==
    /\ \/ cpc \in {"top", "round2"}
       \/ cpc = "request" /\ received = <<>>
    /\ Spend(what)
    /\ UNCHANGED app

\* an interface receives
Traffic(i) ==
    /\ Outside("ticks")
    /\ i \in Range(nics)
    /\ rx' = [rx EXCEPT ![i] = (@ + 1) % Wrap]
    /\ since' = [since EXCEPT ![i] = @ + 1]
    /\ UNCHANGED <<nics, cpu, orphan, status, odd>>

\* a tick of the CPU
Tick(use) ==
    /\ Outside("ticks")
    /\ cpu' = [cpu EXCEPT ![use] = (@ + 1) % Wrap]
    /\ odd' = IF cpu.busy + cpu.idle + 1 \in {Wrap, 2 * Wrap} \/ cpu'[use] = 0
              THEN odd \cup {"wrapped"} ELSE odd
    /\ UNCHANGED <<nics, rx, orphan, status, since>>

\* an interface goes, or comes with its counter at zero
Change(i) ==
    /\ Outside("changes")
    /\ \/ \E k \in DOMAIN nics : nics[k] = i /\ nics' = RemoveAt(nics, k) /\ UNCHANGED rx
       \/ /\ i \notin Range(nics)
          /\ nics' = Append(nics, i) /\ rx' = [rx EXCEPT ![i] = 0]
    /\ odd' = odd \cup {"changed"}
    /\ UNCHANGED <<cpu, orphan, status, since>>

Signal(s) ==
    /\ Outside("signals")
    /\ status' = IF s = "CONT" THEN "RUNNING" ELSE s
    /\ UNCHANGED <<nics, rx, cpu, orphan, since, odd>>

BooterDies ==
    /\ Outside("signals")
    /\ ~orphan /\ orphan' = TRUE
    /\ UNCHANGED <<nics, rx, cpu, status, since, odd>>

World == \/ \E i \in Interfaces : Traffic(i) \/ Change(i)
         \/ \E use \in {"busy", "idle"} : Tick(use)
         \/ \E s \in Signals : Signal(s)
         \/ BooterDies

Init ==
    /\ cpc = "init" /\ status = "READY"
    /\ togo = FALSE /\ gathered = FALSE
    /\ cpu1 = None /\ cpu2 = None
    /\ l1 = <<>> /\ l2 = <<>> /\ bands = <<>>
    /\ json = None
    /\ buf = NewBuff(Opacity)
    /\ nics = SetToSeq(Interfaces)
    /\ rx = [i \in Interfaces |-> Rx0] /\ cpu = Cpu0
    /\ orphan = FALSE
    /\ received = <<>> /\ since = [i \in Interfaces |-> 0] /\ odd = {}
    /\ budget = [faults |-> MaxFaults, ticks |-> MaxTicks, changes |-> MaxChanges,
                 signals |-> MaxSignals]

Next == CollectorStep \/ World

\* The collector is scheduled, its sleeps end and its requests time out.
Fairness == WF_vars(CollectorStep)

Spec     == Init /\ [][Next]_vars
FairSpec == Spec /\ Fairness

-----------------------------------------------------------------------------
(***************************************************************************)
(* Properties.                                                             *)
(***************************************************************************)

T == INSTANCE Text WITH text <- TextOf(buf)

\* The receive buffer is a text: whatever the sizes of the chunks, clearing,
\* appending and the resizes in between look like a text that is emptied and
\* grows at its end (cel_string.c).
BufferIsText == T!Spec

\* What is parsed is what this request received, up to a zero byte: nothing of
\* an earlier answer, which may have been longer or have failed half way, and
\* nothing behind the buffer; unless an append failed for want of memory.
OwnAnswer == cpc = "parse" /\ "lost" \notin odd => CString(buf) = UpToNul(received)

\* The rate reported for an interface is what it received between the two
\* samples, as far as the width of its counter can tell, across wraps of the
\* counter, in the first pass or a later one, unless an interface came or went
\* between the samples.
RateIsTraffic ==
    cpc = "upload" /\ "changed" \notin odd =>
        \A k \in DOMAIN json.bands : json.bands[k].incoming = since[json.bands[k].name] % Wrap

\* The CPU load reported is a share of the time that passed, unless the sum of
\* the counters wrapped between the samples or /proc/stat could not be read.
LoadIsShare ==
    cpc = "upload" /\ odd \cap {"wrapped", "unread"} = {} =>
        0 <= json.load[1] /\ json.load[1] <= json.load[2]

\* Every list is empty when it is destroyed (cel_link_destroy reads the nodes
\* it has freed), wherever the loop was left.
EmptyWhenDestroyed == cpc = "end" => l1 = <<>> /\ l2 = <<>> /\ bands = <<>> /\ ~gathered

\* The collector reports again and again, whatever its requests come to, unless
\* it ends or is stopped for good.
KeepsReporting ==
    []<>(cpc = "upload") \/ <>(cpc = "end") \/ <>[](status = "STOP")

\* In the ghost build a collector that lost the booter ends, unless it is
\* stopped: a stopped one is not asked.
OrphanEnds == Ghost => (orphan ~> (cpc = "end" \/ status = "STOP"))
=============================================================================
