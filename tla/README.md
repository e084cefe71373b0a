# A TLA+ model of sarah-client

sarah-client is a host monitor for Linux. One process, `sarah-booter`, forks
four applications (disk mounter, statistics collector, remote task executor,
self-updater) and supervises them with signals. This directory models the
parts of it that are hard to test: start-up, supervision, self-update, task
execution, the collector's samples and reports, and the disk mounter. Section 1
lists every part, section 5 what is not modelled.

## 1. Inventory

| Part | Source | State | Operations | What makes it hard | What makes it correct |
|---|---|---|---|---|---|
| Booter | `main/sarah.c`, `config/sarah` | status word, pid file, pids of `_internal_apps[]`, u-disk flags | start, install handlers, fork, supervise, STOP/CONT broadcast, shutdown, `execve` | one status word written by a handler, read in several places; pids that are 0, -1 or reused; blocking `waitpid` | slots name the children; a shutdown ends and leaves no child; a restart comes back; dead applications come back |
| Application skeleton | head and tail of the loops of `main/app_*.c` | copy of the status word, boot_ppid | EXIT, STOP and parent checks | signals before, between and after the checks | nobody works before CONT in the ghost build; EXIT ends it |
| Updater | `main/app_updater.c` | download_status, versions, package file, binary, version file | check, download, verify, install, record, restart | failure or crash between any two steps; the console publishing in between | only a whole binary is restarted into; the record does not go back; updates arrive and restarts end |
| Executor | `main/app_executor.c`, `main/executor.c`, `main/script_*.c`, `main/lib_executor.c` | pull duration, empty_count, one child per task with its buffers | pull, validate, fork, reap, run, report | concurrent children outliving their executor; response buffer reused; limits | back-off; no new tasks after STOP; results reported; data limit |
| Collector | `main/app_collector.c`, `main/network.c`, `main/cpu.c` | two samples of the counters, six lists, JSON package, receive buffer | sample, subtract, upload, sample again | samples paired by position; counters that wrap; failures that leave part of a pass; STOP between two samples | rates are what was received in between; the answer parsed is this request's; lists are empty when destroyed; it goes on reporting |
| Smart disk | `main/app_smartdisk.c`, `main/disk.c` | disk list, map of partition counts, plan, mounts | list, identify, lsblk, count, plan, mount | disks pulled, plugged and mounted by others during a pass; identities that cannot be read; block arithmetic at the end of a disk | only blank disks are chosen; plans are disjoint and inside the disk; nothing is mounted twice or over another; disks get mounted |
| Node store | `main/node.c` | 52-byte `node.db`, `config.json` | create, read, update a field | crash between create and write | the node id never changes |
| File helpers | `main/utils.c` | files | mkdir, get/put buffer, download | partial files | |
| Containers | `main/cel_*.c` | hash map, list, array, string buffer | put/get/remove/resize | boundaries | the map is a map, the buffer a text |
| Statistics readers | `main/cpu.c`, `ram.c`, `network.c`, `process.c`, `hardware.c` | none | parse `/proc` | pure I/O | |
| Lua runtime | `main/lib_april.c`, `april.c`, `aprilc.c`, `ext/*` | Lua states | bindings | | |
| Vendored | `third_parties`, `lib`, `main/cJSON*.c`, `main/mbedtls_*.c` | | | | |

Interactions. The booter and the applications share nothing after `fork`; they
talk by signals (SIGQUIT = STOP, SIGHUP = CONT, SIGINT/SIGTERM = EXIT, SIGUSR1 =
RESTART, SIGUSR2 = CHECK), by `waitpid`, and by files (pid file, binary,
version file). The updater replaces the binary and signals the booter, which
stops everybody and executes it. The executor's children talk to the console
only.

## 2. Modules

| Module | Models |
|---|---|
| `Booter` | the booter from start to `execve`, the kernel's process table as far as `fork`, `kill`, `waitpid` and orphaning go, and the loop skeleton of the applications |
| `Supervisor` | what the booter promises of its applications: which it forks, and when it may be out |
| `Updater` | the updater's round step by step, with the booter's `execve`, crashes and the console as environment |
| `Executor` | the executor's loop, one child process per task, `sarah_executor_sync_status`, the data limit |
| `Startup` | several booters and tools starting at once over the pid file and the node store |
| `Smartdisk` | the disk mounter's pass over the disk list, with the bays, the kernel's mounts and other users of the host as environment |
| `HashMap` | the int hash map of `cel_hashmap.c` and the primes it grows by |
| `KeyMap` | what that map promises: a function from keys to numbers |
| `Collector` | the collector's pass, with the kernel's counters, the network and the booter as environment |
| `StrBuff` | the string buffer of `cel_string.c`, as the receive callbacks use it |
| `Text` | what that buffer promises: a text that is emptied or grows |
| `BooterProofs`, `UpdaterProofs`, `ExecutorProofs`, `StartupProofs`, `CollectorProofs`, `HashMapProofs`, `SmartdiskProofs` | theorems |
| `MCBooter`, `MCUpdater`, `MCExecutor`, `MCStartup`, `MCSmartdisk`, `MCCollector` | instances for TLC |

### Booter

`bpc` is the place in `main()`: `init` (`sarah_booter_init`), `setpid`, `node`,
`arm` (handlers), `fork`, then `loop`, `ghost`, `reboot`, `sleep`, and on the way
out `stop`, `wait`, `cleanup`, `exec`. `bstatus` is the status word, `bpend` the
pending signals, `apid` the pids in `_internal_apps[]` (with the values 0 and -1
as `NoPid` and `ForkErr`), `pidfile` whether the pid file holds 0, the booter's
pid or a dead booter's. `proc` is the process table: state, application, place
in its loop, status word, pending signals, and whether it is an orphan.

* A signal is a set element until it is handled, as in the kernel (no
  queueing, no order). A handler runs between any two steps. Signals that come
  before `arm` or after `execve` terminate the booter.
* `kill(-1)` and `waitpid(-1)`, which a failed fork causes, address every
  application (of the host's other processes nothing is said).
* `BooterReboot` advances `_app_idx` by two per round, as the loop and its body
  both increment it.
* Sleeps are points where others run; time is not modelled.
* Signals come to the booter alone (`OpSignal`: the init script, kill(1)) or from
  the terminal to the whole process group (`GroupSignal`: Ctrl+C is EXIT, Ctrl+\
  STOP, a hangup CONT).
* The work of an application is one step, `AppWork`. `sarah-smartdisk` ignores
  STOP and has no EXIT check before its sleep (`HonoursStop`, `AppTail`).
* The two builds are the constant `Ghost` (`make ghost` sets both
  `_SARAH_GHOST_UDISK_ENABLE` and `_SARAH_ASSERT_PARENT_PROCESS`).

### Startup

`proc[p]` is one run of `sarah-booter` or of the tool `sarah-executor`: its place,
the pid it has read (`seen`), its node id, whether it creates the node (`new`)
and the pending error of `sarah_node_init` (`rno`). `db` is `node.db`: whether it
exists, its length, and the id of a complete one. Every access to a file is
under `flock` in the code and one step here; `access`, `open` and `write` of the
creation are separate steps, as are reading and writing the pid file. A pid is
free again when its process has ended, so that a stale pid may name a new
process. CHECK is SIGUSR2 and ends a process without a handler for it: a tool,
or a booter that is still starting. A failed write leaves at most the first 12
bytes, so never part of an id. `unchecked` and `split` record that two programs
were in a check-then-act window at a time. In module `Booter` the same start is
one booter's, with the pid file as `none`, `live` or `stale`.

### Updater

`upc` is the place in a round. `lsb` is the downloaded package, `bin` the
installed binary: a version and whether the bytes are whole, cut, bad or the
file missing. The md5 of a whole package is its version. Versions are counted
in hundredths; `Stored` keeps four characters of `"%.2f"`, which drops a digit
from 10.00 on. The floats of the code are exact for the versions used here; a
comparison of a `float` read back with `atof` to the one computed from JSON is
taken to agree. `Overrun`: from 10.00 on `"%.2f"` and its zero byte are six bytes for a
buffer of five. The Makefile's `-O2` is where several distributions' compilers check
such calls, and then the updater is aborted (`upc` is `aborted`) before the version
file is written; any other build writes a zero byte behind the buffer. Both
outcomes are steps of `Record`. The updater's slot is one that the reboot loop passes
over, so only a restart of the client brings it back, which is allowed for but not
assumed. `BooterExec` abstracts the shutdown of module `Booter`: it runs
when a restart was asked for and the updater is at the head of its loop or has ended.

### Executor

`epc` is the place in the loop; `kid[t]` the child of task `t` with its copy of
the executor entry; `board[t]` what the console has accepted; `body` what
`cJSON_Parse` finds in `res_buffer`, i.e. the first response received, since
the buffer is appended to and never emptied. A data buffer is its length.
`quiet`, `late` and `dropped` are history variables. Progress, errno, attach
and the error string are payload and left out. A script is a sequence of calls
of the executor API; a bash command is a sequence of lines. The parent check
of the ghost build is in `Booter`.

### Smartdisk

`spc` is the place in a pass: `scan` (`/dev`, `HDIO_GET_IDENTITY`, `BLKGETSIZE` and
the fdisk back-up), `fill` (lsblk), `clear` and `count` (the map of partitions per
identity), `act` (plan and mount, one entry per step), `sleep`. `list`, `dmap` and
`plan` are the variables of that name in the code; `pos` is the position of its
loops. `bay`, `layout` and `mtab` are the host: the disk in each bay, what is on
each disk, the kernel's mounts. `pick`, `moved`, `misread`, the field `disk` of a list
entry and the field `sure` of a mount are history.

* Others plug, pull, mount, unmount and partition before a pass, between the
  listing and lsblk, and between two entries that are acted on. The remaining
  steps neither read nor write what others change, so more places would add no
  behaviour.
* A device name is a bay and a partition number. `TailingInteger` keeps what the
  code makes of a name that ends in a digit: `nvme0n1` counts as partition 1 of
  itself.
* The node of a name is opened, identified, asked by lsblk and mounted at four
  different times; the model looks up what is in the bay at each of them.
* The fdisk back-up reads the sections of `fdisk -l` in the order of its listing. The
  loops that look for the partitions of a disk without a partition table run into
  the section of the next disk, which is then skipped (`Parsed`).
* The plan of `_get_disk_partitions_by_offset` is computed in the width of the
  code's block counts. The call that would carry it out is commented out in the
  code, so the plan is what can be checked.
* `HashMap` keeps the table, the chains, the order inside a chain, the threshold
  and the rebuild, including the numbers `cel_is_prime` takes for primes and are
  not (9, 25, ...). `cel_hash` is a constant, so every pattern of collisions is
  allowed for. A node's place is its bucket and its position in the chain; a
  rebuild walks the places in order (`Before`) and puts each node at the head of
  its new chain, so that a new chain is its nodes by how many are walked behind
  them (`Chain`).
* `MaxInt` is the largest `int`, a prime in the code (2^31 - 1) and in the run
  (127). `cel_next_prime` then always finds one, if the table it is asked for has
  a length that is an `int`; `HashMapAssumption` says how many keys that allows.

### Collector

`cpc` is the place in a pass: `gather` (hardware, RAM, CPU, disk and process data,
of which only that the lists hold entries is kept), `round1` (the first sample,
in the first pass only), `round2`, `package` (the JSON and the clearing of the
lists), `upload`, `request` with one `Receive` per callback, `parse`, `again` (the
first sample of the next pass, then the sleep and the EXIT check), `clean`.
`l1`, `l2`, `cpu1`, `cpu2`, `bands` and `togo` are the variables of the code, `buf` its
receive buffer, `nics`, `rx` and `cpu` the kernel's interfaces and counters.
`received`, `since` and `odd` are history: what this request delivered, the traffic
since the first sample, and what happened that excuses a wrong rate.

* The environment acts at the head of the loop, before a second sample and when
  the request is sent. Between two of these places the collector reads nothing
  that the environment changes.
* A CPU time whose reading failed keeps its value; one that was never read may
  hold anything, as the variables of the code are not initialised.
* An interface that comes back starts at zero and at the end of the list. The
  code pairs the samples by position.
* Counters wrap at the constant `Wrap`; the differences are unsigned.
* The EXIT and parent checks are those of `sarah_collector_application`: under
  STOP the loop comes back before the parent is looked at.

## 3. Runs

| Run | Checks | Bounds |
|---|---|---|
| `Booter_safety` | `TypeOK`, `SlotsTrackChildren`, `GhostGate`, `Supervises` | ghost build, 2 applications, 3 pids (so that a pid is reused while others live, and orphans of a killed booter live on), 1 operator action (CONT to the booter or as a hangup, RESTART or a u-disk change), 1 fault of any kind but execve's |
| `Booter_live` | `ShutdownCompletes`, `RestartComesBack`, `ScannedAppsRestart` | normal build, 3 applications, 2 pids, 1 signal (EXIT or CONT, to the booter or to the group), 1 update, 2 faults (death, failed fork, failed execve) |
| `Booter_reboot_ready` | `DeadAppsRestart` is violated | one death |
| `Booter_ghost_cont` | `UdiskContinues` is violated | no operator, no fault |
| `Updater_safety` | `TypeOK`, `RecordNeverGoesBack`, `AsksOnlyBootable`, `Settles`, `UpdateArrives` | versions 9.99, 10.05, 10.10 (both sides of the lost digit), 3 faults of any kind, 4 publications |
| `Updater_unverified` | `InstallsOnlyVerified` is violated | one corrupt download |
| `Executor_safety` | `TypeOK`, `BusyBacksOff`, `OneTaskAfterStop`, `LimitHolds` | 4 tasks, 2 signals, 1 fault, 3 API calls (append, lower the limit, append), max_busy_count 2 |
| `Executor_live` | `TaskReported`, `ZombiesReaped` | 4 tasks, 1 signal, 1 fault of any kind |
| `Executor_sync` | `SyncReturnsOutcome` is violated | one refused report |
| `Startup` | `TypeOK`, `Exclusive`, `IdAgreement`, `IdNeverChanges`, `Recovers` | 2 pids, 3 starts (one after a crash while another runs), 2 faults, 1 EXIT or RESTART |
| `Smartdisk` | `TypeOK`, `MapCountsList`, `PlanFits`, `TargetsDistinct`, `EmptyWhenDestroyed`, `MapIsAMap`, `ChosenIsBlank`, `MountsOnlyUnmounted`, `EventuallyMounted` | 2 bays (one NVMe, whose disks do not answer), 2 disks, partitioned and blank or whole with ext4 and xfs, both in a bay at first, one or none; hash codes that collide and a first table that is rebuilt; a disk whose plan fits and one whose plan does not; 1 fault of any kind, 2 moves of others |
| `Collector` | `TypeOK`, `OwnAnswer`, `RateIsTraffic`, `LoadIsShare`, `EmptyWhenDestroyed`, `BufferIsText`, `KeepsReporting`, `OrphanEnds` | ghost build, 2 interfaces and CPU times about to wrap, a receive buffer of 2 bytes that the answers outgrow, a zero byte in an answer, 2 ticks, 1 interface that comes or goes, 2 signals, 1 fault of any kind |

Two moves let a disk be replaced by the other one within a pass; with the fault,
a disk that was listed without its identity can also be moved to the other bay
before it is mounted. Two signals let a collector be stopped and continued between its two
samples, or stopped and orphaned.

`Booter_live` has three applications, of which the reboot loop visits two (0 and 2), as
it does of the four that the code has: whether a dead application comes back
depends on what another visited slot holds. Two pids for three applications make
the process table full: forks then fail by themselves, as well as by a fault, and
a slot holds -1 while any two of the applications are up. A third pid is out of
TLC's reach here. For `Booter_safety`, two applications are enough to meet the cases
the code tells apart (a visited and an unvisited index, `sarah-smartdisk` and another,
a slot of -1 and one whose child it can reap), and its properties are theorems for
any number. Pids are symmetric; symmetry is used in the
safety runs only. Deadlock is checked except where the system may stop: an
operator who does not restart a ghost booter that waits for a child
(`Booter_safety`), a host whose binary is missing (`Updater_safety`), an executor
that has ended (`Executor_*`), no program running and none started (`Startup`), an
application that was told to leave (`Smartdisk`) or is stopped (`Collector`).

What the violation runs show:

* `Booter_reboot_ready`: nothing but SIGHUP sets the status to RUNNING, so
  without it the reboot loop is never entered. With it, the loop increments its
  index twice, so that applications at odd indices (collector, updater) are
  never looked at. `ScannedAppsRestart` holds for the others, with an exception: if
  the fork of a visited application failed, its slot holds -1 and its `waitpid` may
  reap another visited application, whose own slot then waits for a pid that is no
  child, gets ECHILD and never forks again (line 494). TLC finds this in
  the same run when the exceptions look at the application's own slot only.
* `Booter_ghost_cont`: a CONT handled before the application assigns STOP to its
  own status word is lost; the booter does not send another. The same window
  loses EXIT, and the booter then waits for that application for ever; that is
  why `ShutdownCompletes` is checked of the normal build only. There, too, an
  application whose EXIT is overwritten by another signal of the terminal keeps the
  booter waiting (`ExitOverwritten` excepts it).
* `Updater_unverified`: `download_status` is set before the verification, so the
  round after a failed verification installs the rejected package. The same
  flag makes the updater install an older package under a newer version number
  when the installation failed and a newer version was published; `UpdateArrives`
  excepts that state (`Mislabelled`), a host whose binary is gone (`Bricked`) and an
  updater that was aborted.
* `Executor_sync`: `res_buffer` is never emptied, so the second report of a
  child gets the result of the first.

### Fairness

Weak fairness of every process's own steps (in `Startup` too): the operating system schedules
them, requests have timeouts (10 seconds; 30 minutes for the package), sleeps
end. A host that is down is started again (`HostBoot` in `Updater`), a client whose
updater was aborted is not restarted for it. Weak fairness of signal delivery to a live process. Nothing is assumed of
operators, faults, the console or the scripts' calls; that a script returns is
assumed (`KidStep`). `SmartdiskStep` and `CollectorStep` are weakly fair: the commands
they run end, and their requests are given up after fifteen seconds. In `Updater`, strong fairness of `BooterExec`: a pending
restart is acted on within the six seconds of the booter's sleep while the
updater pauses two minutes between rounds, so a new round does not keep the
restart away for ever.

### Refinement

* `Supervises`: under the mapping `Phase` (of the place in `main()`) and `Kids` (the
  applications of the children), every step of `Booter` is a step of `Supervisor` or
  changes nothing. A round of the reboot loop is a `Launch` that takes the dead child
  away too, or, if the fork fails, a `Reap`; the end of the `waitpid` loop is `Out`, which
  asks for no child to be left; the death of the booter at any point is `Die`, since
  its children are then init's. Signals and the applications' own steps, their end
  included, are stutters: a child is one until it is waited for.
* `MapIsAMap`: under the mapping `Contents(dmap)`, which asks the map for every key,
  every step of `Smartdisk` is a step of `KeyMap` or changes nothing. A rebuild is a
  `Put`; looking up, finding nothing and chains that share a bucket are stutters.
* `BufferIsText`: under the mapping `TextOf(buf)`, the bytes in use, every step of
  `Collector` is a step of `Text` or changes nothing. A resize belongs to the append
  that caused it.

### What the source does that a reader may not expect

Stated here because properties have exceptions for them.

* `sarah_is_valid_disk_type` compares ten of its eleven types: a disk with xfs has
  no type, is not mounted, and counts as blank (`ChosenIsBlank` excepts it).
* An entry whose identity cannot be read is kept with the identity of zeros. Two
  such disks share a count and a mount point (`TargetsDistinct` excepts it).
* The plan's starts advance by one block more than its lengths; a disk that is
  shorter than the starts gets a last length that wraps (`PlanFits` excepts it).
  For a disk of no blocks the code writes a pointer in front of its array, into a
  word of the heap that nothing reads, since the array is not freed; the model has
  no entry.
* Bandwidths are differences divided by `cost_secs`, a double read off the clock. The
  model keeps the differences: a clock that stands still or is set back makes the
  quotient infinite or negative, and nothing but the report has it.
* A failed `setpid(0)` before `execve` leaves the booter's pid in the file, and the new
  image dies of its own CHECK (`RestartComesBack` starts behind all faults).
* The sum of CPU times is an `unsigned int`, and a failed reading of `/proc/stat` is
  not noticed (`LoadIsShare` excepts both).
* When there is no curl handle the collector prints the answer of the request
  before; nothing depends on it.

## 4. Proofs

All for every value of the constants allowed by the assumptions
`ConstantsAssumption`, `UpdaterAssumption`, `ExecutorAssumption`,
`StartupAssumption`, `CollectorAssumption`, `StrBuffAssumption`,
`SmartdiskAssumption`, `HashMapAssumption`. TLC evaluates them in the runs.

* `TypeCorrect`: `Spec => []TypeOK` of `Booter`.
* `SlotsAlwaysTrackChildren`, and `NoChildIsLeftBehind`, that a booter on its way in or out
  has no child (no run checks it by itself: `Supervises` implies it). Neither is inductive. The
  invariant `ChildInv` adds `ForkPrefix` (while the first forks are under way
  the slots from `idx` on have no child) and `WaitSuffix` (in the `waitpid` loop
  the slots before `idx` have none left). The argument for a slot of -1:
  `waitpid(-1)` may reap a child of another slot, but a slot whose child is gone
  is harmless, and a child that exists is always named by its own slot.
* `GhostGateHolds`: `Spec => []GhostGate`. `GateInv`: before the first CONT broadcast or hangup an
  application that honours STOP has had no signal but STOP and EXIT, and once past
  its boot it is at the head of its loop with one of the two as its status. Forks
  after that, orphans of a killed booter and new booters keep it; `kill(-1)` sends
  the same two signals.
* `BooterSupervises`: `Spec => Supervises`, the refinement, from `ChildInv`. A child that is
  reaped takes its application away because no other child is in its slot
  (`ReapedKids`); a fork into a slot adds an application the booter has not, since
  `ForkPrefix` and the wait before it (`WaitTakesSlot`) say so; `Out` needs `WaitSuffix`.
* `UpdaterTypeCorrect`, with `Published`: a version being installed and the
  version of a whole file are versions the console published.
* `RestartIsSafe`: `Spec => AsksOnlyBootable`. The invariant `PackageInv`, under
  the condition that nothing has corrupted bytes silently: `download_status = 1`
  means a whole package, and between installation and restart the binary is
  whole.
* `RecordIsMonotone`: `Spec => RecordNeverGoesBack`. `RecordInv`: versions on
  their way exceed `updater.version`, which is at least what the file holds, and
  what the file holds has no digit that `Stored` would drop; so a newer version
  is stored as no less (`StoredMonotone`).
* `BusyAlwaysBacksOff`: `BusyInv`, in a busy spell `empty_count` is at least the
  number of pulls without a task, and never exceeds max_busy_count.
* `AtMostOneTaskAfterStop`: `StopInv`, a task started after STOP ends the pass and
  the head of the loop is not passed until CONT.
* `ExecutorTypeCorrect`, with `TaskInv`: from the pull to the fork the task in hand is
  one of the console's.
* `LimitAlwaysHolds`: `Spec => LimitHolds`. `MayBecome` says what one step may make of a
  child, and every step of every process does only that to every child. It needs
  no more than the types, since the guard of an append compares with the limit
  in force; that lengths are never negative is part of them.
* `StartupTypeCorrect`.
* `PidFileExcludes`: `Spec => []Exclusive`. `PidInv`: while nobody has met anybody in
  the window, the pid file names the live booter, whoever is checking has read
  its pid, and whoever is about to write has found none. `Exclusive` alone is
  not inductive: it says nothing of a booter in the window.
* `NodeIdAgrees` and `NodeIdIsForLife`: `IdInv`, with `DbInv`: one creator at a time,
  who finds no complete record; hence nobody has an id before the record is
  complete, and everybody past it has the record's.
* `BufferRefinesText`: `Spec => BufferIsText`, the refinement. Memory behind the text is
  zero (`Buffer`), so a resize keeps the text (`ResizeKeepsText`), an append adds to its
  end, and a chunk that does not fit after a failed allocation is not written.
* `AnswerIsOwn`: `Spec => []OwnAnswer`. `AnswerInv`: from the sending of a request to its
  parsing the buffer's text is what was received, unless an append failed.
* `ListsEmptyAtEnd` (`Collector`): `ListInv`, which list is filled in which part of a pass;
  the first sample alone outlives a pass, and the clean-up empties it.
* `RateIsAlwaysTraffic`: `Spec => []RateIsTraffic`. `NetInv`: while no interface came or
  went, the first sample lists the kernel's interfaces in the kernel's order, and
  what a counter shows is the first sample's value plus the traffic since, modulo
  `Wrap`; the unsigned difference is then the traffic modulo `Wrap`, and position pairs
  the two samples of one interface.
* `LoadIsAlwaysShare`: `Spec => []LoadIsShare`. `LoadInv`: while both times were read and
  their sum did not wrap, the kernel's times are no less than the first sample's,
  and the second sample is the kernel's.
* `CollectorTyped`: `Spec => []TypeOK` of `Collector`, from the types of these parts.
* `HashMapProofs` is about the operators of `HashMap`. `WellFormed`: a chain holds nodes of
  its bucket, each key once, and the size is the number of keys. `InitEmpty`,
  `ClearEmpty`, `PutMaps` and `IncMaps` say that the operations keep it and what they make
  of `Contents`. A rebuild keeps them because the places of a table are as many as
  its keys (`PlacesCounted`), each has its own rank in the walk (`WalkRanks`), and a new
  chain thus holds each of its nodes once (`ChainOf`). `NextPrimeFound` and `NewLength`: the
  new length is a number. That there is a least prime above a number rests on
  `MaxInt` being one, which is an assumption and evaluated by TLC for the run's.
* `HashMapIsAMap`: `Spec => MapIsAMap`, the refinement, from these: `MapStep` goes through
  the steps.
* `CountsAreOfTheList`: `Spec => []MapCountsList`. `MapInv`: in the first loop the contents are
  the `Tally` of the entries before the position; one more entry changes it as one
  put or increment does (`TallyNext`).
* `OnlyBlankChosen`: `Spec => ChosenIsBlank`. `KnownInv`: an entry of a bay that was left
  alone is of the disk that is still there; if everything was read, a partitioned
  disk has an entry of a partition with the same identity, and the file system of
  a whole disk is in its entry once lsblk was asked. With `MapCountsList` an identity
  that is counted zero then has no partitions.
* `NoMountHidesAnother`: `Spec => []TargetsDistinct`. `SureInv`: a mount the application was
  sure of has the disk's identity in its name, and the partition's number if the
  disk is partitioned. It needs `KnownInv`, and that a disk with a file system keeps
  its layout, so that a disk is never mounted both whole and by its partitions.
* `SmartdiskTyped`: `Spec => []TypeOK` of `Smartdisk`, with `PlanTyped` for the block counts of
  a plan and `WellFormedTypes` for the map.
* `PlanAlwaysFits`: the lemma `PartitionsFit` about `_get_disk_partitions_by_offset`, for
  every number of blocks and every width, with `PlanInv`: the plan is the one of the
  disk that was chosen.
* `NothingMountedTwice`: `Spec => MountsOnlyUnmounted`. `MountInv`: an entry that is still
  to be mounted has no mount, if nobody touched its bay. Preserving it while other
  entries are mounted needs that a device is listed once (`ListInv`) and that a disk
  is in one bay (`HostInv`); the listing gives the first, plugging the second.
* `ListEmptyAtEnd` (`Smartdisk`): part of `ListInv`.

Every invariant, every action property and every refinement that a passing run
checks is a theorem.
Only model-checked is liveness (`ShutdownCompletes`, `RestartComesBack`,
`ScannedAppsRestart`, `Recovers`, `UpdateArrives`, `Settles`, `TaskReported`,
`ZombiesReaped`, `EventuallyMounted`, `KeepsReporting`, `OrphanEnds`), which is beyond
the prover.

## 5. Not modelled

Two supervising booters at a time: `Startup` shows when they come about, `Booter`
has one, and a second only as the CHECK signal it sends. The content of JSON,
URLs, process titles, `printf`. Memory allocation failures, except where they end
an operation or lose a part of an answer. `config/sarah`, whose exit status is a pid.

Of the disk list, `sarah_disk_partition_shell`, which nothing calls, and the
capacities that `statvfs` fills in. Of `utils.c`, `sarah_http_download`, which only the
Lua bindings call. Of the containers, `cel_array` and the operations that no
application uses. Of the statistics readers, everything but the counters the
collector subtracts: they parse `/proc` and keep no state. `cost_secs` and other
readings of the clock. The Lua bindings of `lib_april.c` and `ext/`, and the vendored
libraries (`third_parties`, `lib`, `cJSON`, mbed TLS, sqlite, curl, portaudio), which
are nearly all of the lines in this repository and none of its own logic.

Some hazards listed in `PROJECT.json` have no property, since the code does go wrong
there and the model shows it: the loss of an EXIT or RESTART that another signal
overwrites, two starts that end each other, an application orphaned while stopped,
a short `node.db`, a package recorded under another's version, a binary lost in a
crash or copied badly, interfaces that come or go between two samples, CPU times
that wrap or were not read, file systems of type xfs, disks with an identity of
zeros. The properties except them by name, so that everything else is checked.

## 6. Plan

1. `Booter`'s start shown to be what `Startup` does with one booter at a time
   (refinement, the pid file mapped to none, live or stale).
2. A composition of `Updater` and `Booter` in which `execve` runs what the updater
   installed, with `Updater`'s `BooterExec` shown to be implemented by it.
