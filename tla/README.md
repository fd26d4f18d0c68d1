# Verification of Multi-resource-Isolation

This directory holds a TLA+ development of the code under `src/`: models of its
parts, the TLC configurations that check them on small instances, and theorems
about them that TLAPS checks for every value of the constants. `PROJECT.json`
gives, for each definition, the source lines it stands for, for each run the
properties it checks, for each property of a passing run a plausible slip of the code that
breaks it, and the list of hazards the properties are aimed at.

The program ("Muses") detects the load of an online task that runs in YARN
containers next to offline batch work, predicts how much cpu, L3 cache and
memory bandwidth the online task needs, and enforces it with cpusets and Intel
RDT. It is built on a copy of intel-cmt-cat: the library `libpqos` (`lib/`), the
command line tool and the Muses controller (`pqos/`), the tool `rdtset`, and
examples.

## 1. Inventory

### 1.1 The parts, their state and their operations

| part | state it keeps | operations that change state |
|---|---|---|
| API lock (`lib/cap.c` 147-245) | a `lockf` record lock on `/var/lock/libpqos`; a mutex of the process | `_pqos_api_init`, `_pqos_api_lock`, `_pqos_api_unlock`, taken by every function of `lib/api.c` |
| MSR monitoring (`lib/monitoring.c`) | the RMID field of `PQOS_MSR_ASSOC` of each core; `struct pqos_mon_data` of each group | `hw_mon_start`, `hw_mon_stop`, `hw_mon_reset`, `hw_mon_poll` |
| MSR allocation, assignment of classes (`lib/allocation.c` 930-1100) | the COS field of the same register | `hw_alloc_assign`, `hw_alloc_release`, `hw_alloc_assoc_set`, `alloc_assoc_reset` |
| MSR allocation, definition of classes (`lib/allocation.c` 100-920, 1100-1382) | mask and MBA registers, the CDP bit of each socket; the capabilities of each process | `hw_l3ca_set`, `hw_l2ca_set`, `hw_mba_set`, `hw_alloc_reset` |
| OS allocation (`lib/os_allocation.c`, `lib/resctrl_alloc.c`) | the resctrl mount, its directories, their cpus, tasks and schemata; what each process believes of CDP | `os_alloc_init`, `os_alloc_assign[_pid]`, `os_alloc_release[_pid]`, `os_alloc_assoc_set[_pid]`, `os_l3ca_set` and the like, `os_alloc_reset` |
| OS monitoring (`lib/os_monitoring.c`, `lib/perf.c`) | perf descriptors in the arrays of a group, its valid mark | `os_mon_start`, `os_mon_start_pid`, `os_mon_stop`, `os_mon_poll` |
| life cycle and discovery (`lib/cap.c`, `cpuinfo.c`, `machine.c`, `log.c`) | `m_init_done`, the capability and topology tables and the pointers to them in four other files, the affinity of the calling thread while it looks at the cpus, the mutex | `pqos_init`, `pqos_fini` |
| values (`poll_event_l3`-`get_delta` in `lib/monitoring.c`, `lib/os_monitoring.c`) | `struct pqos_event_values` and `valid_mbm_read` of each group | a poll, kind by kind and context by context |
| helpers (`lib/utils.c`) | none | none: searches in the tables |
| Muses quota loop (`pqos/main.c` from `isolation_start`) | thread counts of this round and the last, the trigger, `stop_loop` | one round of the loop, `my_handler` |
| Muses isolation submit (`pqos/main.c` `isolation_submit`, `pqos/update_cpus.sh`, `pqos/pyapi.c`) | `cpuset.cpus` of the two YARN classes and of their containers, classes of service of the cores, mask and bandwidth of class 2 | six shell commands in a row |
| quota prediction (`pqos/get_best_quota.py`, `train_model.py`) | the trained model | a search over predictions |
| monitoring commands (`pqos/monitor.c`, and `-p` of Muses in `pqos/main.c`) | tables of groups and processes, `stop_monitoring_loop` | parse options or find the busiest processes, start, poll in a loop, stop |
| allocation commands (`pqos/alloc.c`, `cap.c`, `profiles.c`) | option tables | one list of API calls per run |
| `rdtset` | the configuration it applies, to be reverted; its child | configure, run a command, revert |
| examples, SNMP agent, Perl wrapper | none that matters | API calls |

`src/` also has Python's headers (`lib/python3.6m`), build output
(`cmake-build-debug`), IDE files and packaging, which are not components.

### 1.2 How they interact

* Every API call brackets its work with the API lock. Processes share nothing
  else in memory: they meet in machine registers, in resctrl files and in perf.
* RMIDs and classes of service are not kept in a table. "In use" means that
  the register of some core, or a file of resctrl, says so. Each part searches
  what it can see, with rules of its own (the cluster, the socket, all
  directories), and this is where two users can come to share a resource.
* A process reads CDP once, when it initialises. All it computes of register
  numbers and directory names later follows that memory.
* `main()` of the command line tool (`pqos/main.c` 1569-1905) is commented out. The live one
  (656-1311) is Muses: `-p` profiles a task with the monitoring loop, `-i` isolates. The
  functions of `pqos/monitor.c` are those of the tool, and the external `pqos`
  that Muses runs is that tool.
* The Muses controller does not call the library for isolation. It runs an
  external `pqos` and shell scripts by `popen` and looks at no result; the
  kernel's cpuset rules decide what takes effect. Its quota loop and the submit
  run in one thread, next to containers that start and end.

### 1.3 What is hard about it, and what makes each part correct

| part | hard behaviour | correctness |
|---|---|---|
| API lock | two locks with different owners (a process, a thread), dropped in the order they were taken; processes killed anywhere | exclusion of threads, of processes; nobody waits for ever |
| MSR monitoring | failed register writes half way, dead processes, resets under running groups, RMID ranges that differ by event | a group counts its cores and no others; no core is lost except to a failure |
| COS assignment | searches over different areas according to the request, failures half way, settings by hand | a class is its owner's own; it exists for every technology asked for; none is lost |
| class definition and CDP | registers are paired under CDP, another process may change it; a reset that fails anywhere | a reset restores all or says it did not; a set defines one class |
| OS allocation | a reset unmounts and mounts for all processes; tasks fork, end, and their ids come back | a class is its owner's own on the machine; belief and mount agree; a reset starts afresh |
| OS monitoring | the valid mark is read before the lock; descriptor numbers come back; every event may fail | a running group's descriptors are complete and its own; all open descriptors are accounted for |
| life cycle | a stage that fails after others came up; callers that wait for a lock that is being destroyed; a thread sent from cpu to cpu | all is up or all is down; a call never sees capabilities of another life; the caller stays bound as it was |
| values | registers that overflow or say unavailable, contexts read one after the other, polls given up half way | a report is the traffic since the last one |
| monitoring commands | options that name groups again and in parts; processes that end while they are ranked; Ctrl-C anywhere | the table is what was asked for; the busiest are found; no group is left behind |
| `rdtset` | another rdtset between any two calls; calls that fail, signals inside a call, a child that has the parent's handler | what was asked for holds while the command runs, and nothing is left after it |
| quota loop | the load moves between the reading, the trigger and the adjustment | no burst missed; a settled load is served, and the adjusting ends |
| isolation submit | unchecked failures of each command, containers that appear between two writes, a controller that dies | after an undisturbed submit the classes are apart and the settings agree |

`PROJECT.json` lists the hazards one by one, each at its line, with the
properties that would catch it going wrong or the reason why none does yet.

## 2. Modules

One module per part; theorems are in modules of their own, one each for the MSR interface, the OS interface,
the controller and the programs that monitor, with the parts they are made of.

| module | models | TLC instance | theorems |
|---|---|---|---|
| `ApiMutex` | abstract specification: at most one thread inside | - | - |
| `ApiLock` | the two locks | `MCApiLock` | `ApiLockProofs` |
| `SharedRegister` | extends `ApiLock`: what calls read, change and write back | `MCSharedRegister` | `ApiLockProofs` |
| `MsrMonitoring` | RMIDs and groups | `MCMsrMonitoring` | `MsrInterfaceProofs` |
| `CosAssignment` | classes handed out by MSR | `MCCosAssignment` | `CosAssignmentProofs` |
| `MsrAllocation` | class registers, CDP, reset | `MCMsrAllocation` | `MsrInterfaceProofs` |
| `OsAllocation` | resctrl | `MCOsAllocation` | `OsInterfaceProofs` |
| `OsMonitoring` | perf groups of a process | `MCOsMonitoring` | `OsInterfaceProofs` |
| `CpuTopology`, `Discovery` | operators: the topology from APIC ids, the features of a processor and its kernel | with the next | - |
| `ApiService` | abstract specification: a library that serves calls between its start and its stop | - | - |
| `PqosLifecycle` | extends `Discovery`: `pqos_init`, `pqos_fini` and the callers | `MCPqosLifecycle` | `PqosLifecycleProofs` |
| `PollValues` | the values of a group and the poll that computes them | with the next but one | `MonitorToolProofs` |
| `TopPids` | the search for the busiest processes | with the next | `MonitorToolProofs` |
| `MonitorTool` | extends both: the programs that monitor | `MCMonitorTool` | `MonitorToolProofs` |
| `AllocMachine` | classes of cores and tasks as the callers of the library see them | with the next | - |
| `Rdtset` | extends it: several rdtsets on one machine | `MCRdtset` | `RdtsetProofs` |
| `QuotaLoop` | the loop of the controller | `MCQuotaLoop` | `MusesProofs` |
| `IsolationSubmit` | the six commands of a submit | `MCIsolationSubmit` | `MusesProofs` |

Two conventions run through them.

*History variables.* A property that fails as soon as somebody works by hand or
a write fails would say nothing. So the models record in a variable, marked
"history" at its declaration and read by no guard, what has happened to a group, a
process or a quota (`hijacked`, `leaked`, `meddled`, `stray`, `narrow`, `unsure`,
`drifted`, `intact`, `owner`, `lost`, `fresh`, `asked`, `strayed`, `seen`, `span`, `did`, `refused`,
`unreleased`, `contested`), and the property says precisely which events
excuse what. `HijackOnlyByReset` checks that one such excuse is not taken too
easily.

*Calls as actions.* Where the API lock keeps calls apart a call is one action,
with one further action, or a set chosen by `\E`, for each way it can be cut short.
`ApiLock` shows what this rests on: it is sound for one thread per process,
and for the threads of one process among themselves, and it is not for a
process of several threads next to others (finding 1). Models of
several processes (`MsrMonitoring`, `CosAssignment`, `MsrAllocation`, `OsAllocation`)
therefore speak of single-threaded processes, as all programs of the
repository are. `SharedRegister` opens the calls up again for what they read
and write back. `OsMonitoring` and `PqosLifecycle` speak of several threads of one process and
keep the check before the lock, the wait and the body as separate steps.

Operators whose comments call them a variant stand next to some definitions.
No specification uses them. Each is a slip the code could have had, and
`PROJECT.json` says which property it breaks.

### 2.1 ApiLock

`pc` is where a thread is in a call, `fileOwner` the process that has the record
lock, `mutexOwner` the thread that has each mutex. `LockFile`, `LockMutex`,
`UnlockFile` and `UnlockMutex` are the four system calls of `_pqos_api_lock`
and `_pqos_api_unlock`; `Kill` ends a process wherever its threads are. That a
record lock belongs to a process, is granted again to its owner, and goes with
a single unlock or with the process, is the kernel's rule (lockf(3)) and is modelled
from how the code uses it. `Mutex == INSTANCE ApiMutex WITH Threads <- Lone, ...`
is the refinement mapping: the threads that have their process to themselves
implement the abstract mutex.

`SharedRegister` puts between the lock and the unlock what the library reads, changes and writes back.
A word is an association register with its two halves (`cos_assoc_set`, `mon_assoc_set`), the schemata of a class
with its lines (`resctrl_alloc_schemata_init`, `_read`, `_write` around the change that `os_l3ca_set`, `os_l2ca_set` or `os_mba_set` makes
to one part), or the files `cpus`, where `os_alloc_assoc_set` adds a core to the mask it has read.
`update` is what a thread has read, `asked` what was asked for last, field by field. A failing write changes nothing: the kernel
takes all lines of a schemata or none. `Select` and `ReadCounter` are the two halves of `mon_read`.
`NoUpdateLost` and `ReadsItsOwnCounter` are about the words that the lock protects: those used by single-threaded
processes, or by the threads of one process. Lines of the wrong CDP setting are `SchemataReadBy` of `OsAllocation`; values are opaque, so
the rounding of MBA rates is not seen.

### 2.2 MsrMonitoring

`assoc` is the RMID field of the registers, `group` the structure of each group. `Start` is
`hw_mon_start` with `rmid_alloc`: the highest RMID per cluster that no core of
the cluster has and every event knows. `StartCutShort` is its unwinding: some
of the cores written may keep the RMID. `Stop` clears the group even if some
writes fail, as the code does; `Reset` is `hw_mon_reset`. Values and polling are
in `PollValues`.

### 2.3 CosAssignment

`cos` is the COS field, `held` what each application was assigned. `Assign` is
`hw_alloc_assign` with `get_unused_cos`; `Peers` is its choice of area: the L2 cluster
if L2 CAT is asked for, else the socket. The difference matters:
`ClassIsOursInCluster` holds for all mixtures of requests,
`ClassIsSharedOnlyWithL2` says exactly which sharing on the socket remains.

### 2.4 MsrAllocation

A setting (a mask register, an L2 or MBA class, an association) is either
at its reset value or in `changed`. `cdp` is the bit per socket, `cap` what each
process believes. `Reset` is the order of `hw_alloc_reset` (L3, L2, MBA,
associations, CDP); `ResetCutShort` and `CdpCutShort` are its failures, `Reboot` the
hardware's way out. `ResetNoTable` is a reset that cannot allocate a table of ids: it reports success having done nothing,
or nothing but L3, and `returned` keeps the two apart from a reset that came to its end. `L3caSet` writes the registers the process believes in, `Effective`
reads them as the hardware does; `SetDefinesItsClass` compares the two.

### 2.5 OsAllocation

`mount`, `groups`, `coreClass`, `taskClass`, `restricted` are the state of resctrl, `cap` the belief of
each process. `AllocInit`, `Assign`, `Release`, `AssocSet`, `ClassSet` and `Reset` are the
calls; there is an action for each place a call is cut short: a directory that
cannot be made, a task that has ended, an unmount refused, a mount that fails.
`Fork` and `TaskEnds` are the kernel; a task id may return. In contrast to the
MSR interface, a reset here unmounts whatever is mounted and so brings belief and machine
together again. Masks and the text of the schemata are abstracted to "restricted or not".

### 2.6 OsMonitoring

`fds` are the descriptors in the arrays of each group, `open` those the kernel
has open. A thread looks at the valid mark (`CallStart`, `CallOther`), waits
(`inside`), and then a start opens the arrays one by one in the order of
`start_events`, any of which may fail; the kernel gives the lowest free numbers.
`lost` records descriptors that failed starts leave open. That some stay open is what the code does:
`start_events` returns early without stopping what it opened, and a second start of a running
group forgets the first. What is checked is that it is bounded to those cases
and never hurts a group that runs. `Crash` is a stop or poll that comes upon
a group whose restart failed in between and dereferences NULL.

### 2.7 QuotaLoop

An action is a stretch of the loop between two points where the load or Ctrl-C
can matter. `CountChanged` and `CountSteady` are the two branches of a round,
`Adjust` is `get_online_cores` with `isolation_submit` and the reset of the trigger. The count
may be the one of the round before, when the script prints nothing. `drifted`
marks a count reached by changes of no more than `Jump` (5 in the code), which the
code ignores on purpose.

### 2.8 IsolationSubmit

`pc` walks the six commands: `update_cpus.sh` for the online and the offline class
(list, write each container, write the class), two `pqos -a`, two `pqos -e`. A write to
`cpuset.cpus` follows the kernel's rule: a container inside its class, a class around its containers,
else nothing changes. `CommandFails`, `AssociateFails` and `Die` may come at any point,
`ContainerStarts` and `ContainerEnds` too. The settings of a quota (rounding, mask,
bandwidth) are computed as `get_online_cores` does; the prediction is an input.

### 2.9 PqosLifecycle, with Discovery and CpuTopology

A machine is a record of what CPUID, the registers and the kernel say. `CpuTopology` has the shifts that
`detect_apic_core_masks` and `detect_apic_cache_masks` take from it and the socket and clusters that
`detect_cpu` makes of an APIC id; `SaysWhatIsShared` compares them with where the
cpus really are (`place`). `Discovery` has the outcome of each `discover_` function ("ok", "resource": not there,
"error") and what the kernel supports of what was found.

`pc` is where a thread is in a call. The stages of `pqos_init` are actions in the order of the code (`LogUp`, `CpuStart`,
`DetectCpu` for each cpu, `CpuUp`, `MachineUp`, `Discover` four times, `Collect`, `DiscoverOs`,
`MonInit`, `AllocInit`, `MakeGroups`, `InitDone`), each with its
failures; `Abandon` is what the labels at its end take down. It does not take down everything: once `m_cap` is set they free
that table and not the blocks of the capabilities it points to (`BlocksOfFailedInit`). `blocks` are the lives whose blocks are
allocated, `lost` those that nothing points to any more. A life is a call of `pqos_init`; `cap` is the life whose
capabilities the library has, `known` that of the pointers its parts keep. A stage that comes back without memory counts as a
feature that is not there, as in the code. `runsOn` is where the thread is bound.

`style` says how the program uses its threads: one initialisation for good, with callers during the shutdown, or
repeated lives while nobody else calls. Callers that overlap a second `pqos_init` are excluded: `_pqos_api_init`
initialises a mutex they may hold, and nothing in the code guards against it.
`Service == INSTANCE ApiService WITH on <- initDone, using <- ...` is the refinement: calls are served between start
and stop only, one at a time, even when the mutex has been destroyed under those that waited for it.

### 2.10 PollValues, TopPids and MonitorTool

`PollValues` follows one group: `traffic` is what the hardware has counted per context (a cluster over MSRs, a
core or process through perf), a register shows it modulo `Width` and may say "unavailable"; `stage`, `todo` and `sum` are the loops of
`pqos_core_poll` and `poll_perf_counters`, and traffic goes on while they run. `ReadFails` gives a poll up where it is and
keeps what it stored before. `seen` and `span` record what was truly there to be read, and `ReportIsTraffic` and `RemoteIsTheRest` compare.

`TopPids` goes over the processes number by number, twice, while they run, end and are replaced. What becomes
of a process between its two readings is put just before the second one, which no other reading can tell. The code takes the
line of `/proc/PID/stat` apart at spaces. `plain` says that the name of a process has none; the columns of any other are shifted, and
`Readings` has it ignored or read with any number of ticks.

`MonitorTool` is the program around them: the options, one group after the other (`Parse`), merged into a table (`Added`), the start of the groups one by one,
the loop with its poll, its row, its sleep and its end, `StopGroups`, and `Interrupt` wherever it may come. `program` tells the commands of
the tool ("pqos", "top") from the profiling of Muses. Three things the code does leave groups monitored and are kept: a group that is
refused ends the program with the groups before it running (`refused`), an `exit()` between set-up and loop leaves all of them (`gaveUp`:
`get_mon_arrays` without memory, `perf_event_open` refused in the loop of Muses), and a signal before the handler is installed kills the
program ("dead", where it does not end by itself). `NothingKept` excuses the first two by name and speaks of every other end.

### 2.11 AllocMachine and Rdtset

`AllocMachine` has one class per core and task and one definition per class and resource; `Unused`, `Associate` and `Define` are what a
caller sees of the library, over MSRs or resctrl. It keeps less than `CosAssignment` and `OsAllocation`
do (no failures of the library's own, no directories), and more of the callers: several processes, each somewhere in `main()`.

`Rdtset` has an action for each call rdtset makes. `line` is a parsed command line; `Configured` decides
whether the command is forked, tasks are moved or the program leaves. `Revert`, `Unpid`, `Exit` are the three ways to take a configuration back. `Interrupt` is
a signal between two calls, `InterruptInCall` one inside a call, after which the handler waits for the
mutex of the call it interrupted and everybody waits with it; `InterruptChild` is one to the child before exec.
Not every failure is taken back in full: `cfg_set_pids` without memory for its ids leaves its tasks where it put them (`NoneDefined`).

Three conditions in the properties are what the proofs could not do without, and each names something the code does:

* `contested`: a class given for tasks is only known to be in use by these tasks. When all of them end before it is
  defined, the next search finds it, and two rdtsets define one class. `ContestedByEndedTasks` proves that this takes tasks named by `-p` which
  have all ended, and that nothing else makes an exception.
* `Told`: cfg_configure_cos puts a default where the command line says nothing. Of L2 CAT it puts it in one cluster of a socket
  only, so with L2 CAT in use the other clusters may keep what the class was to somebody before.
* `Near`, `L2Searches`: over MSRs a request with L2 CAT searches its cluster, one without it the socket, so the first can join a class of the
  second elsewhere on the socket. `ClassIsItsOwn` then speaks of the cluster.

Over MSRs the combination `-r -p` lets a configuration for tasks through `validate_args`, and the library refuses it
(`lib/api.c:306`): `AssignPids` has no class to give there, and what was configured before is reverted.

## 3. Runs

The instances are the smallest in which every
interesting case happens, and the theorems of section 4 take the bounds away.

| run | instance | checks | shows |
|---|---|---|---|
| `lock_fair` | 3 processes, one of 2 threads; a register, a schemata and the masks of 2 cores, of 2 fields each | `NoUpdateLost`, `ReadsItsOwnCounter`, `ImplementsMutex`, `SomeoneGetsIn` | the lock is a mutex for single-threaded processes, it never wedges, and nothing set under it is lost |
| `lock_mixed` | 3 processes, one of 2 threads | `ProcessExclusion` | violated: finding 1 |
| `monitoring` | 3 cores in 2 clusters, 2 groups, 2 events with 2 and 3 RMIDs | `CountsExactlyItsCores`, `EveryRmidAccounted`, `HijackOnlyByReset` | groups stay apart through every failure |
| `cos_any` | 3 cores, 2 L2 clusters, 1 socket, 2 applications, 3/3/2 classes, 4 kinds of request | `ClassIsOursInCluster`, `ClassIsSharedOnlyWithL2`, `EveryClassAccounted` | who may share a class, and that none is lost |
| `alloc_reset` | 2 processes, 2 sockets, 4 mask registers, 1 L2 class, 1 core | `ResetRestoresDefaults`, `SetDefinesItsClass` | a reset that comes to its end is complete, one that reports success early has done L3 or nothing; classes stay apart under CDP |
| `os_alloc` | 2 cores, 2 tasks, 2 processes, 4 L3 and 3 MBA classes | `ClassIsOurs`, `KnowsGroups` | a class has one owner; belief follows the mount |
| `os_mon` | 2 threads, 2 groups, 5 descriptors, groups of 1 or 2, 3 combinations of events, 2 kernels | `CountersAreOurs`, `EveryFdAccounted` | descriptors are never mixed up |
| `lifecycle` | 3 threads, 11 machines, 3 lives, 1 failure | `InitAllOrNothing`, `RunsWhereItDid`, `TopologyIsTheMachines`, `UsesLiveCapabilities`, `ImplementsService` | an initialisation is all or nothing but for the blocks a failed one leaks, on any machine; calls are served in their own life only |
| `monitor_tool` | 3 cores in 2 clusters, 2 processes, 7 lists of options, counters of 3 values, 2 units of traffic, 1 failure | `ReportIsTraffic`, `RemoteIsTheRest`, `TableIsWhatWasAsked`, `TopAreBusiest`, `NothingKept`, `StopsWhenAsked` | what is shown is what happened; the loop ends and cleans up |
| `rdtset_faults` | 2 rdtsets, 3 cores, 2 sockets, 3 tasks, 11 pairs of command lines, 1 failure, signal or kill | `NothingLeftBehind`, `CoresUseWhatWasAsked`, `TasksUseWhatWasAsked`, `ClassIsItsOwn`, `ComesToItsEnd` | rdtsets do not disturb each other and take their classes with them |
| `loop_bursts` | counts to 8, offset 2, jump 1, threshold 1 | `BurstsGetTheirQuota`, `SettledLoadIsServed`, `AdjustmentsEnd` | no burst missed, load served, loop settles |
| `submit_faults` | 4 cores, 3 ways, 2 quotas, 2 online and 1 offline container | `SettledClassesAreApart`, `SettledCosMatchesCpus` | an undisturbed submit isolates, whatever came before |

`lifecycle`, `monitor_tool` and `rdtset_faults` check the type invariant of their modules as well. The type
invariants of the other modules, and `ThreadExclusion`, `RmidFitsEvents`, `ClassFitsRequest`, `ResetGivesRequestedCdp` and
`ResetStartsAfresh`, are proved for every instance (section 4) and need no run.

### 3.1 Bounds, and why they are enough

* `ApiLock`: the process of two threads is needed for any trouble with record locks, two
  others for a lock that passes between processes.
* `MsrMonitoring`, `CosAssignment`: an area of two cores shows groups that share an area, a second area
  shows what the search does not see. Different ranges of RMIDs and classes let an
  id exist for one technology only. Two users are enough for every property that speaks of a pair.
* `MsrAllocation`: two sockets can differ in CDP, four registers give two classes with CDP and four without. One L2 class
  is what a reset that stops after L3 leaves behind; it and the single core stand for the settings that CDP does
  not touch (there are no MBA classes), and the theorems have them all.
* `OsAllocation`: MBA has fewer classes than L3 without CDP and more with it, so that both limits of
  `resctrl_alloc_get_grps_num` bite. Two tasks give a parent and a child that outlives the release.
* `OsMonitoring`: five descriptors are fewer than two groups of two want, so they run out. `{rmem}` alone opens both arrays
  for one event, `{tmem, rmem}` shares one array and changes the order, `{llc, lmem, ipc}` has the rest.
* `PqosLifecycle`: eleven machines give each outcome of each stage: threads and caches of one, two, three and more ids, with and without an L3,
  a single core, L3 CAT found in each of the three ways, CDP on, off and different by socket, kernels that support none, some or all. Three lives let one
  that failed lie between two that did not. One failure is enough since many machines refuse by themselves; two failures with two lives
  (2.3 million states) were checked as well.
* `PollValues`: a counter of three values overflows with two units of traffic; two contexts give sums of counters of
  which one has overflowed. `Word` stands for 2^64 and only has to be much larger than any sum.
* `TopPids`: a table of one and two numbers, so that one is pushed out; two processes in turn per number, with and without a space
  in the name, ticks up to two. Larger tables are left to the theorem.
* `Rdtset`: pairs of lines over both interfaces with one configuration and two, on one socket and two, with and without
  L2 CAT, for cores, commands and tasks, and one that the library refuses. With one fault, a process that takes back what it did meets one that does not fail.
* `QuotaLoop`: `MaxTasks` caps the load; 8 leaves room on both sides of offset plus threshold. The code's
  -54, 5, 10 are constants of any size in the theorem.
* `IsolationSubmit`: quotas of one and of two cores, one with a cpu share and a cache share to round up, one that takes
  all ways and all bandwidth, on four cores.

Symmetry is used for interchangeable processes, cores of one cluster, tasks, groups and containers, in runs
of invariants and action properties only; the runs with liveness properties have none.

### 3.2 Fairness

* `SharedRegister!FairSharedSpec`: weak fairness of the lock steps of each thread and of what follows a read or a selection. The bodies of API
  calls have bounded loops and no waits, and the kernel serves lock requests.
  Nothing obliges a thread to call or a process to die. `SomeoneGetsIn` is
  stated without strong fairness and so promises that someone gets in, not everyone.
* `Rdtset!FairSpec`: weak fairness of what each process, and its child up to the start of the command, does of
  its own accord. Nothing obliges a command to end, so `ComesToItsEnd` leads to an end or to a
  running command, or to a process that sleeps in its handler with the lock.
* `MonitorTool!FairSpec`: weak fairness of the program, which is sequential and whose calls return. Traffic and processes are under no obligation.
* `QuotaLoop!FairSpec`: weak fairness of the loop itself, which is sequential code with a bounded
  sleep. The load and the user are under no obligation; the liveness
  properties assume instead that the load stops moving.

### 3.3 Deadlock

TLC checks for deadlock except in `ApiLock` and `SharedRegister`, where all processes may have been killed,
in `QuotaLoop` and `MonitorTool`, which are left after Ctrl-C, and in `Rdtset`, whose processes end. In `lifecycle` the
absence of deadlock is part of the result: no order of initialisation, calls and shutdown leaves every thread waiting.

## 4. Theorems

All are for every value of the constants that satisfies the named assumptions of the modules:
that functions have the right domains (`ClusterOfType`, `SocketOfType`, ...), that an L2 cluster
lies in one socket (`L2InSocket`), that the number of mask registers is even (`NumRegsType`),
that quotas fit the machine (`QuotasFit`), that a word holds the sum of all counters (`SumsFitAWord`), that registers and files are apart and class 0 is a value
(`WordsApart`, `COS0Type`), that the cores are finitely many numbers (`CoresAreNumbered`), that a parsed configuration is for some technology (`LinesType`), and that names for "nobody" are not names of somebody.
TLC evaluates these assumptions in the runs.

| module | theorems | argument |
|---|---|---|
| `ApiLockProofs` | `TypeCorrect`, `ThreadExclusionHolds`, `LockImplementsMutex`, `ProcessExclusionHolds`, `NoUpdateLostHolds`, `ReadsItsOwnCounterHolds` | `MutexInv`: a thread between lock and unlock owns its mutex. `FileInv`: a lone thread past `lockf` runs in the process that owns the file, since no sibling can drop it; hence each step of the lock is a step or a stutter of `ApiMutex`. With lone threads only, all calls exclude each other. `UpdateInv` and `ReadingInv`, on top: a thread that has read a guarded word, or selected on a guarded core, is inside, alone among those that use it, and finds it as it left it; the write of a mask that nobody changed since moves one core only (`MergedIsChanged`) |
| `CosAssignmentProofs` | `TypeCorrect`, `ClassIsOursInClusterHolds`, `ClassIsSharedOnlyWithL2Holds`, `ClassFitsRequestHolds`, `EveryClassAccountedHolds` | `Apart`: what the search guarantees of the cluster and of the socket at once. `MoveKeepsOthers`: moving cores into a class unused around them disturbs nobody else |
| `MsrInterfaceProofs` | `TypeCorrect`, `ResetRestoresDefaultsHolds`, `ResetGivesRequestedCdpHolds`, `SetDefinesItsClassHolds` | `CapCountsRegs`: a process counts all registers or the pairs of them, so a reset covers them all whichever it believes (`AllIsReset`); `KnowsCdp`: a process that is not `unsure` believes what the hardware does |
| the same, groups | `MonTypeCorrect`, `CountsExactlyItsCoresHolds`, `RmidFitsEventsHolds`, `EveryRmidAccountedHolds`, `HijackOnlyByResetHolds` | `IInv`: undisturbed groups own their registers (`RegistersInv`: RMID not 0, on their cores and on no other of the cluster) and share no core (`DisjointInv`). The property alone is not inductive: without "not RMID0" and disjointness a stop could take the core of another group |
| `OsInterfaceProofs` | `TypeCorrect`, `ClassIsOursHolds`, `KnowsGroupsHolds`, `ResetStartsAfreshHolds` | `OwnInv`: as soon as anything of an unmeddled holder is in its class, the class is its own; forks keep it because a child takes class and owner from its parent |
| the same, perf groups | `MonTypeCorrect`, `CountersAreOursHolds`, `EveryFdAccountedHolds` | `MonInv`, from nine parts: who is inside (`LockInv`, `OpeningInv`), arrays full or empty (`FilledInv`, `MarkedInv`), a group that is not live lacks an array (`BrokenInv`, which is why a late stop crashes rather than closes the descriptors of others), live arrays apart (`ApartInv`), and what is open (`Remains`, `OpenInv`) |
| `PqosLifecycleProofs` | `TypeCorrect`, `InitAllOrNothingHolds`, `RunsWhereItDidHolds`, `UsesLiveCapabilitiesHolds`, `ServiceImplemented`, `TopologyIsTheMachinesHolds` | `LifeInv`: who may be where in a call (`LabelInv`, `AloneInv`), that a mutex not destroyed belongs to the thread past the lock (`MutexInv`), what is up at each stage of `pqos_init` (`StageInv`), whose capabilities each part keeps (`KnownInv`), where the thread is bound (`CpuInv`). `MemInv`, on top: the blocks allocated are those of the life in hand or of lives that are `lost`. `ServedInv`: a thread in the body of a call finds the library up; the check under the lock establishes it and `pqos_fini`, which takes the same lock, cannot break it. Every step then is one of `ApiService` or a stutter. Of the topology the theorem says that leaving out cpus does no harm where the shifts read the whole machine right (`ReadsRight`, the hypothesis); that they do is arithmetic, which `lifecycle` has TLC do for its machines whenever the thread could go to every cpu |
| `RdtsetProofs` | `TypeCorrect`, `NothingLeftBehindHolds`, `ClassIsItsOwnHolds`, `CoresUseWhatWasAskedHolds`, `TasksUseWhatWasAskedHolds`, `ContestedByEndedTasks` | see 4.1 |
| `MonitorToolProofs` | `TypeCorrect`, `ReportIsTrafficHolds`, `RemoteIsTheRestHolds`, `TableIsWhatWasAskedHolds`, `TopAreBusiestHolds`, `NothingKeptHolds` | see 4.2 |
| `MusesProofs` | `LoopTypeCorrect`, `BurstsGetTheirQuotaHolds` | `LoopInv`: between rounds the last count is the current one; `QuotaInv`: the property without its condition on the place |
| the same, submit | `TypeCorrect`, `SettledClassesAreApartHolds`, `SettledCosMatchesCpusHolds` | `HeldInv`: whatever failed, a class has all cores or those of some quota, and the cores of two quotas are nested (`QuotasAreNested`), so the write of a class succeeds or has nothing to do; `ProgressInv`: what each step of an undisturbed submit has established |

`ThreadExclusionHolds` is what allows `OsMonitoring` to serialise the bodies by `inside`;
`ProcessExclusionHolds` is what allows the other models to take a call as one action.

### 4.1 Rdtsets beside each other

`RdtsetProofs` is about any number of processes with any command lines, on any machine whose resource ids have no gaps (`NoGaps`, which
the two theorems about types and about what is left behind do without).

*Steps.* The 22 actions of a process fall into five kinds (`StepKinds`): a process takes an unused class for cores (`TakesCores`) or
tasks (`TakesTasks`), defines it for one technology on one resource (`Writes`), gives up what it held (`Drops`), or leaves the machine
alone (`Quiet`). Everything after that lemma speaks of kinds. Only its own cores and tasks are moved by a step (`StepsMove`).

*What is held.* `Held`, `HeldPids` and `Defined` say, at each place of the loops over configurations, resources and technologies, which
cores and tasks a process has put where and what of their class it has defined. `LoopInv` keeps the loops to what they have to go over.

*The invariants*, each on top of the one before:

| invariant | says | is needed because |
|---|---|---|
| `IsolInv` | a core that is held shares its class with none near it but those it came with, a task with nothing; the class being defined is the one that was given (`Current`) | a class found unused has nobody to disturb, and others cannot move into it |
| `PendingInv` | while a class given for tasks is not yet defined nobody uses it that is not `contested` | over resctrl `Current` says nothing of a class whose tasks have ended |
| `DefinedInv` | what is `Defined` of what is `Held` is as the command line says; without L2 CAT in use L2 is as after a reset | a definition hits one class on one resource, and by the first two nobody else who has it there (`CoreUntouched`, `TaskUntouched`) |
| `OwnedInv` | a core that a process owns is in a configuration it has yet to take back (`MayOwn`) | `NothingLeftBehind` alone says nothing before the end |
| `ContestedInv`, `LiveInv` | only tasks that have all ended leave a class to be contested | the exception in the properties must not grow |

`CoresUseWhatWasAsked`, `TasksUseWhatWasAsked` and `ClassIsItsOwn` are these at the places where all is held. Looking for the
invariants showed the three conditions of 2.11, which TLC confirmed on lines added for them.

### 4.2 What a poll reports

`MonitorToolProofs` is about counters of any width, any number of cores and clusters, any options and processes. It assumes that a word holds the
sum of all counters (`SumsFitAWord`: 2^64 over 2^24 leaves room for 2^40 of them) and that the context ids, cores and processes are finitely many.

*Sums.* A poll adds up what it reads context by context, so the theorems are about sums over a set of any size. `Total(f, S)` is the
number of boxes of stacks as high as `f` says: what is known of the cardinality of finite sets then gives what sums need
(`TotalAdds`, `TotalGrows`, `TotalPlus`), without recursion.

*Steps.* `ToolMovesValues`: whatever the programs do, to the values they start the group once, begin or go on with a poll, let the cores work, or nothing (`ValuesNext`).

| invariant | says | is needed because |
|---|---|---|
| `PollTypes` | types, readings of what there is, contexts no more than cores | a sum does not wrap, which `PollTypeOK` alone does not give |
| `ReadInv` | the sums that are stored are those of some earlier reading (`Past`), the sum under way that of one after it (`Sweep`); sums shown are the true ones less a width for each turn (`Shows`) | `ReportIsTraffic` speaks of two readings taken context by context while traffic went on; the difference of the sums alone could come from readings that cross |
| `ToldInv` | what was read of so far in a poll is told right (`Told`), and `valid_mbm_read` says whether a poll went through | a poll that fails half way leaves one kind stored and the other not |
| `RestInv` | after a poll without traffic both readings are of one time (`Together`); since then the total has grown by no less than the local (`Covers`), also between the two stores of a poll (`Apart`) | the remote bandwidth subtracts two differences that are stored one after the other; it is cut off at 0 unless the one covers the other |
| `TopInv` | what the list says of each process at each stage of the two scans, and that the table keeps the highest of what was filled in | the table alone does not say why a process is not in it |
| `TableInv` | the table is what the groups taken so far ask for, no core twice | the property is about the end of all the options |
| `KeptInv` | nothing is monitored before the set-up, nor in a set-up that mixes cores and processes | `NothingKept` only speaks of the end |

`DeltaTells` is the reason `get_delta` is right: if the two sums are off by at most one turn of one counter, adding one width makes up for it.

### 4.3 What stays model-checked

Every invariant and action property of the passing runs is proved, and so are both refinements; of the topology the arithmetic
of the APIC ids of concrete machines is left to TLC. The liveness properties (`SomeoneGetsIn`, `SettledLoadIsServed`, `AdjustmentsEnd`, `ComesToItsEnd`,
`StopsWhenAsked`) are only model-checked since liveness under fairness is beyond the provers used. The violated property is a counterexample on the instance given.

## 5. Findings

1. `lock_mixed` (`lib/cap.c:237`). `_pqos_api_unlock` drops the record lock of the whole
   process while a second thread of the process has passed `lockf` and goes on to run. A process of
   several threads and another process can be inside at once, against the comment at
   `lib/cap.c:145` and `pqos/README:51-52`.

Seen while modelling, kept in the models as the code has it, and excused in the properties by the condition named:

* After a CDP write that failed on one socket `pqos_init` refuses every new process with "Please reset CAT or reboot
  your system!" (`lib/cap.c:539`), so nobody new can call the reset. `MsrAllocation!PqosInit` keeps the refusal.
* A reset that cannot allocate the table of sockets or of L2 clusters goes to its exit with `PQOS_RETVAL_OK` (`lib/allocation.c:1264`,
  `1296`), having reset nothing or only L3, where `lib/pqos.h:646` says that it "Reverts CAT/MBA state to the one after reset". `ResetRestoresDefaults` says what each success means.
* A `pqos_init` that fails after the capabilities were collected frees `m_cap` and leaks their blocks (`lib/cap.c:1583`), which `pqos_fini`
  frees (`lib/cap.c:1638`). `InitAllOrNothing` says that nothing else stays.
* `get_pid_cputicks` splits the line of a process at spaces (`pqos/monitor.c:963`). A name with a space shifts the columns, and the busiest process
  can be missed or a quiet one shown in its place. `TopAreBusiest` speaks of names without one (`Legible`).
* `cfg_set_pids` without memory for its ids returns before the release of its tasks (`rdtset/rdt.c:1376`), which keep a class not defined for them.
* The load is compared with the threshold when the trigger is set and not when it is used (`pqos/main.c:1258`): after a short
  burst the quota is asked for with fewer clients than the comment at `pqos/main.c:1239` guarantees. `BurstsGetTheirQuota` speaks of counts above the threshold.
* When a class grows, containers are written before their parent (`pqos/update_cpus.sh:15`) and the kernel
  refuses. They stay with the old cores; the classes remain apart, the quota does not arrive.
* A signal inside an API call of rdtset makes the handler wait for the mutex of the call it interrupted
  (`rdtset/rdt.c:1548`), and every rdtset with it. `ComesToItsEnd` names the case.
* Two rdtsets can define one class when the tasks of the first end before it has defined it (`contested`), and with L2 CAT in use the default of
  L2 is put in one cluster of a socket only (`rdtset/rdt.c:1240`, `Told`); a search by L2 cluster joins classes of a search by socket (`Near`).
* `get_max_res_id` (`rdtset/rdt.c`) counts ids where its callers want the largest one plus one: with ids that have gaps, some are never visited.
* `nearest_pow2(1)` is 1 (`lib/cpuinfo.c:230`), so an L2 that belongs to one id is taken for shared by two neighbours.
  `SaysWhatIsShared` excludes the L2 clusters of such machines.
* A failing allocation part unwinds `pqos_init` without `pqos_mon_fini`; the pointers it leaves are replaced before the next call is
  let in (`UsesLiveCapabilities`). A monitoring part that fails does not fail `pqos_init`; calls for monitoring then meet NULL or
  the pointers of an earlier life, and the property speaks of lives in which it came up. `log_hw_caps` says "Disabling this capability" and disables nothing.
* With a highest core id of 0 `machine_init` reports an error: on a machine of one core, or when only cpu 0 could be gone to, nothing initialises.
* `monitor_setup` leaves the groups before a refused one monitored (`pqos/monitor.c:684`). The programs
  exit without a stop when `get_mon_arrays` has no memory (`pqos/monitor.c:1929`) or `perf_event_open` is refused (`pqos/monitor.c:2241`). `NothingKept` names them.
* When no process can be ranked, the top-pids mode monitors all cores instead (`pqos/monitor.c:615`).
* `pqos_core_poll` reads `fd_ins`, 0 unless Muses set it, so that outside its loop a poll reads standard input (`lib/monitoring.c:722`).

## 6. Limits

* `MsrAllocation` excludes processes behind whose back CDP was changed (`unsure`) from
  `ResetGivesRequestedCdp` and `SetDefinesItsClass`; the code gives them no guarantee. `ResetRestoresDefaults` has no such exclusion.
* COS and RMID share a register and live in different models, each atomic, as are settings of schemata and masks; `SharedRegister` shows why that is sound where the lock excludes.
* `PqosLifecycle` leaves out callers that overlap a second `pqos_init`, sizes of caches, ways of the masks and FreeBSD.
* `MonitorTool` follows the values of one group and takes a process to have one thread; its tables are large enough (the code drops the 129th process without a word).
* `Rdtset` takes command lines that were parsed, and resource ids without gaps in its instance and in all but two of its theorems.
  `NothingLeftBehind` speaks of cores: the tasks of a configuration that is reverted may stay in its class.
  `ClassIsItsOwn`, `CoresUseWhatWasAsked` and `TasksUseWhatWasAsked` cover what others do between the assignment of a class and its definition. They leave out
  rdtsets whose command lines name the same core or task (`AllAlone`), and with them two that both find a core free in `check_cpus` and
  then race for it: nothing in the code keeps the second from taking it over.
* Class ids given to the MSR calls are in range, as the callers in the repository see to.
* Programs that write to resctrl or to cpusets by hand are outside the models, apart from the
  association calls of the library.
* The bodies of `MsrMonitoring` calls check the valid mark atomically; the gap before the lock is modelled in `OsMonitoring`.
* `OsMonitoring` takes all arrays of a group to have one size, as they have, and does not model values.

### Not modelled, and why

* The counters of the cores (IPC, LLC misses) in a poll: they are read and subtracted like the others, without sums or overflow.
* Detection of perf events in sysfs, parsing and printing (masks, schemata, options, profiles, rows of output): text in, text out.
  Their results are inputs of the models.
* `lib/utils.c`, `pqos/cap.c`: searches without state. `pqos/alloc.c`, `profiles.c`: what their lists of calls do to the machine is in
  `CosAssignment`, `MsrAllocation` and `OsAllocation`; the program they belonged to is commented out, but for `set_allocation_assoc`, which `MonitorTool` and `IsolationSubmit` use.
* `get_best_quota.py`, `train_model.py`: a random forest decides. The search over its predictions is a loop without state; any
  quota in range is an input of `IsolationSubmit`.
* `lib/perf.c`, `lib/log.c` beyond what their callers see: one system call each.
* Examples, the SNMP agent and the Perl wrapper: calls of the API one after the other.
* About half of the lines under `src/` that are not text are headers of Python and build output. They are not part of the program.

## 7. Plan

The order followed put what decides isolation first: the lock all else rests on, the two resources handed out through registers,
class definitions and CDP, the controller, the OS interface, then the programs that call the library and its life cycle. What is left, in order:

1. An abstract specification of resource ownership (each resource has at most one owner) that `CosAssignment`,
   `OsAllocation` and `MsrMonitoring` are shown to implement, each by its own mapping.
2. The pseudo lock of the examples (`examples/c/PSEUDO_LOCK`), a sequence of class settings that must be taken back. It reads the classes in
   one call and writes them back in others, so the lock does not protect it as `SharedRegister` shows it for one call.
