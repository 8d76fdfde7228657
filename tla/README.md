# Verification of the EDK II firmware core

TLA+ models of the control core of this repository (EDK II, branch UDK2018), the
TLC configurations that check them on small instances, and TLAPS proofs of what
matters most for every instance.

- `tlc -config X.cfg M` checks module `M` under the configuration `X.cfg`; the
  tables under *Runs* name the runs, `PROJECT.json` the pairs.
- `tlapm M.tla` checks the proofs of module `M`; the modules with proofs are those
  whose names end in `Proofs`, listed in section 8.

## 1. The system

The repository is a firmware for PC-class machines. After reset the PEI
foundation finds memory, the DXE foundation (`MdeModulePkg/Core/Dxe`) loads
drivers and gives them boot services, and a boot manager starts an operating
system. Some drivers live on in System Management Mode, and runtime services
(variables above all) survive the hand-over. Everything in DXE runs on one
processor; concurrency comes from one timer interrupt and the task priority
levels (TPL) built on it, from the other processors when MP services or SMM use
them, and from power failures, which stop the flash drivers anywhere.

### Inventory

| component (main files) | state | operations | talks to | what is hard | what makes it correct |
|---|---|---|---|---|---|
| Events and TPL (`Core/Dxe/Event/Event.c`, `Tpl.c`) | current TPL, interrupt flag, a notify queue and a pending bit per level, list of signal events, per event `SignalCount`, list links, signature | RaiseTPL, RestoreTPL, CreateEvent(Ex), SignalEvent, CheckEvent, WaitForEvent, CloseEvent, the dispatcher | every driver; timer interrupt; protocol notification signals events | an interrupt between any two critical sections, nested dispatch, callbacks that close or signal the events being dispatched | an event is queued once at its level, none is forgotten, none is used after it is freed, the level discipline holds |
| Timers (`Event/Timer.c`) | ordered timer list, system time, its lock | SetTimer, CheckTimers, TimerTick | events; the interrupt reads the list while it is being edited | stale reads of the time, list edited with interrupts on | no early firing, no lost expiry, list ordered and free of closed events |
| Locks (`Library/Library.c`) | owner TPL, lock flag | acquire, acquire-or-fail, release | TPL | a lock is a level, not a mutex: re-entry is an ASSERT | never acquired twice |
| Timer interrupt (`8254TimerDxe/Timer.c`) | period | interrupt handler | TPL, timers | nests inside its own RestoreTPL | returns to the level it interrupted |
| Handle database (`Core/Dxe/Hand`) | handles, protocol interfaces, open lists, notify lists | install, reinstall, uninstall, open, close, register notify, connect, disconnect | events, drivers' binding protocols | the lock is dropped around driver calls and the data looked up again | no interface is removed while open by driver; every registration sees every install |
| Dispatcher (`Core/Dxe/Dispatcher`) | driver entries, their flags, scheduled queue, dependency expressions | discover, dispatch, schedule, trust | handle database (protocols present), images | drivers install protocols while the queue is evaluated; before/after chains | every driver whose expression holds is started once |
| Memory services (`Core/Dxe/Mem`, `Gcd`) | memory map, free lists, space maps | allocate and free pages and pool, convert, add, set attributes | events (map change), images | the pool lock released in the middle of an allocation; map entries allocated from the map | ranges partition the address space, no page is owned twice |
| Images, firmware volumes, sections | loaded images, volume and section caches | load, start, unload, exit, read | dispatcher, handle database | start can exit by a long jump | an image is unloaded when nothing uses it |
| PEI foundation (`Core/Pei`) | PPI lists, HOBs, dispatch flags | install, locate, notify PPI, dispatch, migrate | platform modules | lists relocated when memory appears | as the dispatcher |
| SMM core (`Core/PiSmmCore`) | SMI handlers, SMRAM map, protocols | register, unregister, manage SMIs, dispatch | SMM CPU driver | handlers unregister themselves and others while the list is walked | no handler is called after its removal |
| SMM rendezvous (`UefiCpuPkg/PiSmmCpuDxeSmm/MpService.c`) | arrival counter, per-CPU busy and run flags, BSP election | SMI entry, wait for arrivals, start a procedure, leave | synchronization library, SMM core | two time-outs, late arrivals, lock-free counters | no processor leaves before the BSP lets it, none waits for ever |
| MP initialisation (`UefiCpuPkg/Library/MpInitLib`) | per-AP state, start-up signal, finished count | wake up, start one or all APs, time-outs, enable and disable, switch BSP | timer events, local APIC | results race with time-outs | a procedure runs once, its caller hears exactly one outcome |
| Synchronization library | a lock word | acquire, try, release, increment, compare-exchange | all multiprocessor code | atomicity | mutual exclusion |
| Fault tolerant write (`Universal/FaultTolerantWriteDxe`) | work space in flash (header, write records), spare block, target blocks, its copy in memory | allocate, write, restart, abort, get last write, reclaim, recovery at start | flash block protocol, variable services | power may fail at every flash operation | a block holds its old or its new contents, whatever fails |
| Variables (`Universal/Variable/RuntimeDxe`) | variable store in flash and its copies, headers with a state byte | get, set, get next, query, reclaim | fault tolerant write, events | the two-step update of the state byte, reclaim | a variable keeps its old or gets its new value |
| Network stack (`NetworkPkg`, `Universal/Network`) | sessions, windows, timers, tokens | TCP, MTFTP, DHCP, PXE, HTTP, iSCSI, IPsec | events, timers, each other's tokens | loss, duplication, retransmission, cancellation | streams delivered in order and once; every token completed once |
| File system and disk I/O (`FatPkg`, `DiskIoDxe`) | FAT cache, directory entries, task lists | open, read, write, flush; asynchronous tasks | block I/O, events | subtasks completing in any order, cancellation | a request completes once |
| Buses and device drivers | descriptors, rings, schedules | PCI, USB, ATA, NVMe, SD, serial | hardware | asynchronous transfers | each transfer completes once |
| Consoles, HII, setup, BDS | key queues, packages, forms, boot options | input, output, browse, boot | events | key notifications | — |
| PCD, status codes, capsules, watchdog | tables | get, set, register, report | events, variables | callbacks that re-register | — |
| Security | digests, event log, key databases | measure, verify, enrol | variables, images | — | cryptographic data |
| OVMF, ARM, emulator and board packages | device state, shared rings | virtio, Xen store, flash emulation | hypervisor | shared-memory rings | a descriptor has one owner |
| Shell, tools, samples, vendored code | — | — | — | sequential or host-side | — |

`PROJECT.json` lists the same components with their files, and under `hazards`
the places in the modelled code where a test would hardly reach.

## 2. Plan

The order follows importance: everything in the firmware runs on events and
levels, then on flash that survives power failures, then on several processors.

| step | modules | composes | abstract specification | theorems | state |
|---|---|---|---|---|---|
| 1 | `EventTpl`, `EventTimer` | `EventTimer` extends `EventTpl` | `EventTpl`'s `Spec`, which `EventTimer` implements | types, queues, levels, signals, lives of events; the timer list, its lock and the step refinement | modelled, checked, and every safety property proved |
| 2 | `BlockUpdate`, `Ftw` | `Ftw` implements `BlockUpdate` | a block is replaced atomically | types; the order of series; the queue, the boot block, recovery and the refinement, for single writes | modelled, checked, and every safety property proved, the last four for single writes |
| 3 | `SmmRendezvous` | counter and semaphores as atomic steps | one BSP, the APs it counted follow it | types, one BSP, the APs in step with it, what follows from that | modelled, checked, and every safety property proved |
| 4 | `MpDispatch` | the periodic check as one more call | each start is answered by its own completion | completions, availability, order, stacks | modelled, checked, and every safety property proved, for callers as in the runs and until a reset is cut short |
| 5 | `VariableStore` | above `BlockUpdate`, and implements it for names | a variable is replaced atomically | what the log holds of a variable; the refinement | modelled, checked and proved, for the updates of the run |
| 6 | `ProtocolDb`, `Dispatcher` | above the notify interface of `EventTpl` | open and installed relations; started set | closed under dependencies | |
| 7 | `PageMap`, `SmiHandlers` | | partition of the address space; registered set | partition is preserved | |

Parameters are CONSTANTS with named assumptions, every operation is an action,
invariants are conjunctions of named parts, and no module with proofs uses a
RECURSIVE operator. Every property of a run has a mutant of the code (in the
modules, marked *Mutant*) under which that run fails.

## 3. Events and task priority levels

### `EventTpl`

One processor executes a *stack of activations*: the application, notify
functions, the core services they called, and timer interrupt handlers. An
activation is a record of where it is (`pc`), the event it works on (`ev`) and a
level (`lvl`): the level it returns to or works at. Only the last one runs. A
step is a piece of code an interrupt cannot split. `CoreAcquireEventLock` raises
to `TPL_HIGH_LEVEL`, which turns interrupts off, so a critical section is one
step, up to the `CoreRestoreTpl` that its release calls; that call is pushed as
an activation of its own (`CoreReleaseEventLock`), and its loop, its dispatches
and its final assignment of `gEfiCurrentTpl` are separate steps, because
interrupts may come on in the middle.

| code | model |
|---|---|
| `gEfiCurrentTpl`, the processor's interrupt flag | `gEfiCurrentTpl`, `interrupts` |
| `gEventQueue[]`, `gEventPending`, `gEventSignalQueue` | the same names; lists are sequences, the bitmask is a set of levels |
| `Event->SignalCount`, `Event->Signature` | `SignalCount`, `live` |
| protocol notify lists | `registered` |
| local variables `Link`, `Index` | the same names |
| `CoreRaiseTpl`, `CoreRestoreTpl` | `CoreRaiseTpl`; `CoreRestoreTpl`, `RestoreTplDispatch`, `RestoreTplExitLoop`, `RestoreTplSet` |
| `CoreDispatchEventNotifies` | `DispatchNext`, `DispatchCall`, `NotifyReturn`, `DispatchDone` |
| `CoreSignalEvent`, `CoreNotifySignalList` | `CoreSignalEvent`, `NotifySignalListLock/Step/Unlock`, `SignalRelock` |
| `CoreCheckEvent` | `CoreCheckEvent`, `CheckQueue`, `CheckAgain`, `CheckClear` |
| `CoreWaitForEvent` | `CoreWaitForEvent`, `WaitCheck`, `WaitNotReady`, `WaitIdle`, `WaitReturn` |
| `CoreCreateEventInternal`, `CoreCloseEvent` | `CoreCreateEvent`, `CoreCloseEvent`, `FreeEvent` |
| `CoreRegisterProtocolNotify`, `CoreNotifyProtocolEntry` | the same names |
| `TimerInterruptHandler` | `Interrupt`, `InterruptReturn` |

What callers promise is written as guards and named there: an owner does not
close an event while a service it passed the event to is running, and closes it
at or below its notify level (`OwnerMayClose`); nobody signals an event it is
closing, except the protocol database, which does not ask; a notify function
returns at the level it was called at; RestoreTPL is called with a level
RaiseTPL returned. Notify levels lie strictly between `TPL_APPLICATION` and
`TPL_HIGH_LEVEL`, as the specification of CreateEvent and `Event.c:441` demand.

Abstracted: the link fields of a closed event count as unlinked (the code removes
them under the lock); the fields of a freed event mean nothing; allocation of the
event structure and the release of the protocol database's lock are not steps of
their own; argument checks that fail and change nothing are left out.

### `EventTimer`

Extends `EventTpl` with the timer list. `mEfiTimerLock` is a level below
`TPL_HIGH_LEVEL`, so ticks arrive while the list is edited, and `CoreSetTimer`
and `CoreCheckTimers` are split at every access a tick could see: removing the
event, locking and reading the system time, inserting, signalling the check
event, releasing. `op` is where the owner of the lock is; `canceller` marks
a CloseEvent between its `CoreSetTimer (TimerCancel)` and the rest. `CoreTimerTick` is
`Interrupt` with the list head examined. The whole of `EventTimer` is a
superposition: every step of it is a step of `EventTpl` or leaves its variables
alone, which the run `EventTimer` checks and `TimersImplementEvents` proves, so
every safety property of `EventTpl` holds with timers too.

### Runs

| run | instance | shows |
|---|---|---|
| `EventNested` | the core's two events, one driver event at a time, either a signal event in the idle event's group that may be registered for protocol notification or a NOTIFY_WAIT event that is polled and waited for; two nested handlers | types; an event is queued once at its level; no signal is lost; notify functions nest by level; the ASSERTs on levels; pending bits never miss a queued event; an event that is queued or about to be called is not freed |
| `EventTimer` | a timer with a notify function and a polled one, one shot or periodic, delays 0 and 1, set, cancelled, closed | the timer lock is never taken twice, the list is ordered and free of closed events whenever a tick may read it, refinement of `EventTpl` |
| `EventTimerLive` | two timers, one with a notify function and one polled, one shot or periodic, delay 0; a tick may pass two periods | an expired timer leaves the list, a queued notify function is dispatched |

Bounds. The four levels are the application's, the level of the idle event and of
`TPL_NOTIFY`, the check event's, and the one that masks interrupts. One driver event
with the two events of the core gives two events at one level, a group with two
members and interleaved walks; `MaxEvents` lets the allocator reuse the room for the
other kind. `MaxIrq` bounds how many handlers are on the stack: one handler
reaches every interrupt position, two reach a handler inside another handler's
RestoreTPL. The 64-bit time stops at `MaxTime` while ticks go on. A tick lasts two
timer periods and the time ends with it, so it may come before, within or after a walk over the
list or a CoreSetTimer. A periodic timer is checked before the tick, and rearmed behind
what the tick then makes of the time; or after it, when its next trigger is past too and it is signalled again at once
(`Timer.c:148-151`), rearmed at the present time and found expired by the same walk. Comparisons of
times see no more than this order. `EventTimerLive` has the delay 0 only (a one shot timer
for now, a periodic one of one timer period); `EventTimer` has a delay of one as well. That a timer does not
fire early is the guard of `CheckTimersRemove` (`Timer.c:118-122`) and no property.

Fairness. `TimerLiveSpec` assumes that the processor executes (weak fairness of the
core's steps and of notify functions returning), that the application ends the
timer services it has begun, and that it goes on restoring levels, ones it raised or, as
every service that takes a lock does, by using services (strong fairness of the last two,
since an interrupt may disable the step for a while). Notify functions ask for no
services: one that signals its own event starves the lower levels, which
the code permits. Ticks may go on or stop at any moment, and those at the time bound come
only while the application is at its own level, so that the core has time to finish:
a tick for every instruction would starve everything. `ExpiredTimersFire` assumes that ticks
go on (strong fairness, stated in the property); `NotifyDue` does not.

A reader of `Tpl.c:92-93` ("If the new priority unmasks events at a higher priority,
they are dispatched") should know: a tick between the loop test and the assignment
of `gEfiCurrentTpl` (line 144) queues the check event, which RestoreTPL then leaves on
its queue. It waits for the next RestoreTPL or tick. `NotifyDue` shows that it is not
lost: the next RestoreTPL dispatches it even when no further interrupt comes.

### Where the guarantees end

- A signal event without a group, registered for protocol notification, at `TPL_CALLBACK`
  (`EventNested` with `DriverTpl = 8` and no group): `QueuedIsLive` fails. CloseEvent takes
  the event off its queue and drops the lock (`Event.c:763`), and only then unregisters its
  protocol notification and clears the signature (`Event.c:769`, `776`). A protocol installed
  in between, by a notify function above the event's level, queues the event again, and it is
  freed on the queue. At `TPL_NOTIFY`, the highest level at which a protocol may be installed,
  nothing that installs protocols can come in between, and an event with a group
  is found by a walk of the list it has already left.

## 4. Fault tolerant write

### `BlockUpdate` and `Ftw`

`BlockUpdate` is the promise: blocks have contents, one update at a time is
asked for, and it is committed as a whole or dropped. `Ftw` is the driver. To
update a block it writes the new contents to the spare block, sets
`SPARE_COMPLETED` in a record of the write queue, copies the spare block to the
target and sets `DEST_COMPLETED` and `WRITES_COMPLETED`. The queue lives in the
work space of the working block; when it is full it is compacted by way of the
spare block too.

| code | model |
|---|---|
| target blocks, spare block, working block | `target`, `spare`, `work`; a block is its header's state bits, its queue and its data |
| `EFI_FAULT_TOLERANT_WRITE_HEADER` and `_RECORD` in the queue | cells of `queue`: the state byte as a set of flags, `NumberOfWrites`, the block the record names; both structures are 40 bytes and their state bits are the same bits |
| top swap bit | `swap`; while it is set, writes to the spare's address go to the boot block |
| `FtwLastWriteHeader`, `FtwLastWriteRecord`, `Offset` | `hdr`, `rec`, `offset`, as cell numbers |
| `TempBuffer`, `Buffer`, `SpareBuffer` | `image`, `spareBuffer` |
| the point reached, the callers' return points | `pc`, `ret` |
| `FtwAllocate`, `FtwWrite`, `FtwRestart`, `FtwAbort`, `FtwGetLastWrite` | the actions of these names start the service; `Allocate`, `AllocateHeader`, ... are its flash operations |
| `WorkSpaceRefresh`, `FtwReclaimWorkSpace` | `Refresh`; `FtwReclaimWorkSpace`, `ReclaimErase` to `ReclaimInvalid`, `RestoreErase`, `RestoreWrite` |
| `FlushSpareBlockTo...Block` | `FlushSpareValid` to `FlushWorkValid`; `FlushToTarget`, `FlushTargetWrite`; `FlushSpareBlockToBootBlock` to `FlushBootUnswap` |
| `InitFtwProtocol` | `InitRefresh` to `InitRestart` |

One action is one operation on the flash, or a decision between two. At each of them
`PowerFailure` may strike: the operation happens, does not happen, or, when it
erases or writes a whole block, leaves the block torn; memory is forgotten and
`InitFtwProtocol` runs, itself open to failure. Programming a state byte, a header or a
record is atomic. `DeviceError` is the same without the
loss of power, in a service.

`Contents` maps the driver to `BlockUpdate`: a block is read from the spare block
while an unfinished record names it, and so is the data of the working block
while that block is invalid and the spare block holds a valid image of it.
`UpdatesAreAtomic` is `BlockUpdate`'s `Spec` under this mapping; the commit is
the programming of `SPARE_COMPLETED`.

Callers are sequential. An unfinished write is repeated with the same block, as
`UpdateDriverDxe` does after `GetLastWrite`, and not aborted while its data is in the
spare block. (That driver does abort a write it could not restart, `FlashUpdate.c:288`,
and so gives the data up; no property covers it.) The sizes of private data are
abstracted: a header or a record is one cell. A block's lengths and offsets are, too:
a write replaces the data of a block.

### Runs

| run | instance | shows |
|---|---|---|
| `FtwBlocks` | boot block and one other block, single writes, queue of 4 cells, `LiveSpec` | updates are atomic; an intact boot block at every moment; writes stay in the queue; what the spare block holds reaches its target |
| `FtwShared` | the data in front of the work space, device errors | updates of the working block itself are atomic |
| `FtwSeries` | series of 1 and 2 writes, queue of 6, target's protocol possibly absent at start, torn queues | records complete in order; recovery leaves nothing unfinished |

Bounds. The queue holds two single writes, so that it fills, is compacted
and filled again. With 6 cells a series of two fits twice, or behind one single write and not
behind two, which is where `FtwAllocate` reclaims by itself; the header it then
loses lies among the records of a later series. Two values tell old
from new contents, a third one only renames. The number of failures is not bounded.

Fairness. `LiveSpec` assumes that the driver runs while there is power (it is
sequential and waits for nothing) and that power stops failing; without the latter a
machine that fails in each recovery never completes one. Callers are not assumed to
come back.

### Where the guarantees end

The constants mark the edge of what the runs claim. With one of these changes
TLC finds a violation at once:

- Series of two writes in `FtwBlocks` (`Size = 5`, `Counts = {1, 2}`): `WritesStayInQueue`
  and `BootBlockIntact` fail. When the series does not fit, `FtwAllocate` reclaims the
  work space and then writes the header at the offset computed before
  (`FaultTolerantWrite.c:116`, `140`). `WorkSpaceRefresh` does not find it there; the caller's
  next write fails and another allocation is let through. The lost header later lies
  where a record is expected; its two state bits read as `BootBlockUpdate` and
  `SpareComplete`, and the next start copies the spare block over the boot block. (For
  series without private data; with it the places rarely coincide.) This is why
  `SeriesInOrder` goes by the block a record names and not by its state bits: a lost header
  in the place of the second record is not blank while the first has yet to be written.
- `Missing` not empty in `FtwBlocks`: `UpdatesAreAtomic` fails. At start an unfinished
  write whose target has no block protocol yet is aborted (`FtwMisc.c:1369`), also when the
  target has been erased and the spare block holds the only copy.
- `TornOverruns = TRUE` in `FtwShared`: `UpdatesAreAtomic` fails. `InitFtwProtocol`
  refreshes the work space (`FtwMisc.c:1259`) before it checks it, although the comment
  three lines on says "If the working block workspace is not valid, try the spare
  block". If a torn queue reads as completed writes to its end, the refresh reclaims from
  the torn block and overwrites the valid image in the spare block. The same order
  costs only completed headers when the invalidated queue is full but not torn.
- `CallersGoOn = TRUE` in `FtwShared`: `UpdatesAreAtomic` fails. Services do not
  check that the work space is valid; after a device error in the flush to the working
  block the next write erases the only copy of the data. The runs assume
  callers that stop.

## 5. Processors in System Management Mode

### `SmmRendezvous`

A system management interrupt pends on every processor. Each enters SMM when it
may (a processor waiting for its start-up IPI cannot, and another may take long),
counts itself in `Counter`, and one of them becomes BSP. The BSP waits for the others,
with two time-outs and an IPI to the absent ones in between, then locks the
counter: from here on it knows how many APs follow it, and whoever comes later waits
for the end of the run and leaves. In up to six rounds, BSP and APs exchange one signal
each through a semaphore per processor.

| code (`MpService.c`) | model |
|---|---|
| the point each processor has reached | `pc`, per processor |
| `mSmmMpSyncData->Counter`, `InsideSmm`, `AllCpusInSync`, `BspIndex`, `CandidateBsp` and `SwitchBsp` | the same names; the candidates are a set, `SwitchBsp` is true when it is not empty; a counter that `LockdownSemaphore` has taken is `Locked` |
| `CpuData[].Run`, `Present`, `Busy` | `Run`, `Present`, `Busy` |
| `WaitForSemaphore`, `ReleaseSemaphore` | atomic steps on `Run` and `Counter`, which is what their compare-exchange loops amount to |
| `SmiRendezvous` | `SampleStatus`, `SampleInside`, `CheckIn`, `ElectBsp`, `Drain`, `ExitSmm` |
| `SmmWaitForApArrival` | `FirstWait`, `SendSmiIpis`, `SecondWait`, `SyncOn` |
| `BSPHandler` | `FlagPresence` to `SyncOff` |
| `APHandler` | `BspIsInside` to `NotifyLeft` |
| `InternalSmmStartupThisAp`, `SmmSwitchBsp` | `AcquireBusy`, `StartupThisAp`, `StartupDone`; `SmmSwitchBsp` |
| MTRR settings of a processor | `mtrr` |
| platform: SMIs, IPIs, the status bit | `RaiseSmi`, `EnterSmm`, `Unblock`, `pending`, `smiStatus` |

The synchronisation mode, a fixed BSP or an elected one, a platform hook that reads
the status bit or takes every SMI for valid, and the need to configure MTRRs are
chosen in the initial state, so that one run covers all of them. Statements of one
processor that no other can tell apart are one step. Three conditions come from the
environment and have names: `SecondTimeout` (the second wait is long enough for every
processor to take the IPI: the comment at the head of `SmmWaitForApArrival`), `Prompt` (no
time-out and no SMI handler ends while a processor is between two adjacent
instructions) and the calls of SMI handlers, which come from the BSP only.

### Runs

| run | instance | shows |
|---|---|---|
| `SmmRun` | three processors, BSP switches | one BSP at a time; the APs it counted are the ones it signals and they answer it; no normal mode code beside the SMI handlers; the code's ASSERTs; a scheduled procedure runs once; MTRRs are saved before any is set and are back at the end |
| `SmmLive` | two processors, no BSP switches, `LiveSpec` | everybody leaves; every SMI is handled |
| `SmmSwitch` (violation) | two processors, BSP switches, `LiveSpec` | an SMI after a switch may stay unhandled |

Bounds. The number of SMIs, IPIs and procedures is not bounded; the states are finite.
With three processors, two APs are in different phases beside the BSP, and a
late one stands beside one that was counted. The processors are interchangeable, and
`SmmRun`, which checks no liveness, declares them symmetric.

Fairness. A processor goes on executing in SMM, takes an SMI that is latched for it, and
its time-outs end (weak fairness of each processor's steps); SMI handlers call services
finitely often (strong fairness of `EndHandlers`). A processor that waits for its start-up
IPI may wait for ever.

### Findings

1. `SmmSwitch`: after `SmmSwitchBsp` only the candidate may become BSP
   (`MpService.c:1192`). Its latched SMI may have brought it into SMM while the previous
   run was ending: it waits for the end of that run and leaves, with its SMI used up.
   The other processors then find no BSP, time out, give up
   (`MpService.c:657-662`), and no IPI is sent because no BSP is known. The SMI stays
   unhandled, against the purpose stated in `MpService.c:393-397`.

### Where the guarantees end

With `Stalls = TRUE` in `SmmRun`, `NoNormalCode` fails and no other property does.
An AP that has given up waiting for a BSP (`MpService.c:654`) decrements the counter some
instructions later; if it stalls there, a BSP that enters counts it, and it
leaves for normal mode while SMI handlers run.

## 6. Dispatch of procedures to other processors

### `MpDispatch`

The BSP starts procedures on APs and collects them, without a lock: it writes the
function, sets the state `Ready` and a start-up signal, wakes the AP, and looks at the state
later. The AP clears the signal, runs the function and marks itself `Finished`. An AP
halts between procedures and is woken by INIT-SIPI-SIPI, or polls its signal.

| code (`MpLib.c`, `DxeMpLib.c`) | model |
|---|---|
| the point an AP has reached in `ApWakeupFunction` | `pc`, per AP |
| the point the BSP has reached; where `WakeUpAP` returns to | `bsp`, `ret` |
| `CPU_AP_DATA`: `State`, `StartupApSignal`, `ApFunction`, `Waiting`, `WaitEvent`, `ExpectedTime` | `State`, `StartupApSignal`, `ApFunction`, `Waiting`, `WaitEvent`, `limited` |
| `CPU_MP_DATA`: `StartCount`, `RunningCount`, `FinishedCount`, `SingleThread`, `WaitEvent`, `ExpectedTime`, `BspNumber`, `ApLoopMode` | the same names, `allWaitEvent`, `allLimited` |
| `CpuInfoInHob[].ApTopOfStack` | `ApTopOfStack`: whose stack it is |
| `WakeUpAP` | `WakeUpAP`, `SendInitSipiSipi`, `WaitApWakeup` |
| `CheckAllAPs`, `CheckThisAP`, `ResetProcessorToIdleState` | `CheckAllAPs` to `AllTimeout`; `ThisFinished`, `ThisTimeout`; `ResetProcessor`, `ResetToIdle` |
| `CheckAndUpdateApsStatus` | `CheckApsStatus`, `UpdateDone` |
| `StartupAllAPsWorker`, `StartupThisAPWorker`, `EnableDisableApWorker`, `SwitchBSPWorker` | the services of these names and their refusals; `ExchangeRole`, `OldBspFinished` |
| `MpInitChangeApLoopCallback` | `ChangeApLoop`, `ApsRelocated` |
| `ApWakeupFunction` | `ApStep`: `SeeSignal` to `CountFinished` |

The loop mode `"mwait"` stands for both loops that poll the signal. `CheckApsStatus`, run by
a periodic timer, returns at once while a call is in progress, so it is one more call
of the BSP. A time limit may expire at any check of a call that has one. `ApLock` is held
for one store and left out; so is the list of failed APs.

`Excess` names what callers and platforms may do that the code does not cope with.
The runs leave these out, or, in `MpLive`, let one in and name the exception in the property.

APs return at any moment, also while the BSP looks at them, lets their time limit expire or resets
one of them; an AP that polls its signal may see it as soon as it is stored. What the code
does not cope with there cannot be asked of callers, so it is in the model, and the ghost variable `cutShort`
says when it has happened: one `FinishedCount` serves all APs, and the BSP takes a reset for over
(`MpLib.c:1279`) when any AP has counted itself. A reset is *cut short* if
the AP that is reset has then not gone through `ApWakeupFunction` (`Restarted`).
Every property is stated for as long as no reset was cut short (`Undisturbed`).

### Runs

| run | instance | shows |
|---|---|---|
| `MpRun` | three processors, calls with a time limit, no excess | until a reset is cut short, a completion that is collected is that of the procedure the call started; APs whose call has ended, by completion or time-out, are available; single threads run in order and the turn of each comes; stacks stay distinct |
| `MpLive` | two processors, calls with and without a time limit, refused switches of the BSP | until a reset is cut short, every call returns, and every event of a call that does not block is signalled unless a refused switch has masked the timer interrupts |

Bounds. The sequence of calls is not bounded. Three processors give two APs, which is what order, a
reset beside an AP that returns, and stacks exchanged in turn need. In `MpRun` every call has a
time limit (`Limits`), which may never expire: calls without one have a subset of its
behaviours. `MpLive`, where it matters whether a limit must expire in the end, has both; its single AP leaves the
succession of single threads to `OneByOne` in `MpRun`. `FinishedCount` stops at `MaxFinished`, since it is compared with
one only. The CONSTRAINT `Undisturbed` of `MpRun` ends a behaviour where a reset is cut short:
`cutShort` stays set (`CutShortStays` in `MpDispatchProofs`), and every property is conditioned on it.
`MpLive` does not check for deadlock, because after such a reset the code may wait for an AP for ever; `MpRun` does,
up to such a reset.

Fairness. The BSP goes on executing, every AP does, and the periodic check runs between
the calls (strong fairness: a call in progress suspends it). A procedure returns or its
call has a time limit that expires.

### Where the guarantees end

After a reset that was cut short TLC finds `ApsAvailable` and `CallsReturn` violated, although the
specification promises that "All enabled APs are always available for further calls"
(`MdePkg/Include/Protocol/MpService.h:243-245`):

- An AP, the one that is reset or another, returns from its procedure around the time-out
  (`MpLib.c:1358`, `1447`); its count (`MpLib.c:701`) ends the wait of the reset (`MpLib.c:1279`). The
  BSP marks the AP idle (`MpLib.c:1285`), and then the AP, restarted by the INIT IPI, marks itself
  finished (`MpLib.c:694`). StartupAllAPs is refused from then on, because the AP is
  not idle (`MpLib.c:2115`). If the AP is sent its next task in between, the mark
  answers that call before its procedure has run.
- An AP that polls, reset to be enabled or to leave a group of single threads, sees the signal that
  `MpLib.c:1060` stores, runs through `ApWakeupFunction` and counts itself before the INIT IPI of
  `MpLib.c:1063` restarts it. That count ends the wait of the reset. When the restarted AP has cleared
  the signal, which it finds cleared, and the BSP then makes the AP ready for its next task and stores the
  signal, the AP takes the task with the signal set. It clears it after the task only, and
  until then the BSP waits in WaitApWakeup (`MpLib.c:762-776`), whatever the time limit of the call.

With a member of `Excess` TLC finds a deadlock or a violation:

- `"busyCall"` (`FinishedHasRun`, `OneByOne`, deadlock): StartupThisAP does not look whether a call is pending
  for the AP (`MpLib.c:2276`), though `MpService.h:448` promises an error.
- `"busySwitch"` (`OwnStacks`): an AP of a pending call that returns while two others exchange
  their roles takes the exchange for its own and updates its stack (`MpLib.c:673`).
- `"disabledBroadcast"` (`ApsAvailable`, three processors): a broadcast sets every AP
  ready (`MpLib.c:1008`), the disabled ones too, and they run the procedure.
- `"noMwait"` (deadlock in ExitBootServices): at the end of the boot services the loop mode is read
  again from the PCD (`DxeMpLib.c:307`) without the check for MWAIT. APs that halt are never sent the
  INIT IPI and the BSP waits for them.
- `"refusedSwitch"` (`EventsAreSignalled` without its exception): SwitchBSP masks the
  local timer interrupt before it checks its arguments (`MpLib.c:1782`) and its error
  returns leave it masked.

The list of failed processors, whose length is computed from `StartCount` and
`FinishedCount` (`MpLib.c:1457`), is not modelled.

## 7. Variables

### `VariableStore`

Non-volatile variables are a log of records in flash. State bits are only ever cleared:
a record goes from a bare header, over a valid header, to `ADDED`, to
`IN_DELETED_TRANSITION`, to deleted. A variable is replaced by marking its record in
transition, writing the new one in four steps behind the last, and deleting the old.
A log without room is copied in memory without its dead records and written back
through the fault tolerant write protocol.

| code (`Variable.c`) | model |
|---|---|
| the variable store in flash | `flash`, the sequence of its records; `debris`: what follows them is not blank |
| `mNvVariableCache` up to `NonVolatileLastVariableOffset` | `cache` |
| `AtRuntime ()`, ReclaimForOS has run | `atRuntime`, `Reclaimed` |
| arguments of SetVariable, next write of `UpdateVariable` | `op`, `pc` |
| `Variable->CurrPtr`, `InDeletedTransitionPtr` | the same names, as positions |
| `FindVariable` | `Found`, `FoundInDeleted`, `Lookup` |
| `Reclaim` | `ValidBuffer`, `Reclaim`, `ReclaimWithNew`, `ReclaimRefused` |
| `UpdateVariable` | `SetVariable`, `MarkInDeleted`, `EnoughSpace`, `OutOfResources`, `WriteHeader` to `WriteAdded`, `DeleteInDeleted`, `DeleteCurr` |
| `InitNonVolatileVariableStore`, `VariableWriteServiceInitialize` | the actions of these names |
| `ReclaimForOS`, `ExitBootServices` | the same names |
| a refused flash write; power | `WriteFails`; `PowerFailure` |

`BlockUpdate` is used twice. Below, the fault tolerant write is what `BlockUpdate` promises,
so that replacing the log is one step, which happens or does not. Above, `SetIsAtomic` says
that the store implements `BlockUpdate` with the names as blocks: what `Lookup` finds
changes only by the update that was asked for, at the moment the new record is `ADDED`,
through any failures. The size of a record is two units, of which the header is one.

### Run

| run | instance | shows |
|---|---|---|
| `VariableStore` | four names, two values, a store of three records and a half, at run time three | SetVariable is atomic; records are written on blank flash at the end of the log; it is refused only when live variables fill the store |

Bounds. The half record leaves room for a header whose write was cut short, which is
debris and shifts what fits. Four names overfill the store. ReclaimForOS compacts when less
than one record is left. Names and values are symmetric and no liveness is checked:
the program waits for nothing.

### Where the guarantees end

- `Excess = {"twice"}`: `SetIsAtomic` fails. An update that finds an `ADDED` record and one
  in transition marks the first too (`Variable.c:2385`). If that update ends before its new
  record is added, two records are in transition. Reclaim promotes the first it meets, the
  older one (1066-1112), and a deletion deletes the pointer it has and leaves the other
  (2266-2325). It takes two failures of updates of one variable without a reclaim
  in between, or a store that is full at run time, where there is no reclaim.
- A flash that refuses the second, third or fourth write of a record is not modelled
  (`WriteFails`): the code returns with its offset not advanced, and the next record
  would be programmed over this one.
- A header whose `Attributes` were never written has all of them set and counts as a
  hardware error record in the sums at boot, so that the check for room and the offset may disagree.
  The quotas of hardware error records and of user variables are not modelled.
- Calls from machine check, INIT and NMI handlers (`Variable.c:3260`) skip the lock's
  protection and are not modelled.

## 8. Proofs

Eight modules of proofs hold for any values of the constants, from the named
assumptions, which TLC evaluates on the runs. Where a theorem needs more than them, the
last column names the hypothesis.

| module | theorem | says | argument | hypothesis |
|---|---|---|---|---|
| `EventTplProofs` | `TypeCorrect` | `[]TypeOK` | `TypeInv` | |
| | `QueuedOnce` | `[]QueuedOnceAtNotifyTpl` | `QueueInv` | |
| | `PendingComplete` | `[]QueuedIsPending` | `QueueInv` | |
| `TplDisciplineProofs` | `InterruptsMasked` | `[]HighLevelMasksInterrupts` | `TplInv` | |
| | `AssertionsHold` | `[]TplAssertions` | `TplInv` | |
| | `NotifyFunctionsNest` | `[]NotifyNesting` | `TplInv` | |
| | `SignalsAreKept` | `[]SignalNotLost` | `LifeInv` | |
| | `QueuedStaysLive` | `[]QueuedIsLive` | `DueInv` | `NotifiedInTime` |
| `EventTimerProofs` | `TimerTypeCorrect` | `[]TimerTypeOK` | `TimerInv` | |
| | `TimersImplementEvents` | `TimerSpec => Spec` | step by step | |
| | `ListAscends` | `[]TimerListAscends` | `ListInv` | |
| | `LockIsReleased` | `[]TimerLockReleased` | `LockInv` | |
| `FtwProofs` | `TypesAreKept` | `[]TypeOK` | `TypeInv` | |
| | `WritesAreInQueue` | `[]WritesStayInQueue` | `DriverInv` | `SingleWrites` |
| | `BootBlockStaysIntact` | `[]BootBlockIntact` | `DriverInv` | `SingleWrites` |
| | `RecoveryIsComplete` | `[]RecoveryCompletes` | `DriverInv` | `SingleWrites` |
| | `UpdatesImplementBlockUpdate` | `UpdatesAreAtomic` | `DriverInv`, `DataInv`, step by step | `SingleWrites`, `Recoverable` |
| | `SeriesKeepTheirOrder` | `[]SeriesInOrder` | `SeriesInv` | `WorkTarget = None` |
| `SmmRendezvousProofs` | `TypeCorrect` | `[]TypeOK` | inductive as it stands | |
| | `OneBspElectedAtATime` | `[]OneBsp` | with `TypeOK` | |
| `SmmRunProofs` | `RunsInStep` | `[]RunInv` | inductive | |
| | `ApsAlwaysFollow` | `[]ApsFollowBsp` | `RunInv` | |
| | `AssertsHold` | `[]CodeAsserts` | `RunInv` | |
| | `ProceduresRun` | `[]ScheduledRuns` | `RunInv` | |
| | `MtrrsStayInPlace` | `[]MtrrsInPlace` | `RunInv` | |
| | `NobodyLeftOutside` | `[]NoNormalCode` | `RunInv`, `AllStayOut` | `Stalls = FALSE` |
| `MpDispatchProofs` | `RolesArePlayed` | `[](Undisturbed => DispatchInv)` | inductive, beside `cutShort` | `Tame` |
| | `DispatchTypes` | `[](Undisturbed => TypeOK)` | `DispatchInv` | `Tame` |
| | `CompletionsAreReal` | `[]FinishedHasRun` | `DispatchInv` | `Tame` |
| | `ApsBecomeAvailable` | `[]ApsAvailable` | `DispatchInv` | `Tame` |
| | `ExecutedOneByOne` | `[]OneByOne` | `DispatchInv` | `Tame` |
| | `StacksStayDistinct` | `[]OwnStacks` | `DispatchInv` | `Tame` |
| `VariableStoreProofs` | `LogIsInOrder` | `[]StoreInv` | inductive | `Tame` |
| | `RecordsLandOnBlank` | `[]WritesLandOnBlank` | `StoreInv` | `Tame` |
| | `SetVariableIsAtomic` | `SetIsAtomic` | `StoreInv`, step by step | `Tame` |
| | `OnlyLiveVariablesRefuse` | `RefusedOnlyWhenFull` | `StoreInv` | `Tame` |

The hypotheses are the edges the runs found, described under *Where the guarantees end*:

- `NotifiedInTime`: an event registered for protocol notification is in a group or has at
  least the level at which protocols are installed. Without it the race of
  `Event.c:763` is real, and `QueuedIsLive` fails.
- `SingleWrites`: every series is a single write, which is how the variable driver
  allocates (`Reclaim.c:150`), and callers stop after a device error that left no valid
  work space. `UpdateDriverDxe` allocates longer series (`FlashUpdate.c:433`, `986`), for
  which two of the three properties fail when a series does not fit the queue.
- `WorkTarget = None`: no caller updates the block that holds the queue, as in the run
  `FtwSeries`. An update of that block puts a copy of the whole queue, completed headers
  included, in the spare block, of which `SeriesInv` would have to say more. The property may well hold
  without it (for single writes it says nothing); TLC finds no violation with a queue of 4
  and such updates in series of up to two.
- `Recoverable`: no target lacks its block protocol when the driver starts, and a torn queue
  does not read as completed writes to its end. Without the one, a start gives up the only copy of the
  data (`FtwMisc.c:1369`), without the other it erases it (`FtwMisc.c:1259`).
- `Stalls = FALSE`: no processor stalls for the length of a time-out between two
  adjacent instructions (`MpService.c:654`). No other theorem on SMM needs it: `RunInv`
  was checked with stalls before it was proved, and is proved with them.
- `Tame` in `MpDispatchProofs`: the excesses `"busyCall"`, `"disabledBroadcast"` and
  `"busySwitch"` do not happen. `"noMwait"` and `"refusedSwitch"` are allowed: they end in
  a deadlock or an unsignalled event, but break no safety property.
- `Tame` in `VariableStoreProofs`: `"twice"` does not happen.

### Events and timers

`TypeInv` strengthens `TypeOK`: activations that work on an event have one in `ev`, and the bottom
of the stack is always the application, so the stack is never emptied by a
return. `QueueInv` says queue entries are in place and unique and pending bits cover
them; it is inductive relative to `TypeInv`, because notifying an event first
unlinks it and the pending bit is cleared only when the queue is empty. The
assertions on levels need more: that the level is right *now* follows from what
the activation below left behind. `TplInv` therefore describes the whole stack:
each activation resumes at the level it left (exactly, if it is in a core service; at or
above its own level otherwise), a dispatcher is always above a RestoreTPL to a
lower level, levels never decrease up the stack, nothing runs above a holder of the lock,
and no pending level reaches `TPL_HIGH_LEVEL`. Each module proves the
effect of pushing, returning and replacing an activation once and then goes
through the actions.

What happens to an event in its life is `LifeInv`: the list of signal events holds
exactly the valid ones, once each; events of the core and registered ones are not freed; an event
is closed by one activation at most; those that poll or wait use valid events. With it, a
signal is lost in no step: an event leaves its queue only to be called or closed, and while a
walk of its group is not yet past it, nothing but its own close takes it off the list
(`WalkStays`). `DueInv` is the reason why an event that a protocol notification
queued while it was being closed is not freed on its queue: the notification came from a notify
function above the closing activation, so a RestoreTPL to a level below the event's lies
between the two and will dispatch the event before the close goes on (`RunIsDispatched`).

`TimerInv` adds to `TimerTypeOK` that the owner of the timer lock works on a timer event
wherever it works on one; the list keeps its type because an event is inserted at a place
within it, the least index with a later trigger time, which exists by well-foundedness.
`TimersImplementEvents` maps a tick to `Interrupt`, the signal of the check event to
`CoreSignalEvent`, and every other timer step to a stutter; with it the theorems about
`EventTpl` hold of `TimerSpec`. `ListInv` says which statements of the owner of the lock
have its event off the list, so that it is inserted once, and that a closed event is never the
one to be inserted: the close cancels the timer first, and gives up the lock with the event
off the list. `LockInv` says that while the lock is held, the stack holds an activation
at its level, with nothing but services of the core above it, hence no dispatcher at or below it.

### Fault tolerant write

The walk over the headers of a queue is a recursive function. That it exists, ends in the queue and
ends at the first header that is not completed follows from well-foundedness: the next
header is always at a later cell. `TypeInv` adds the stack of calls to `TypeOK`: each
routine is called only from where it returns to (a rank falls with every call), and has the
variables it works on.

With single writes the queue is `Tidy`: completed pairs of a header and a record, then at
most one open pair, then erased cells. Each byte programmed keeps it so, and a full queue
gives way to a `Fresh` one. `FlashInv` says what the flash holds whatever happens
next: a queue that is tidy if the work space is valid, a spare block with a
whole copy of what an open record names, a boot block that is whole unless the swap bit
is set. `PointInv` says what else holds at each flash operation, `FlushInv` what the
flush to the working block holds for each of the routines it returns to, and `StackInv` that
`FtwAllocate` never has to reclaim for a single write. A failure between any two operations keeps
`FlashInv`, because the spare block is erased or written only while no record depends on it or while
the swap bit directs the operation to the boot block.

`UpdatesImplementBlockUpdate` is the refinement of section 4. What is read of a block
is a function of the flash alone (`ReadFrom`), and `DataInv` says where data is found
twice: an image in the spare block has the data of the working block, unless an update of that
block is in it or the working block was erased or written in part; a work space is made invalid only with a
valid image of it in the spare block; and at the end of a write its
target holds what the spare block holds (`Delivered`). So every operation on the flash, whole or
torn, leaves what is read as it was, because it changes a block that is not read at that moment or
writes into it what is read from elsewhere, except for the one that programs `SPARE_COMPLETED`, which is the
commit. The request follows from the stack: only `FtwWrite` begins one, and after the commit
`"write"` is on the stack no more, for its rank is that of the routine that has made the commit.

`SeriesKeepTheirOrder` is about series of any length, in which headers get lost and reclaims
happen in the middle of `FtwAllocate`, so the queue need not be tidy. What is left of its order is
`InOrder`: a cell that announces records is a header; of the cells from the last header on
only its records name a block, and a record names one when the record before it is done; and no
header is in the last cell. A state byte, a header at or behind the
last header and the first record that is not done keep a queue in order, and so does
`Preserved`, whether or not lost headers lie among the cells. `SeriesInv` says
that every queue is in order, the ones in the working block and the spare block and the images
in memory, and that the driver is right about the queue when it programs it: what `WorkSpaceRefresh` found of
the last header and its records still holds at `"writeRecord"`, although an allocation
with its own reclaim may lie between. For this the reclaim in a service must end with an empty
queue, whose header is the first cell (`Leads`): the service only reclaims when the last
header is not allocated, because a header is never placed where no record fits.

### System Management Mode

`OneBsp` is inductive with `TypeOK`: a processor
enters `BSPHandler` only in a step after which `BspIndex` names it, an elected one replaces
no other, and `BspIndex` is reset by its owner only, at the end of the handler.
Everything else follows from `RunInv`: the statement of the BSP determines where each
counted processor may be and which signals it has, and what is counted agrees: the
counter with the processors that checked in, `apCount` with them once the counter is locked, the
BSP's own semaphore with those that have answered in this round. A BSP that has taken `apCount`
signals knows, since a subset with as many elements is the whole set, that all have answered, which
is what allows the next phase. Each statement is a step from one row of `InStep` to another.

### Dispatch of procedures

`DispatchInv` gives every processor a role, a function of the pending calls and of the statement
of the BSP: resting, waiting for its turn, started, being reset, next BSP, and so on. A role
bounds the statement, state, signal and procedure of its processor. A step of an AP keeps
its role, a step of the BSP changes it where the new role begins. The rest of the
invariant says which signals the BSP is about to send, which service is in progress and for whom, what
`StartCount`, `RunningCount` and `FinishedCount` count, and whose stack each AP has. What is inductive is
that a reset was cut short, or `DispatchInv` holds together with `Halts`: an AP in the HLT
loop, which has no signal to see, is not in the loop that polls. The one step that could break a role,
the end of a reset while the AP is still on its way through `ApWakeupFunction`, sets `cutShort`, which stays set.

### Variables

`StoreInv` says what the log holds of a variable: at most one record in transition, and at
most one added record behind it; the update in progress may have more, of which it says which
are its own. Where the copy in memory differs from the flash, it is by the
record being written. From that alone follows what `FindVariable` finds, and each of the writes changes
one of these sets of records; Reclaim keeps what is found of every variable. So `SetIsAtomic` is proved
step by step: the write of `ADDED`, or of deleted in a deletion, is the commit of `BlockUpdate`, a
write that fails or power that fails before it a drop, and all others are stutters.

### What is only model-checked

Liveness (out of the prover's reach, as are fairness and ENABLED): `ExpiredTimersFire`, `NotifyDue`,
`EveryoneLeaves`, `SmiIsHandled`, `CallsReturn`, `EventsAreSignalled` and `WritesAreCompleted`.
Every safety property of the passing runs is stated by a theorem; outside a theorem's hypothesis
it is as in *Where the guarantees end*. For `RecoveryCompletes` in series of several writes
there is the run `FtwSeries` only.

## 9. Not modelled

The components marked `not_modelled` in `PROJECT.json`, each with its reason. The
repository holds the firmware of whole platforms, with vendored interpreters, a C library
and build tools; the models cover the control core on which the rest depends. Next in the plan
are the handle database with the driver dispatcher: re-installing an interface drops and
restores the protocol entry around calls of arbitrary drivers (`Notify.c:268`), and
uninstalling disconnects drivers with the protocol lock released (`Handle.c:754`);
no property covers these yet.

Within the modelled files: validation of arguments, the choice of group for legacy event types, debug
output, programming of the timer chip, `CoreAcquireLockOrFail`; block sizes,
offsets and private data of fault tolerant writes; hot plug, page tables and the
profile of SMM; the counting of processors at start and the registers saved for APs; volatile
and authenticated variables, append writes and the hand-over of variables in a HOB.
