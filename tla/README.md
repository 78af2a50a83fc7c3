# Baios dual microkernel: TLA+ specifications and proofs

Baios (TeamOS 3.0) splits an operating-system kernel in two: a *hardware kernel*
(physical memory, interrupts, drivers) and a *software kernel* (processes, system
calls), which talk only through two shared-memory rings, the "zero-copy IPC". The
repository builds a host program, `baios_stub`, in which each kernel's main loop is
a POSIX thread. Beside it lies a first generation of the same system that the Makefile
does not build. This directory holds a formal model of both: TLA+ modules checked by TLC
on small instances, and TLAPS proofs of what matters most for every instance. Source
paths below are relative to `src/BIOS/`.

## 1. Inventory

### The tree that is built (Makefile `C_SRCS`, `CXX_SRCS`)

| Component | State | Operations | Talks to |
|---|---|---|---|
| Rings (`src/ipc/zero_copy.c:30-65`) | `head`, `tail`, `slots` of each of two rings | `ring_init`, `ring_full`, `ring_empty`, `ring_push`, `ring_pop` | two threads through shared memory, no lock, no barrier |
| Channels (`src/ipc/zero_copy.c:77-204`) | `g_ipc_ready`, `g_channel_count`, `g_channels`, `g_seq_counter` | init, shutdown, create, destroy, send, recv, send_to_hw/sw, recv_from_hw/sw | every channel points at the same two rings; both kernels use channel 0's counters |
| Boot and shutdown (`src/boot/entry.c`) | `g_state` | `baios_init` with its error paths, `baios_shutdown`, `main` | calls every subsystem's init and shutdown; creates and joins the two loop threads |
| Hardware kernel (`src/hw/hw_kernel.c`) | `g_hw_stats`, `g_hw_running` | `baios_hw_init`/`shutdown`, `baios_hw_handle_ipc`, `baios_hw_main_loop` | polls the ring from the software side, answers into the other one |
| Software kernel (`src/sw/sw_kernel.cpp`) | `g_sw_stats`, `g_sw_running` | `baios_sw_init`/`shutdown`, `baios_syscall`, `baios_sw_handle_ipc`, `baios_sw_main_loop` | answers three system calls from the process table, forwards six to the hardware kernel |
| Processes (`src/sw/process_manager.c`) | `g_procs`, `g_current`, `g_proc_count`, `g_next_pid`, `g_proc_ready` | init, shutdown, create, exit, kill, get, current, count | called by the software kernel |
| Physical memory (`src/hw/phys_memory.c`) | page descriptors, free lists, counts, statistics | init, shutdown, alloc, free | initialised by the hardware kernel |
| Interrupts (`src/hw/interrupt.c`) | one descriptor per line, total | init, shutdown, request, free, dispatch | calls handlers back |
| Drivers (`src/hw/driver_compat.c`) | intrusive list, count | init, shutdown, register, unregister, find, foreach | calls probe and remove back |

What is hard here:

* *Concurrency without synchronisation.* Three threads (main, HW loop, SW loop) share
  plain globals. A ring is safe only because each index has one writer; the sequence
  counter and channel 0's counters have two; `running`, `ready` and the channel table
  are changed by main under loops that look at them.
* *Ordering.* A request passes through a ring, a thread's hand, another ring and another
  thread's hand; the call was counted at one end and must come out once, in order, at the
  other.
* *Failure.* Every boot step may fail after others succeeded, and each error path lists by
  hand what to shut down again. A full ring refuses a request, and drops a reply silently.
* *Liveness.* Nobody wakes anybody: progress depends on polling loops, and shutdown on each
  loop noticing a cleared flag.
* *Re-entrance.* A driver's probe and remove and an interrupt handler are called in the middle of
  a list operation and may use the same services again.
* *Long histories.* Process slots are reused and pids are not; the page descriptors inside a
  merged block keep the order of an earlier life.

What makes each component correct:

* Ring: a bounded queue of whole messages; both sides never in the same slot.
* Channels: numbers go up and books balance unless two threads race on the counter itself or the IPC
  is opened under a call; only calls on a destroyed channel, and receives that a shutdown cut, can
  meet a NULL ring.
* Kernels: boot is all or nothing; nothing is lost, doubled, reordered or made up; accepted
  requests are handled; loops stop.
* Processes: one process per pid, a live current process, an exact count, zombies stay dead.
* Memory: blocks tile the pages, buddies are merged, statistics are exact, a request is refused
  only when no aligned run is free.
* Interrupts and drivers: the count is the length of the list; every registration is followed by one
  remove; a line belongs to a driver that is gone only if that driver asked for it afterwards; a
  shutdown's walk ends.

### The tree that is not built

`hw/`, `sw/`, `ipc/`, `common/`, `demo_main.c` and `include/{drivers,interrupts,permissions}.h`
are a first generation of the same system. The Makefile does not compile them and their includes
do not match the current headers. They are used by one thread.

| Component | State | Operations | Talks to |
|---|---|---|---|
| Shared regions (`ipc/shared_memory.c`) | region table, handle counter, heap that only grows | `baios_mem_init`, create, attach, detach, destroy, `baios_kmalloc` | the channels keep a region each |
| Channels (`ipc/zero_copy.c`) | channel table, two rings and one payload area in each region | init, create, destroy, send, try_recv, `hw_to_sw`, `sw_to_hw` | regions; the bridge |
| Bridge (`sw/ipc_bridge.cpp`) | none | notify, poll | finds the main channel by its region's name |
| Scheduler (`sw/process_manager.cpp`, `sw/main.cpp`) | process pool and list, current process, pid counter | init, create, kill, tick, yield, `SYS_EXIT` | takes stacks from the heap; permissions |
| Permissions (`sw/permissions.cpp`) | one record per pid that has one | grant, revoke, request, check | reads a process's default |
| Hardware (`hw/*.c`) | softirq ring, interrupt table, buddy table, list of drivers, power mode | | boots memory, then the IPC |
| Files, services, demo (`sw/filesystem.cpp`, `sw/services/*.cpp`, `demo_main.c`) | file tree; a flag and counters each | | |

What is hard here: handles, counts and addresses are kept by users and by channels while
`baios_mem_init` forgets every region; all messages of a channel share one payload area, whatever
their direction; memory that is handed out again is zeroed under whoever used it; nothing is ever removed from the process list, and the scheduler makes whoever was
current READY again; the statuses of the creations at boot are ignored when the heap has run out; a
permission record replaces the defaults of its process, and capabilities are words of bits. What makes these components correct: an open
channel has memory of its own until the memory manager is started again; a region's count is the
number of those that have it; the newest payload is intact; one process runs and it is the current one;
nobody waits for ever; where a dangerous capability came from is known.

## 2. Modules

```
BoundedFifo    <--implements--  ZeroCopyRing       <--  ZeroCopyRing_proofs
    (a ring of DualKernel and IpcChannels is the queue that ZeroCopyRing implements)
DualKernel         entry.c + hw_kernel.c + sw_kernel.cpp
                   + the IPC's ready flag and table   <--  DualKernel_proofs
IpcChannels        channel table, sequence numbers    <--  IpcChannels_proofs
ProcessManager     process_manager.c + local calls    <--  ProcessManager_proofs
PageAllocator  <--implements--  PhysMemory         <--  PhysMemory_proofs
HwServices         driver_compat.c + interrupt.c,
                   calling each other back            <--  HwServices_proofs

FirstGenIpc        shared_memory.c + zero_copy.c
                   + ipc_bridge.cpp (first generation) <--  FirstGenIpc_proofs
FirstGenProcesses  process_manager.cpp + main.cpp
                   + permissions.cpp                   <--  FirstGenProcesses_proofs
```

Each `MC` module instantiates the one it is named after for TLC; a `_proofs` module holds theorems
and nothing else.

**BoundedFifo** is what a sender and a receiver may expect of one direction: `Offer`, `Accept`,
`Refuse` (only when full) and `Take`, with fairness on being answered and being served.

**ZeroCopyRing** is one ring between one producer and one consumer. `ring_push` is four steps,
because the other thread can move in between: the full check (`PushOverflow` or `PushBegin`), the
`memcpy` piece by piece in any order (`PushCopy`), the store of `head` (`PushPublish`); `ring_pop`
is the mirror image. Messages are functions from two opaque pieces to words, so that a torn message
is one that mixes words of two. Stores are seen in program order, which is what x86 and the compiled
code give (`gcc -O2` keeps the copy before the store of the volatile `head`); the source's own remark
that a barrier would be needed is modelled as the fault `PushPublishEarly`, which breaks `RingIsFifo`.

**DualKernel** is the program. `main` walks through `BootOrder` (one action `Boot(x)` or
`BootFails(x)` per subsystem), issues system calls, starts two threads and shuts down in the order of
the code; `hw` and `sw` are the program counters of the loops. Each step is one access to shared
state: `HwStart` reads `initialized`, `HwEnter` stores `running = true`, `HwLoop` reads it again,
`HwRecv` checks `g_ipc_ready`, `HwPop` takes a message, `HwHandle` counts it, `HwSend` checks ready
again, `HwPush` stores the reply or drops it. A system call is two steps: `Syscall` pushes, and
`SyscallCounted` looks at the status and counts, so that the HW loop may handle and answer a call
that `ipc_tx` does not show yet (`counting` is that call). `baios_ipc_shutdown` is two steps, the flag
(`CloseIpc`) and the `memset` (`ClearIpc`), and `SwFault` is the NULL dereference of a poll that
comes after. A call is its number; the four sets `accepted`, `served`, `answered` and the rings tell
where each call is, and are what `ipc_tx`, `syscall_fwd` and `ipc_rx` count; `Sent` is `accepted` and
the call that waits to be counted. Rings are sequences
bounded by `RingBound`, by the refinement above. Only `SYSCALL` and `REPLY` messages occur in the
build, so only they are modelled.

**IpcChannels** is the channel table with an application thread, the SW loop and the HW loop inside
calls at once. The application's thread also opens and closes the IPC and creates and destroys
channels, while the two loops are anywhere in a call: `IpcShutdown` wipes the table under them (`cut`,
a ghost, has the threads that it did this to), and a later `IpcInit` may find one of them with a
number or a count in its hand (`InHand`). A call is: begin (ready and id checks),
load and store of `g_seq_counter`, push or pop, load and store of the counter it bumps. The HW loop is
given the static rings and never looks at the table (`NullRing`). `raced` is a ghost that records which
kind of counter two threads have had loaded at once, or `IpcInit` reset while one of them had it. Time is abstract: a
receive may give up at any poll that finds its ring empty. `Total` adds a counter up over the
channels, as the size of the set of events that they have counted (`Events`).

**ProcessManager** is the table as an array of descriptors (`FREE` for a NULL pointer), with the
system calls GETPID, SPAWN and EXIT, `baios_proc_exit` and `baios_proc_kill` for any pid, and
restarts of the software kernel. Pids are numbers modulo `PidModulus`. `last` is the last call's
status and `*ret`.

**PageAllocator** is a memory manager without lists or buddies: aligned, disjoint runs; refusal only
if no run fits. **PhysMemory** is the buddy system: descriptors, one list per order (as a set: any
member may be its head), `g_free_count`, statistics. Loops are written in closed form: `SplitOff`
lists the halves that a split puts back, `Base`, `Buddy`, `Merges` and `Reaches` say how far a merge
gets, `Writes` which descriptors it updates. What is handed out is read off the descriptors
(`Owned`), so no ghost is needed for the refinement.

**HwServices** composes the driver registry with the interrupt lines, because what is hard is that
they call driver code which calls both of them. `stack` is the callbacks in progress and what the C
function that made each call keeps on its own stack across it: `pp` for `baios_driver_unregister`
(`link`, the predecessor whose `next` will be rewritten) and the saved `next` for the walk of
`baios_driver_shutdown`. `Register` and `Unregister` are the functions up to the callback,
`ProbeReturns` and `RemoveReturns` what comes after it; `WalkCalls`, `WalkSkips`, `WalkReturns` and
`WalkEnds` are the walk, driver by driver. The list is the C list: `head`, and a `next` field that
keeps its value after an unlink; `Linked`, what is on it, is the smallest set of drivers that `head`
and the `next` fields of its members do not lead out of (`Reach`). The environment's part of the
contract is written into the model: a callback acts for its own driver, and a remove frees the lines
that the driver holds. Whether that driver is still registered is not asked, as `baios_irq_request` does
not: a probe or a handler that has unregistered its driver may still get a line for it, which the ghost
`late` marks.

There are three ways for a callback to damage the list under its caller: to unregister, in the
remove of a driver, the one in front of it, or to register one in front of it; to register during the
walk of a shutdown; to unregister a driver whose remove was called already. `spoiled` records that
one of them happened. Until then the invariants hold, which covers an unregistration of other drivers
during the shutdown's walk, and in the removes of removes. What the code does after one of the three
(a remove called twice, a driver brought back or lost) is neither modelled nor excluded.

**FirstGenIpc** is the region table with its heap, the channels made of regions, and the traffic of
the main channel. Memory is counted in pages; how a size is rounded up to pages is left out. `Created`,
`Destroyed` and `Refs` are what the functions do to the table; an entry that is destroyed stays in it,
wiped. `HwInit` is the first run of `hw_kernel_init`: `linux_compat_init` takes two pages for its driver
records, the main channel is behind them. `HwInitWithoutIpc` is every later one, which finds the IPC
up: the memory manager forgets all regions, and the channels of the life before stay (`stale`, a
ghost). It is assumed that `hw_kernel_init` has run before anybody uses a region.

From then on `Alloc` hands the same memory out again and zeroes it, as `sim_alloc` does: the rings of
the main channel that lie there are lost (`own` has those that are not), and the payload area is
empty. On a ring that was lost nothing can be received, and a send divides by its capacity, which is
zero; neither this nor what the new owners write there is modelled. `held` (a ghost) is what users
attached, `old` what they had attached before the restart. They detach only what they attached, but
do so late: `OldDetach` lowers the count of whichever region has the handle by then, and `robbed` has
those handles. A ring used by one thread is a queue; the payload area is one variable for both
directions, and a receive compares it with what was sent, as the checksum does. Modelling it showed
some things that no property needs: the hardware side's loop polls handle 0 (`hw/main.c:87`) and never
finds a channel; a destroyed entry keeps the empty name, so that a region with an empty name cannot be
created afterwards; `baios_ipc_init` wipes channels that were created before it; closing a stale
channel may destroy a region made later with the same handle, but only one that nobody but its creator
has.

**FirstGenProcesses** is the process pool, the scheduler and the permission records. Slots are used
in order and never given back, so that a process is its index and the list runs downwards from the
youngest. `Passed` is the number of list elements that the search of `sw_scheduler_tick` looks at
before a process; `Run` is its effect, which makes the process that was current READY whatever its
state. `SwInitShort` is a boot on an exhausted heap: the statuses of the two creations are ignored and
`init_pid` is read uninitialised (undefined; the model takes both outcomes, that it happens to be the
pid of the idle process and that it is nobody's). A capability that is granted, revoked or requested
is a set, as the word of bits is; `IsDangerous` compares it as a whole, as `perm_is_dangerous` does, so
that a request for two at once passes. `Holds` is `perm_check`. The ghosts are `waited`, decisions since
a process became READY, `approved`, what `perm_grant` itself gave, and `combined`, what came together
with others in a granted request.

Operators commented `Fault:` are plausible bugs. No specification uses them; each is put in the
place of the definition that follows it to confirm that the property named in `PROJECT.json`
notices.

## 3. What is checked

| Run | Instance | Shows |
|---|---|---|
| `ring` | 3 slots, 2 pieces, 2 words | `RingIsFifo` and `RingServes` (refinement of the queue, safety and liveness), `NoSharedSlot` |
| `kernel` | rings of 2, 4 calls | `BootAllOrNothing`, `InOrder`, `RepliesGenuine`, `RequestsKept`, `RequestsServed`, `RepliesDelivered`, `RunningLoopsStop` |
| `channels` | 2 channels, rings of 1, 3 sends | `SeqIncreasing`, `TrafficConserved`, `OnlyDestroyedFault` |
| `process` | 3 slots, 6 processes, pids of 3 bits | `CurrentIsAlive`, `PidsUnique`, `CountIsExact`, `NoResurrection` |
| `memory` | 10 pages, orders 0 to 2 | `BlocksTile`, `ListsSound`, `StatsExact`, `IsAllocator` (refinement) |
| `services` | 3 drivers, 1 line, callbacks 3 deep | `RegistryExact`, `RemovedOnce`, `HandlersOwned`, `ShutdownEnds` |
| `firstgen_ipc` | 8 pages, 2 regions, 2 channels, rings of 3 slots, 2 lives | `ChannelBacked`, `RefsExact`, `NewestIntact` |
| `firstgen_processes` | 4 processes, 4 pids, 5 stacks, 1 record, 3 capabilities | `OneRunning`, `BoundedWait`, `OnlyCurrentRevived`, `DangerousTraced` |

Each of these runs also checks its module's `TypeOK`. Runs that refute what a comment or document
says:

| Run | Refuted | What happens |
|---|---|---|
| `kernel_rings` | `PolledChannelHasRings` | `baios_shutdown` wipes the channel table while the SW loop polls; the poll loads a NULL ring (`zero_copy.c:159`) and the process dies. With the demo's timing this is what a run of `baios_stub` normally ends with. |
| `kernel_stop` | `ShutdownStopsLoops` | A loop thread that has passed its `initialized` check stores `running = true` after shutdown has stored `false`, and is never joined. |
| `kernel_answer` | `CallsAnswered` | The status of the reply's push is ignored (`hw_kernel.c:73`): with the ring full the reply is gone and the accepted call never answered. |
| `channels_seq` | `SeqOrdersMessages` | `g_seq_counter++` in two threads: one ring carries a number twice. |

What does hold in their place is checked too: loops that are
inside their `while` when shutdown begins do stop (`RunningLoopsStop`), replies that got into the
ring are delivered (`RepliesDelivered`), no request is lost on the way to the hardware
(`RequestsKept`), numbers increase unless two threads stamp at once or the IPC is opened under a send
(`SeqIncreasing`), and a dangerous capability has one of three origins (`DangerousTraced`).

Some properties say what holds *unless* something happens that the code does not prevent: counts are
lost when two threads bump one counter (`TrafficConserved`), the list is damaged when a callback changes
it in one of the three ways (`RegistryExact`, `RemovedOnce`, `HandlersOwned`), a channel from before a
restart shares its memory (`ChannelBacked`), a spoiled message jams its ring (`NewestIntact`), an exit
of the current process is undone (`OnlyCurrentRevived`), a request for a dangerous capability together
with another one is granted (`DangerousTraced`; `sw/permissions.cpp:73` asks for an explicit approval,
and `perm_is_dangerous` compares the whole word). No property catches these harms; `PROJECT.json` says
so at each of these hazards.

### Bounds and why they are enough

* A ring of three slots is empty, part full and full at every index, and wraps. The proofs remove
  the bound.
* Four calls over rings of two: both rings full at once, calls accepted before the loops start, and
  one more refused. The calls themselves carry no data that the loops look at.
* One message to a ring and three sends: the full ring is one send away, and one thread can finish a
  send while another is between its load and its store. The run that refutes the order of sequence
  numbers needs four sends and two places.
* Three slots: a middle slot is freed and reused between two occupied ones; six creations use each slot
  twice. Pids of three bits are out of reach for six processes. After 2^32 creations the real counter
  wraps, and a spawn then returns pid 0 (`BAIOS_INVALID_PID`) or a pid in use: nothing in the repository
  says otherwise, so no run claims it; the theorem has the hypothesis that this does not happen.
* Ten pages with blocks up to four: two neighbouring top blocks (never merged), a shorter tail block
  whose buddy lies beyond the memory, splits and merges over two levels. `MaxSends`, `MaxCalls` and
  `MaxCreates` only bound how long a run is; memory needs no such bound.
* Three drivers: the one that is removed, one in front of it and one behind it. One line, which changes
  hands. Three callbacks deep: what a callback calls calls back, and so does what that calls.
* Eight pages and two regions: the drivers' records, the main channel, and another channel or a user's
  region; the heap or the table runs out, and after a restart a page at a time or a whole channel is
  laid over the main one. Two messages to a ring:
  one direction overwrites its own payload and the other's. Two lives: handles and addresses of the
  first come back in the second, and what was attached in the first is detached in the second. One
  attachment at a time is held in each life; payloads `a` and `b` are interchangeable (symmetry),
  `large` does not fit.
* Four processes: the two of the boot and two more; one of the pids is lost when the heap, which has
  room for five stacks, runs out, which takes two boots. One permission record, for any of the four
  pids, fills the table; the proof removes this bound. A harmless capability, a dangerous one and the
  one that stands for all, in every combination.

### Fairness

`ZeroCopyRing` is fair to a sender inside `ring_push` and to the polling receiver; nobody has to
send. `DualKernel` is weakly fair to each of the three threads (the host's scheduler), not to
`Syscall` and not to `Shutdown`: the system may run for ever. Weak fairness is all a preemptive
scheduler gives to a thread that is always ready to run, and these threads never block except in
`pthread_join`. `HwServices` is weakly fair to the walk of a shutdown, which is a C loop, and strongly
fair, for each depth of the stack, to the return of a callback: a callback may call the services as
often as it likes first, but drivers do return. Nothing is fair in the other modules, which make no
liveness claim; `BoundedWait` is the first generation's fairness stated as a bound, and a safety
property.

`CHECK_DEADLOCK` is on, and a program that has ended or crashed stutters explicitly, except in
`firstgen_ipc`, where the system really stops when the heap is used up and the table is full of
destroyed entries (of the last life that the bound allows).

## 4. What is proved

| Module | Theorem | For every |
|---|---|---|
| `ZeroCopyRing_proofs` | `TypeCorrect`, `RingIsRaceFree` (`NoSharedSlot`, and room to publish), `RingImplementsFifo` (`RingIsFifo`) | capacity of at least one slot, message shape, set of words |
| `DualKernel_proofs` | `TypeCorrect`, `BootIsAtomic` (`BootAllOrNothing`), `RequestsAreKept`, `RepliesAreGenuine`, `TrafficInOrder` (`InOrder`) | ring size, number of calls, interleaving of the three threads |
| `IpcChannels_proofs` | `TypeCorrect`, `NumbersIncrease` (`SeqIncreasing`), `BooksBalance` (`TrafficConserved`), `FaultsAreOnDestroyed` (`OnlyDestroyedFault`) | ring size, number of channels and sends |
| `ProcessManager_proofs` | `TypeCorrect`, `CurrentAlive`, `CountExact`, `ZombiesStay` (`NoResurrection`) | table size, pid width, number of creations |
| `ProcessManager_proofs` | `PidsAreUnique` (`PidsUnique`, and parents older than children) | the same, if fewer processes are created than there are pids (the hypothesis of the theorem) |
| `PhysMemory_proofs` | `TypeCorrect`, `Tiled` (`BlocksTile`), `ListsAreSound` (`ListsSound`), `Statistics` (`StatsExact`), `Refinement` (`IsAllocator`) | number of pages, top order, history of allocations and releases |
| `HwServices_proofs` | `TypeCorrect`, `RegistryCounted` (`RegistryExact`), `OneRemove` (`RemovedOnce`), `OwnersRegistered` (`HandlersOwned`) | number of drivers and lines, limit of the list, depth of callbacks |
| `FirstGenIpc_proofs` | `TypeCorrect`, `CountsAreExact` (`RefsExact`), `ChannelsAreBacked` (`ChannelBacked`), `NewestIsIntact` (`NewestIntact`) | heap, tables, rings, number of restarts and attachments |
| `FirstGenProcesses_proofs` | `TypeCorrect`, `OneRunsAtATime`, `RoundRobinIsFair` (`BoundedWait`), `DeadStayDead` (`OnlyCurrentRevived`), `DangerousIsTraced` (`DangerousTraced`) | table size, heap, set of capabilities, number of records |

Each proof has an invariant `IInv` that is inductive, and lemmas that say what one action does to it.
The assumptions are those that the modules state about their constants, and nothing else.

*The ring.* `NoSharedSlot` is not inductive: a consumer that copies out of an empty ring satisfies
it until the producer begins to copy too, and only then are both in one slot. The invariant `IInv`
adds what each side learned at its check and the other cannot undo: while the producer copies, the
ring is not full (`tail` only moves away from it), and every piece it has already stored is in the
slot (`Filling`); while the consumer copies, the ring is not empty (`head` only moves away), and
every piece it has already loaded is the slot's (`Draining`). The refinement maps the slots from
`tail` up to `head` to the queue. `PushPublish` is `Accept` because the slot at `head` is by then
the whole message; `PopRelease` is `Take` because `out` is by then the oldest slot; `PushCopy` is a
stutter because the slot it writes is not one of those. The lemmas `WrapOnce`, `SuccWraps`,
`DistanceWraps` and `PlaceWraps` take `%` out of the way, since the provers do not reason about it
with a symbolic divisor. The assumptions are those of the module: `Capacity` is a positive number
and `Zero` a word.

*The two kernels.* `BootAllOrNothing` speaks of the end of a boot or shutdown; `BootPhase` says which
subsystems are up at every program counter of `main` (`UpAt`), those of the error paths included.
`RequestsKept` and `RepliesGenuine` need to know that a thread has a message in hand at some program
counters and at no others (`Holding`), and that calls in rings and hands are calls that were sent
(`Known`): accepted, or still in `main`'s hand between push and count. `InOrder` says that both rings and both hands, one after the other, are in the order of the
calls; what is inductive is `Sorted`, stated with `Ordered` and `Before` over indices instead of a
concatenation, so that each of the four moves of a message disturbs one conjunct.

*The channels.* A message gets its number between a load and a store of the counter. `Roles` says that
each ring has one producer. As long as no two threads had the counter loaded at once (`raced` is a
ghost for it), `Stamped` says that the thread between load and store is the only one there and has the
counter's value, and that a number which was stamped and not yet pushed is newer than all in its ring;
an init under a call with a number in its hand counts as such a race (`opened`). For the faults,
`Inside` says that whoever is in a call that no shutdown went through passed the ready and id checks and
these still hold, so that a ring can only be NULL because a destroy took it away, and that no shutdown
goes through a call of the thread that shuts down.

*The channels' books.* `TrafficConserved` speaks of moments between calls. At every step (`Balance`)
messages sent are messages received and messages waiting, with each thread in mid-call counted where
it stands: after its push or pop and before its counter (`Counting`), or between its number and its
push (`Pushing`). It is only inductive together with `Loaded`, that the value a thread is about to
store is still the counter's, and that no other thread is about to store the same one; both hold
while `raced` is empty and no channel was destroyed (`Undisturbed`). A destroy takes a channel's
counters out of the account until the next init, since a create never fills the gap it leaves in the
table; a shutdown takes all of them out, and an init starts a new account, unless a thread with a number
or a count in its hand goes through it (`InHand`). `TypeOK` needs an argument that survives lost updates: a send that was begun will bump one
counter at most and a message that waits one more, so every counter, with what is still to come
(`Pending`), stays within the number of sends, and a thread that sets a counter back to the value it
had loaded only makes it smaller (`Bounded`).

*The process table.* `CountIsExact` needs that a table that is down is empty (`DownIsEmpty`), since
`baios_sw_init` starts counting from one; `CurrentIsAlive` and `NoResurrection` need it for the same
reason. `PidsAreUnique` needs two facts the code nowhere states: pids in the table are below the
counter, and the counter is one more than the number of creations as long as it has not wrapped.

*Physical memory.* A block is a page and an order, on a list or out (`Head`); what the code relies on is
`Shape`: blocks are aligned and inside the memory (`Inside`), do not overlap (`Apart`), leave no page
out (`Covered`), a listed block's descriptor says what it is (`Described`), and no two buddies lie side
by side on a list (`Merged`). `Lengths` and `Counted` are the counters. Four arguments carry it:

* Powers of two. No prover here knows `2 ^ k` with a variable `k`. `PowNat`, `PowDouble` and
  `PowPos` are proved once, and from there `BuddyFacts` (a buddy is the other half of an aligned
  pair) and `Nested` (two aligned blocks are disjoint or one is inside the other).
* Stale descriptors. `baios_mm_free_pages` believes the buddy's descriptor
  (`src/hw/phys_memory.c:211-213`), although a page in the middle of a block keeps the order of an
  earlier life. `MergeFinds` shows that it may: if the descriptor of the buddy says free and of this
  order, the page heads a listed block of it, because a larger one around the page would contain the
  block that is being released, and one that begins there writes its own order into the descriptor.
* The loop. `MergeRegion` is its invariant, by induction on the order reached: what has been merged
  is an aligned region made up of the released block and of listed blocks, so that the rest of
  memory is not concerned. `SplitFacts` and `SplitCovers` are its counterpart for the halves that a
  split puts back, `CarvedBlock`, `CarvedApart` and `CarvedCovers` for the cut of the whole memory
  at the start.
* Refusal. Most of the refinement is `Tiled` again; `NoneAvailable` is the rest: if no list of order
  `k` or above has a block, no aligned run of `2 ^ k` pages is free. Such a run would consist of
  smaller free blocks; a smallest one's buddy is in the run too, hence free, hence listed with the
  same order, which `Merged` excludes.

*Drivers and lines.* `Straight` says that the list is one: no two fields on it lead to the same
driver, and none back to the head. Without following pointers step by step, which would be
recursion, the proofs use that `Reach` is the smallest closed set: `NoCycle` (a driver is not
reached from its own `next`), `Push`, `UnlinkHead` and `UnlinkNext` (what is reached after a
register or an unregister). What a shutdown's walk has yet to look at is `Ahead`, which follows the
fields of drivers that were unlinked under it. `Kept` says that whoever is owed a remove is on the
list and still ahead of the walk, `Busy` that a driver in the middle of its remove is on the list,
owed nothing, and there once, `Served` that nobody who owns a line or is being called back has been
left behind by the walk, unless the line was requested late. They hold as long as no callback has changed the list under its caller
(`spoiled`); types and the stack's order (`Frames`) hold always.

*Regions and channels.* `RefsExact` counts channels, `ChannelBacked` speaks of pages; neither is
inductive. `TableInOrder` says that a live region's handle is its place in the table and that regions
lie in the heap in the order of the table, so that they are disjoint; `ChannelsOwn` that a channel made
since the last restart has a live region which is no other channel's, also after it was closed;
`Counted` is `RefsExact` with 0 or 1 in place of the cardinality. What keeps a channel's region alive
is then that `baios_shm_destroy` refuses a count above one, and that a channel is worth one; where a
late detach took one (`robbed`), the count is only bounded from above. `NewestIntact`, that the last
message with a payload in the ring that was written last is the one in the payload area, would be
inductive with the types alone (a send appends to its own ring and sets both, a message without a
payload changes neither, a receive takes from the front) if memory were not zeroed. Since it is,
`RingsOwned` says that memory is handed out from below, so that the rings, which lie before the payload
area, are given away first: when the area is zeroed, both rings are empty.

*The scheduler.* `BoundedWait` follows from a variant: the number of decisions a process has waited
for plus the number of list elements that are looked at before it (`Passed`) is less than the length
of the list. A tick that passes a process over brings the search closer to it, and a creation, which
makes the list longer at its head, moves no process back by more than it adds to the bound.
`DangerousTraced` needs that whatever dangerous bit is in a record was approved or came with others in a
request (`RecordsTraced`), and that processes have one of the two default sets.

Only model-checked: liveness, that is `RingServes`, `RequestsServed`, `RepliesDelivered`,
`RunningLoopsStop` and `ShutdownEnds`, since fairness is defined by `ENABLED`, which the prover does not
treat; and the four runs that end with a counterexample. Every invariant, action property and safety
refinement that a run checks is a theorem. What a recursive definition computes cannot be proved here,
so there is none: what is on a list is a smallest set, a total is the size of a set, the last message
of a kind is one that none follows, and loops over orders are functions on an interval.

## 5. Not modelled

* Time stamps and the length of time-outs (a poll that finds nothing may give up); message payloads
  beyond identity; names, priorities and capabilities of processes in the build (stored, never read);
  logging; the getters of statistics; types and limits, which appear as constants.
* A release of memory with another order than the allocation's: outside the interface's contract and
  not an input of `PhysMemory`. What happens after a callback has damaged the driver list under its
  caller (section 2): the model stops there.
* First generation, regions: how sizes are rounded; what the new owners of memory write to a ring that
  was given away under a channel, and a send on such a ring, which divides by zero.
* First generation, hardware side (`hw/`): superseded by what is built. Its softirq ring is filled and
  drained by one thread; its buddy table is, in the words of its own comment, simplified to one block
  per order, and promises nothing about fragmentation; its drivers are a linked list of records from the
  heap (of which `FirstGenIpc` has the allocation), and power is a mode.
* First generation, files (`sw/filesystem.cpp`): a descriptor is a pointer cut to 32 bits and cast back,
  so that what a read or a close touches is undefined and no model can give it a meaning.
* First generation, services and demo: a flag and a few counters each, and a fixed sequence of calls.
* The assembly entry stub and the C runtime helpers.

No safety property of a run is left without a theorem. What could be added are properties of longer
range than those: that a restart of the software kernel keeps nothing of the life before, or that the
walk of a shutdown visits drivers in the order of the list.
