# LightWeightOS in TLA+

A verification development of the LightWeightOS kernel: TLA+ modules of its scheduler, mutexes and
semaphores, process life cycle, memory, file and device tables, FAT16 file system, terminal, screen,
keyboard, disk driver and interrupt handling, the TLC configurations that check them on small
instances, and TLAPS proofs for every instance of all safety invariants and action properties that are
checked: of the scheduler, its lists and its clock, the mutexes and semaphores with the abstractions they
implement, processes and their descriptors, memory, the file and device tables, FAT16 with its listings,
names and sector page, the terminal, the disk driver, interrupts, the keyboard and the screen.
Paths below are relative to `src/source/`.
`PROJECT.json` maps every definition to the lines it models and lists the hazards the properties are
aimed at.

## 1. The system

A single 32-bit x86 CPU runs the kernel and the programs. There is no kernel thread: a system call
runs in the kernel on behalf of the task that made it, and can be interrupted there unless it turned
interrupts off (`irq_enter_protection`). A task is switched by a hardware task switch inside
`task_dispatch`, from a system call or from an interrupt handler. That makes *who can run between
which two steps* the hard part of nearly every component.

| component | code | state | operations | uses |
|---|---|---|---|---|
| scheduler | `kernel/core/task.c`, `dev/time.c` | `ready_list`, `sleep_list`, `curr_task`, task states, slices, `sleep_ticks` | clock tick, yield, sleep, block, wake, start, exit, reap | list, irq |
| mutexes, semaphores | `kernel/ipc/` | owner, count, wait list | lock, unlock, wait, notify | scheduler |
| process life cycle, GDT | `core/task.c`, `cpu/cpu.c` | `task_table` (name, parent, state), its mutex; descriptors, `tss_sel` | fork, exit, wait | scheduler, mutex, memory, files |
| memory | `core/memory.c`, `tools/bitmap.c` | page bitmap, page directories and tables, heap ends | map, copy and destroy an address space, sbrk, execve | mutex |
| file table | `fs/file.c`, `fs/fs.c` | `file_table` with counts, descriptors of each task | open, dup, close, fork, exit | mutex, file systems |
| device table, devfs, mounts | `dev/dev.c`, `fs/devfs/devfs.c`, `fs/fs.c` | open counts, drivers' descriptors, mount list | open, close, read | drivers |
| FAT16 | `fs/fatfs/fatfs.c` | allocation table, root directory, open files, one page for sectors | open, create, truncate, read, write, seek, close, unlink, opendir, readdir | disk, `fat->mutex` |
| terminal | `dev/tty.c`, `dev/console.c` | two fifos, two semaphores, the console's mutex | keyboard interrupt, read with echo, write, drain | semaphore, mutex |
| screen | `dev/console.c`, `dev/tty.c` | escape parser, cursor, saved cursor, display memory, hardware cursor, the shown console | put a character, escape sequences, scroll, open, select | terminal |
| keyboard | `dev/kbd.c` | prefix state, shift, control and alt bits, Caps Lock | decode one byte | terminal |
| disk driver | `dev/disk.c` | `disk->mutex`, `op_sem`, the device's registers | read, write, interrupt | semaphore, mutex |
| interrupts | `cpu/irq.c`, `init/start.S` | IF, `eflags` of each task, masks and end of interrupt | enter and leave protection, handlers, exceptions, system call | scheduler |
| system call table, klib, log, boot, loader, shell, init, loop, applib | | little or none | | |

How they interact. Interrupt handlers (clock, keyboard, disk) change the scheduler's lists and notify
semaphores in the middle of whatever task runs. The file layer calls a file system under that file
system's mutex, devfs calls the device table with interrupts off, FAT16 calls the disk driver, which
waits for `op_sem` holding both mutexes. Fork and exit touch the scheduler, the task table, the GDT, the
file table and the page bitmap, each with a protection of its own, so the whole call is not atomic. The
hardware cursor and `tty_select` are touched by writers and by the keyboard interrupt alike.

What makes each component correct, and what is hard about it:

* **Scheduler.** A task is linked in exactly one list and the state, the list and `sleep_ticks` agree;
  the head of `ready_list` runs; every ready task runs, every sleeper wakes. Hard: the clock handler
  dispatches at `task.c:346` *before* it scans `sleep_list`, so the rest of the handler stays on the
  stack of the preempted task and runs when that task is switched to again, any number of ticks later.
* **Mutexes and semaphores.** Hand-over in order, no lost and no double notification.
* **Process life cycle.** No zombie without a reaper, no slot used twice, no lost wake-up between the
  scan of `sys_wait` and its block, a TSS descriptor of its own for every process. Hard: a slot and a
  descriptor are chosen under a mutex and marked used only after it is released (`task.c:98`, `:48`), and
  what marks a slot used, the name, is written by execve too (`task.c:600`).
* **Memory.** Isolation (README of the system, lines 94-97): no page in two address spaces, none free
  while mapped, also when memory runs out in the middle of a fork or an execve; a program has mapped what
  lies below its heap end. Hard: the heap end is changed before an execve has succeeded (`task.c:558`).
* **File and device table.** Counts equal the descriptors and the open files; the file system's close
  runs once, at the last one; a descriptor reaches the device its name stands for.
* **FAT16.** Chains disjoint and finite, every file holds what was written to it, no cluster is lost,
  removing a file removes that file only, a listing shows what is there, the page for sectors holds the
  sector `curr_sector` says.
* **Terminal.** No output lost, no write stuck, no key stranded.
* **Screen and keyboard.** The cursor stays on the screen and in the console's own display memory,
  the hardware cursor follows the console that is shown, a key types what is meant whatever other keys
  are down.
* **Disk.** Driver and device agree about every sector whatever interrupts were left over.
* **Interrupts.** Off exactly where the code relies on it, although sections nest, tasks are switched
  inside them and the flag is a part of each task's TSS; every request is acknowledged.

## 2. The modules

| module | models | checked by |
|---|---|---|
| `Sched` | the scheduler | run `sched`, proved in `SchedProofs` |
| `LinkedList` | the lists of `tools/list.c` with their pointers | run `sched`, proved in `SchedProofs` |
| `SchedClock` | `Sched` with a history of each sleep | run `sched`, proved in `SchedProofs` |
| `QueueLock`, `CreditSem` | what a mutex and a semaphore promise (abstract) | implemented by `Ipc`, proved in `SchedProofs` |
| `Ipc` | mutexes and semaphores on top of `Sched` | run `ipc`, proved in `SchedProofs` |
| `TaskLife` | fork, exit, wait; uses `QueueLock` for the table's mutex | runs `task_life`, `wait_lost`, proved in `TaskLifeProofs` |
| `Selectors` | GDT descriptors on top of `TaskLife` | run `task_life`, proved in `TaskLifeProofs` |
| `FileTable` | files, descriptors, counts | runs `file_table`, `close_assert`, proved in `FileProofs` |
| `Names` | path names taken apart: mount points, devfs names | run `file_table` |
| `Devices` | device table, mount list and devfs on top of `FileTable` | runs `file_table`, `close_assert`, proved in `FileProofs` |
| `Tty` | fifos and semaphores of a terminal; uses `CreditSem` and `QueueLock` | run `tty`, proved in `TtyProofs` |
| `Fat` | FAT16: table, directory, files | runs `fat`, `fat_unlink`, proved in `FatProofs` |
| `FatDir` | opendir, readdir beside the calls of `Fat` | run `fat`, proved in `FatProofs` |
| `FatNames` | 8.3 names | run `fat`, proved in `FatProofs` |
| `SectorBuffer` | the page for sectors, on a disk that may fail | run `fat`, proved in `FileProofs` |
| `Memory` | pages and address spaces | run `memory`, proved in `MemoryProofs` |
| `Disk` | the driver with an external device | run `disk`, proved in `DiskProofs` |
| `Interrupts` | protected sections, handlers and exceptions of all tasks | run `disk`, proved in `DiskProofs` |
| `Keyboard` | the decoder with an external keyboard | run `screen`, proved in `ScreenProofs` |
| `Console` | escape parser, cursor, display memory | run `screen`, proved in `ScreenProofs` |
| `Screen` | `Keyboard` and `Console`: selection from the interrupt | run `screen` |
| `MC...` | values of constants for TLC | |

Composition. `Ipc` extends `Sched`: its lock and semaphore operations *are* the scheduler's `Block` and
`Wake` with the wait list beside them, so the refinements `LocksAreQueues` and `SemsAreCredits` hold
under every interleaving the real scheduler has. The modules above use the promise instead of the
mechanism: `TaskLife` and `Tty` instantiate `QueueLock` and `CreditSem` for the mutexes and semaphores
they take. That is the assume/guarantee seam of the project, and both of its sides are proved (section 4); `Interrupts` is the seam below it, as it
shows what every other module takes for granted when it makes one step of a protected section.
`Selectors` extends `TaskLife` and conjoins its steps; `Devices` extends `FileTable` and gives its
abstract file system open and close a body; `FatDir` extends `Fat`; `Screen` joins two modules.

Modules that share a run and no state (`Sched` with `LinkedList`, `Fat` with its names and its sector page, `Disk` with
`Interrupts`, the three scenes of `Screen`) are put side by side in the MC module: the initial state
chooses which of them is explored, the others keep still.

Each module says in its header what one step is: what a task does between two points where an
interrupt may switch it out. A section under `irq_enter_protection` is one step; a mutex section is
one step only when all that it touches is touched under that mutex.

An operator with the comment *Faulty variant of X* is not part of any specification. It writes down a
plausible mistake in the code of `X` (a dropped guard, a missing reset, an off-by-one) and documents
what the property named with it in `PROJECT.json` must detect.

### State and actions against the code

* `Sched`: `ready`, `sleeping` are the two lists by `run_node`; `blocked` holds the tasks taken off
  `ready_list` by somebody else; `tail` the tasks frozen at `task.c:346`; `cursor` the position of the
  scan that is running. `TickCount`/`TickExpire` are `task_time_tick` up to its first dispatch,
  `ScanWake`, `ScanCount`, `ScanEnd` the rest of it. The other actions are the system calls as far as
  they change the lists. `Dispatch` is part of every action whose code ends in `task_dispatch`.
* `LinkedList`: `first`, `last`, `count`, `next` and `prev` are the fields; `items` is history, the sequence
  that the calls make. A call is an action.
* `SchedClock` adds `asked`, `elapsed`, `owed` (frozen handlers when the sleep began).
* `Ipc`: `owner`, `depth`, `lockq`, `count`, `semq`; one action per path of the four functions.
* `TaskLife`: `named` (is `name[0]` set), `parent`, `state`, a program counter, loop index and locals;
  the loops over the table go slot by slot. `ExecName` is the first line of execve, which may leave a live
  process without a name. `missed` and `clashed` are history.
* `Selectors`: `tss` says whose TSS each free descriptor holds, `selOf` is `tss_sel`, `local` the
  selector between `gdt_alloc_desc` and `segment_desc_set`. `reaped` and `shared` are history.
* `FileTable`: `ref`, `fds`, `opened` (the file system below), a program counter; `sys_close`'s
  decrement is a load (`CloseLoad`) and a store (`CloseStore`). `wiped` is history.
* `Devices`: `dev` is `dev_tbl` (count, and the minor of the driver's descriptor), `fs` and `devId` the
  fields of `file_t`, `want` the history of what the name stood for. Path names are sequences of
  characters and go through `BeginsWith`, `NextChild`, `PathToNum` and `Alike` of `Names`.
* `Tty`: the fifos, both semaphores as credits, the console's line, program counters per character.
* `Fat`: `next` is the allocation table, `dir` the root directory, `file` the `file_t`s; `data` is what
  each cluster was last written as; one step per round of the loops of read and write. `Alloc`, `Expand`
  and `MovePos` are `cluster_alloc_free`, `expand_file` and `move_file_pos`, as functions of the table.
  `FatDir`: `index` is `DIR.index`; `listed` (how often a name was shown) and `steady` (the names that
  could be opened all the while) are history. `FatNames`: `ToSfn`, `GetName` are functions of `path`, the
  loops of `to_sfn` and `diritem_get_name` with one character per round (`Put`, `Show`). `SectorBuffer`: `disk` and `buffer` hold the kind and version of a sector,
  `curr` is `curr_sector`; one action per function that moves a sector, with the ways each may fail.
* `Memory`: the bitmap and the tables in memory (`mem`), and per task its directory, stack, heap end
  and where its fork, execve, sbrk or wait is. A page mapped, with the table it needs, or a page freed is a
  step. `MapPage` is the loop of `memory_alloc_for_page_dir`, which sbrk and the two mappings of execve
  share; `LoadEnd` changes the heap end as `load_elf_file` does, while the old program is still the one
  that runs, and `LoadFails` leaves it so. `own` is history: the heap end is that of the program.
* `Disk`: per task the phase of its request, the device's status and sectors left, the pending edge,
  `op_sem`. `Ready` and `Failed` are the device, external.
* `Interrupts`: `iflag` is IF, `eflags` the flag in each task's TSS, `stack` the frames of handlers,
  exceptions and protected sections; `raised`, `service` the controllers. `Dispatch` may
  happen wherever the kernel calls `task_dispatch` and swaps the flag as the far jump to a TSS does.
* `Keyboard`: `recv` is `recv_state`, `pressed` and `caps` the bits of `kbd_stat`; `queue`, `held` and
  `odd` are the keyboard, external; `event` is what the handler called, `meant` what it should have.
* `Console`: `con` is `console_buf` (state, parameters, cursor, saved cursor), `mem` the display memory,
  `hw` the hardware cursor; `WriteChar` puts one character, the hardware cursor is set in four steps
  (`IsShown`, `ComputeRow`, `ComputeCol`, `OutputPos`). Console 0 begins where the BIOS left the cursor. `wild` is set when a digit is stored behind the parameters.

## 3. What each run checks

| run | instance | properties | what it shows |
|---|---|---|---|
| `sched` | 3 tasks, slice 2, sleeps up to 2 ticks; 4 nodes in 2 lists | `CurrIsHead` `OnePlace` `StateAgrees` `SleepAccounting` `PointersSpellItems` `EveryTaskRuns` | the lists stay consistent although handlers are frozen and resumed; each interrupt decrements each sleeper exactly once; nobody starves or oversleeps for ever; pointers spell the sequence the calls made |
| `ipc` | 3 tasks, a mutex taken up to 2 deep, a semaphore with count up to 1, slice 1 | `BlockedIsQueued` `LocksAreQueues` `SemsAreCredits` `LockGranted` | both implement their abstraction; a waiter gets the mutex |
| `task_life` | first task and 3 slots, one of them renaming its process, 3 free descriptors | `ParentAlive` `BlockedOnlyIfMissed` `ClashedOnlyIfUnnamed` `DescriptorsExact` `CallsEnd` | no orphans, no strangers, one single way to lose the wake-up, two ways for a fork to be given a slot that is not free; a TSS of its own for every process but for one window; descriptors are lost by reaping only |
| `file_table` | 2 tasks, 2 files, 2 descriptors each, 2 terminals, 4 device entries, names of every kind | `RefExact` `CountsExact` `ReachesOwnDevice` | counts of descriptors and of open files come out even through failing opens, dup, fork and exit, and every file is at the device its name stands for |
| `tty` | 1 writer, 2 echoing readers, input fifo 1, output fifo 4 | `RoomConserved` `InputMatched` `WritesEnd` | output room is conserved, so no output is dropped; keys are not stranded and spare units stay bounded; a newline's second unit comes |
| `fat` | 2 names, 2 handles, 3 clusters of 2 units, 3 entries with a label and a deleted one; names of 2 + 2 characters | `ChainsDisjoint` `PosMatches` `ContentIntact` `ListingComplete` `ListedNameOpens` `BufferCoherent` `LostOnlyByRelink` | two open files on a disk that can fill up; where clusters get lost; a listing beside creations and removals; what a listing shows opens its file; the sector page on a failing disk |
| `memory` | 3 tasks, machines of 11 and 20 pages, tables of 2 entries, programs of 1 or 3 half pages | `OwnedOnce` `HeapMapped` `CopyComplete` `LostOnlyByFork` | isolation also when memory runs out in the middle; a program whose heap end is its own has what it may use |
| `disk` | 2 tasks, up to 3 sectors; 2 tasks and the idle task, frames 3 deep | `InStep` `SectionsClosed` `RequestsEnd` `TicksHandled` | a surplus interrupt does no harm, errors end a request; interrupts are off where the code relies on it and no tick is lost for ever |
| `screen` | a board of 16 keys, 3 held at once; 2 consoles of 2 x 2, 12 texts, 1 or 2 writers, any cursor at boot | `KeysAsPressed` `CursorOnScreen` `CursorFollows` `OwnDisplay` | keys are decoded as meant; cursor and memory of each console are its own unless sequences of two writers mix |
| `wait_lost` | first task and 2 slots | `WaitReturns` (violated) | finding 1 |
| `close_assert` | as `file_table`, overlapping closes | `CloseAssert` (violated) | finding 2 |
| `fat_unlink` | 3 entries, 2 clusters | `UnlinkKeepsOthers` (violated) | finding 3 |

Bounds and why they are enough.

* *Scheduler*: with three tasks one can be frozen in the handler, one run and one sleep or wait; with a
  slice of 2 both paths of the tick are taken; sleeps of 2 ticks make a scan that counts and one that
  wakes differ; four nodes give a list with a first, a last and two inner nodes while
  the other is empty; the proofs cover every number.
* *Ipc*: three tasks give an owner and two ordered waiters; one mutex, because two taken in opposite
  orders can simply deadlock, which no code forbids.
* *TaskLife, Selectors*: three slots are needed for a descriptor that two forks share without sharing a
  slot; two slots for parent, child and grandchild and for a slot that is reused. `Renames` is the set of
  slots whose processes call execve: one is enough for a name that goes and comes back beside forks; the
  proofs cover any set.
* *FileTable, Devices*: two tasks with two descriptors each share up to four references; both a full file
  table and full descriptors occur. Two terminals and the disk leave one device entry free; names lead to
  either terminal, to a prefix of the type name, to an unknown device, to the mount point itself, to
  FAT16 and to no mount point.
* *Tty*: the input fifo of 1 is full after one key; output 4 is the smallest size larger than the number
  of tasks (as 512 is larger than `TASK_NR` 128), and two echoes of a newline fill it.
* *Fat*: files of up to two clusters of two units cover the positions inside, at the end of and across
  clusters; three clusters for two files run out. Names of up to six characters over two letters and the
  dot are longer than the 2 + 2 of an entry. One sector of table, one of directory and two of data tell
  every pair of kinds apart.
* *Memory*: a fork takes 5 pages and an execve 5 more. On a machine of 11 pages, explored completely,
  memory runs out in every call and in the middle of two of them. On one of 20 pages an execve, the
  growth of its heap and the fork of such a process succeed, which is where `HeapMapped` and
  `CopyComplete` have something to say; there the constraint `Bounded` of `MCMemory` takes the calls one
  after the other, two forks in all, one execve for each child and a second for an only child (which is
  what it takes to fail behind the assignment of the heap end), and stops at the end of the call that
  finds no memory. Programs of one and of three half pages give a heap end that goes down and one that
  goes up.
* *Disk*: three sectors give a first, a middle and a last one. *Interrupts*: three frames are a handler
  in a system call with a section inside it; each handler may open one section, so both orders of section
  and switch occur.
* *Keyboard*: two bytes wait while fingers move, so a byte is decoded after its key changed again.
* *Console*: a 2 x 2 screen wraps, scrolls and moves back over a line start within three texts; one writer
  puts three texts from the first position or two from any other, two writers put one each; the texts
  hold each kind of control character and sequence, and parts of one that only mixing completes.

`MaxRef`, `MaxDepth`, `Calls`, `MaxCount`, `MaxSleep`, `MaxSize`, `MaxChunk`, `MaxPath`, `MaxIncr`, `MaxSectors`, `MaxQueue`
and `Big` bound inputs and counters and are named in the modules.

Symmetry is used in `file_table`, `fat*` and `memory`, which check no liveness. Deadlock is checked
everywhere except in `task_life` and `wait_lost` (the model stops when a fork is given a
slot that is not free, and a lost wake-up may leave everyone waiting), `memory` (a failed
assertion stops the kernel, and all tasks may be broken) and `screen` (the model stops at `wild`, and the texts end).

Fairness. `Sched` assumes only that the timer goes on interrupting and a handler that runs goes on
(weak fairness of the handler), nothing of programs. `Ipc` adds that an owner that gets the CPU again
and again releases its mutex (kernel sections terminate) and that somebody goes on notifying the
semaphore, at which an owner may be waiting. `TaskLife`, `Selectors`, `Tty` and `Disk` assume that a task
whose step is enabled takes it, which is `EveryTaskRuns` of `Sched`, and that the mutex is granted, which
is `LockGranted` of `Ipc`; `Disk` also that the device answers. `Interrupts` assumes only that the
processor goes on: it takes a pending interrupt or executes the next instruction. Its `TicksHandled` is
in turn what `Sched` takes for granted of the timer. Programs never have to call anything.

### Findings

1. **A lost wake-up in wait** (`task.c:271`). `sys_wait` scans under the mutex, releases it, and only
   then turns interrupts off and marks itself `TASK_WAITING`. A child that exits in between wakes
   nobody. `BlockedOnlyIfMissed` shows that this window is the only way.
2. **A slot reused while it is closed** (`fs.c:208`). The count is taken to 0 before the file system's
   close and `file_free` (`fs.c:214`), and a slot with count 0 is free to `file_alloc`. In the trace one task
   closes its only descriptor; in the middle an open of another task is given the slot; the first frees
   it; the close of the second trips the assertion at `fs.c:206`. No descriptor is shared between the two.
   (Overlapping closes of one inherited file can only lose a decrement, after which the count is too
   high.) The run `file_table` therefore assumes `ClosesAlone`: no file call of another task overlaps a
   close.
3. **Unlink hides other files** (`fatfs.c:687-689`). The zeroed entry is the end mark of the directory.

Further behaviour met while modelling, in the models and mostly listed as hazards, without a run of its
own.

* Lists: `sys_wait` clears a reaped `task_t` with the `all_node` that `task_init` linked into `task_list`
  (`task.c:265`, `:115`), and the slot's next process links it again: from then on that list is broken,
  which goes unnoticed because nothing reads it. It is not in `LinkedList`.
* Processes: `alloc_task` tells a free slot by its empty name (`task.c:398`). `ClashedOnlyIfUnnamed` shows the
  two ways in which a slot that is not free is given out: two forks scan one after the other before either
  writes the name of its child (`task.c:98`), and build one process; or a process lost its name, as execve
  writes the name first, outside the mutex, and keeps it when it fails (`task.c:600`; the name of a path that
  ends with a slash is empty), and the next fork builds over it. Two forks given one descriptor (`cpu.c:37`, `shared`); a selector lost with every process that is reaped, so that the GDT runs out
  after some 250 processes and a child starts with `tss_sel` 0; sleeps that end early by the handlers
  frozen when they began (`task.c:346`; `SleepAccounting` gives the exact amount).
* Memory: the child of a fork has heap end 0 (`task.c:103`); its first sbrk maps user page 0, which is
  mapped, and the assertion at `memory.c:85` stops the kernel. An execve that fails behind the assignment of
  `load_elf_file` (`task.c:558-559`) leaves the old program the heap end of the new one: its next sbrk maps
  pages that are mapped, with the same end, or leaves a gap. `HeapMapped` is about every other program, and
  says that nobody else gets to that assertion. A page directory lost on every fork and a child started although the copy failed
  (`task.c:468`); an execve that goes on without memory (`memory.c:169`).
* Files and devices: an open on a full file table that may clear an arbitrary descriptor (`fs.c:83-84`,
  `:125`); `/develop` goes to devfs (`path_begin_with` compares a prefix); `/dev/tty` or a prefix of it
  leaves `minor` uninitialised; an unknown device opens successfully with device number 0
  (`devfs.c:49`). `dev_write` returns a short count on an error, which `fatfs_write` (line 519) takes for
  success.
* FAT16: a size raised although the disk is full (`fatfs.c:549`); clusters lost by relinking
  (`fatfs.c:293`, the exemption in `LostOnlyByRelink`); a file hidden by an unlink can be created anew, and
  the directory has two entries of its name; a full 8.3 name is shown without a terminator
  (`fatfs.c:98`); a partial write of a cluster that could not be read writes whatever the page held
  (`passed`), because `dev_read` returns 0 and only negative results are noticed.
* Keyboard and screen: Shift+S types `B` (the map table's entry 0x1F); function keys act on the make and
  on the break; keys without a character, Pause among them, type NUL; two writers whose escape sequences
  mix can put the cursor off the screen or store a digit behind `esc_param` (`console.c:262`, `wild`);
  opening the shown terminal again leaves the hardware cursor where it was.
* Interrupts: an exception in the kernel, such as one through a bad pointer passed to a system call,
  stops the machine with interrupts off (`halted`).

## 4. What is proved

Eight modules hold proofs, one per group of components. The invariant of a module is a conjunction of
named parts; the theorem that a step preserves it has one step per action. Everything is proved for
every value of the constants under the named assumptions of the modules, which say: sizes are positive
numbers, sets of tasks, slots and descriptors are finite where something is counted in them, null
pointers are no objects.

### Scheduler, lists and clock (`SchedProofs`)

With `TaskAssumption` (`First` is a task, the idle task is not in the table) and `SliceAssumption`
(both bounds are positive), `Spec` of `Sched` implies

* `SpecTypeOK`: the types; in particular `slice_ticks` is never 0 between handlers,
* `SpecCurrIsHead`: the head of `ready_list` runs, or the idle task when the list is empty,
* `SpecOnePlace`: no task is linked twice, no live task is in no list,
* `SpecStateAgrees`: state, list and `sleep_ticks` agree,
* `SpecTailsAreReady`: a task frozen in the clock handler is ready to go on with it.

None of the five is inductive alone. Unlinking the running task is harmless only if it is in
`ready_list` (`CurrIsHead`) and there once (`OnePlace`); a wake-up does not duplicate a task only if the
woken one is in `blocked` or `sleeping` and nowhere else (`OnePlace`), which Exit needs through
`StateAgrees` because it chooses whom to wake by state; `CurrIsHead` after a resumed scan needs to know
that only the idle task can be running while others are ready (`TailsAreReady`). The conjunction `IInv`
of the five is inductive: `NextInv` has one step per action of `Next`, on top of lemmas about the two
list operators (`Unlink` and `Enqueue` on injective sequences) and about `Dispatch`, which nearly all
actions share.

`SpecSleepAccounting`: `ClockSpec` implies `SleepAccounting`, that every interrupt counts once for every
sleeper. The invariant `ClockInv` joins it to the types and `IInv`: the scans that have still to come to a
sleeper, each frozen one and the one under way if the sleeper is ahead of its cursor, are counted one by
one through every dispatch, which freezes one and may resume another. `OnePlace` and `TailsAreReady` say
that a sleeper is linked once and that only tasks of the ready list are frozen, so that they can be counted.

`ListsAreSequences`: for every set of nodes and of lists (`NullAssumption`: a null pointer is no node),
`ListSpec` implies `PointersSpellItems`, a list read by its pointers from either end is the sequence its
calls made, and its count is the length. This is what lets `Sched` and `Ipc` write sequences; `OnePlace`
of `Sched` in turn is the condition under which the operations are called. The invariant needs
`NodesOnce`, that no node is in two places, so that the pointers written for one list are of no other.

The run `sched` checks `PointersSpellItems`, `CurrIsHead`, `OnePlace`, `StateAgrees` and
`SleepAccounting` on its instance; the types and `TailsAreReady` support the proof.

### Mutexes and semaphores (`SchedProofs`)

`IpcInv` is `IInv` of the scheduler, the types, and `Partitioned`: the wait lists hold the parked tasks,
each once. It is needed because a hand-over wakes the head of a wait list, which keeps `OnePlace` of the
scheduler only if that task is blocked; that it is one is `BlockedIsQueued` (`SpecBlockedIsQueued`, with
the types in `IpcSpecTypeOK`). The proof goes through every action of `Sched` once more, now beside the
wait lists.

`SpecLocksAreQueues` and `SpecSemsAreCredits` are the two refinements: under every interleaving of the
scheduler a mutex is a `QueueLock` and a semaphore a `CreditSem`. Initial states map to initial states;
`lock` maps to a request, `unlock` to a hand-over or a release, a nested `lock` and every step of the
scheduler to a stutter, and so on for each path of the four functions. `TaskLifeProofs` and `TtyProofs` start from the two
abstractions, so these theorems close the assume/guarantee seam of section 2.

### Process life cycle (`TaskLifeProofs`)

With `SlotAssumption` (there is a slot), for any set of renaming slots and until a fork is given a slot
that is not free, `SpecParentAlive`: every process has a living parent; and
`SpecBlockedOnlyIfMissed`: a task blocked in `sys_wait` beside a zombie child missed the wake-up in the
one window there is, or is being woken. `LifeInv` adds that state, place and loop index agree
(`Whereabouts`), which slot a fork builds its child in and that two forks share one only after a clash
(`Slots`), that the parent of a slot that is still being built is alive too (`Family`), that an exiting task
has given away the children its loop has passed (`Adopted`), and that a zombie a waiting parent has passed,
or can no longer see, was missed (`Looked`). The last is the heart: the scan goes slot by slot while forks
fill slots and children exit before it or behind it.

`SpecClashedOnlyIfUnnamed` says how that clash comes about: two forks that chose a slot before either named it,
or a process without a name. Besides `LifeInv` it needs that a child under construction has a name if its
parent has one (`Named`), so that a slot named by another fork is passed unless that fork's own name is gone.

`SpecDescriptorsExact`, for any number of slots and descriptors (`SelAssumption`): every descriptor that
two forks did not meet over in the window of `gdt_alloc_desc` belongs to one process, and no more are lost than
processes were reaped. `SelInv` is `LifeInv` with which descriptor a fork has in hand (`InHand`), that one
that was not returned twice has one owner, a process or such a fork (`OneOwner`), that it holds the TSS
of that owner's slot (`PointsHome`), that only a process, or a child whose fork is about to start it, has a selector that could
be overwritten (`NoneInFree`, until a fork is given a slot that is not free), and the count of the lost (`LostByReaping`).

### Memory (`MemoryProofs`)

With `MemoryAssumption` (a table has two entries or more, a program fits below the stack), for any set of
tasks and any sizes of memory: `SpecOwnedOnce`, no page is held twice and none is free while it is held;
`SpecHeapMapped`, a program whose heap end is its own has no page mapped behind it but the stack and, until
memory runs out, every page up to it, in the middle of an sbrk, a fork or an execve too, and nobody but a
task whose heap end is another program's can stop the kernel with an sbrk; and the action properties
`SpecCopyComplete`, a child starts with what its parent has mapped, and `SpecLostOnlyByFork`, pages get lost
in two ways only.

`OwnedOnce` speaks of pages, the code of directories: which of them a task holds depends on the call it is
in. `MemInv` (`Sound`) therefore gives every task three roots, its kernel stack, its directory and the one
it builds or destroys, with the place from where on the directory still holds what it leads to, as
`memory_destory_uvm` frees place by place. What a root holds is a tree and in use (`Trees`), what
two roots hold is disjoint (`Apart`); `Shape` says which roots a phase has and that a call works on the
child it claimed; `Blank`, that the directory a child was given by `task_init` is empty, so that
overwriting it loses one page and not more. `Maps` says what is mapped in each phase: in the running
program what it may use (`MayUse`), in a directory that execve fills what was mapped so far (`Built`), in
a copy what was passed, which is what a fork needs in order to end with a complete copy. `Rounds` says
that the rounds left of a mapping end where sbrk, the load or the stack should, so that no round maps a
page twice; `Stopped`, that the kernel stops only where the heap end is not the program's own.

Each action is an ownership step: a root stays, hands its pages to another root, grows by pages that were
free, or gives pages back. `Goes` adds to `Sound` in the next state that a page of any root is afterwards
free, of some root, or in one of the two leaks (`Spares`); `SpecLostOnlyByFork` follows.

### Files and devices (`FileProofs`)

The theorems about calls have `ClosesAlone` as their hypothesis (finding 2 shows what happens without):
`SpecRefExact`, the count of a file is the number of its descriptors and of the calls that hold it.
`FileInv` balances, for every file and at every moment of every call, the count against the descriptors,
those a failed open cleared, and what the calls in flight owe or lack (`Balanced`), for any finite set of
tasks. The balance alone is not inductive: a call relies on the file and descriptor it has in hand
(`Locals`), a fork copies descriptor by descriptor into a table that is nobody's yet (`Forks`), a file
that is not open is in no table but where a call is about to complete or clear it (`OpenHeld`), and
whoever tells the file system to close holds the last descriptor (`LastCloser`).

`SpecCountsExact` and `SpecReachesOwnDevice` follow from `DevInv`, which is `FileInv` with: an open file is
counted, so that `file_alloc` hands out closed ones only (`OpenedCounted`); the file of an open under way
is as `file_alloc` cleared it (`Cleared`); a task in a driver holds a descriptor of its file (`InDriver`);
an entry counts the open files that refer to it and the kernel (`Counted`); an open file is at a device
its name stands for (`Arrived`). `DevAssumption` has more entries than devices (128 against 8 terminals
and a disk), so a free entry is found for every new device, a pigeonhole argument (`FreeBehind`). They have a second
hypothesis, `NamesAgree`: the helpers of `Names` find what a name stands for. What these folds compute for every
string is induction over data; for the names of the run TLC evaluates it (`NamesFound` of `MCDevices`).

`SpecBufferCoherent`, with `BufAssumption` and for a disk of any size: the page of FAT16 holds the sector
that `curr_sector` names, whichever transfers fail, and no table or directory sector gets the contents of
a file. It needs only the types; what carries it is the order in which `curr_sector` is invalidated.

### FAT16 (`FatProofs`)

With `FatAssumption` (sizes are positive; the entries another system left fit the directory), for any table,
directory, names and files: `SpecChainsDisjoint`, `SpecPosMatches`, `SpecContentIntact` (until an allocation
fails), the action property `SpecLostOnlyByRelink`, and `SpecListingComplete` beside them all.

The directory on the disk is stale while a file is written, so `FatInv` speaks of `Items`: the start and
size every entry has now, of its writer or else of the entry. A chain of any length is no object of a
first-order proof, and need not be: in `Trees` nothing points at a start, no two items have one start and
no two clusters point at the same one, from which it follows by induction that chains never meet, end,
and are changed only where the table is. `Parts`: every part below a size has a cluster last written as
that part of that name. `FilesFit` ties each open file to its item and its cluster to its position, also in
the middle of a call; `CallFits` says what a call under way may still move; `AtEnd`, that a writer is at the end, as
long as no allocation failed. TLC checked the invariant on the instance of `fat` before it was proved. For lost clusters, each step
keeps what was reached from a start or frees it (`NoLoss`), but for a write that links anew where the
chain goes on.

`SpecListingComplete`: `DirInv` joins to `FatInv` that a name that was to be seen all the while was shown as
often as its entries were passed (`Told`). It rests on entries staying where they are: what is created or
removed meanwhile touches no entry of such a name.

`SpecListedNameOpens`, with `NamesAssumption` (no name has a blank): by induction over the characters, an
entry `to_sfn` made has base and extension packed to the left, however the dots were set (`Packed`,
`Halfway`); `diritem_get_name` spells the two with a dot between them or the base alone (`Spells`); and `to_sfn` puts each
part of that back (`Part`), the surplus character of a full name having no place left.

### Terminal (`TtyProofs`)

With `TtyAssumption` (the output fifo is larger than the number of tasks, as 512 is than 128):
`SpecRoomConserved`, units of `osem`, characters in the fifo and claims of writers add up to its size;
`SpecInputMatched`, no key is stranded; and the action property `PutsFindRoom`: a writer that passed the
semaphore finds room, so `tty_fifo_put` never fails there and no output is dropped, which is what the
conservation is for. `TtyInv` states both balances with the credits of `CreditSem`, negative while tasks
wait, and adds the wait lists (`WaitLists`): only tasks that called `sem_wait`, each once, and as many as the
credit is below zero. The number of waiters must be known because a unit given to a waiter does not
show in the count.

### Disk and interrupts (`DiskProofs`)

`SpecInStep`, with `DiskAssumption`: driver and device agree about every sector. `DiskInv`: the holder of
the mutex is the only task inside a request (`OneHolder`), the device works on what that task asked
(`Asked`, `Agreed`) and has nothing left to announce otherwise (`AtRest`), and at most one interrupt is
remembered besides the one that is awaited (`Credits`). The action property `PortWhenAsked` follows: the data port is read
or written only while the device asks for it.

`SpecSectionsClosed`, with `InterruptAssumption`: interrupts are off exactly where the code relies on it.
`IntInv`: only the outermost frame of a task's protected sections restores an enabled flag
(`OutermostRestores`), IF is set exactly outside all frames of the running task, a task that is switched
out has the flag in its TSS off exactly if it is in a frame (`FlagsSaved`), a handler that has not
acknowledged is on top of the running task's stack (`EntryOnTop`) and its request is the only one in
service (`ServiceOfEntry`). The action property `HandlersBeginOutside` is what the other modules take from it: a handler never
begins inside a protected section of the task it interrupts.

### Keyboard and screen (`ScreenProofs`)

`SpecKeysAsPressed`, for any board of keys that are not the reserved value `NoKey` (the hypothesis of
the theorem) and any number of bytes waiting: every character is the one the keys that were down stand for. The
invariant `KbdInv` speaks of the bytes still in the queue: read from the decoder's current state they lead
to the state that fits the keys now down (`Reads`, a path through the decoder's states, one per byte).

`SpecCursorFollows`, for any consoles, writers and texts: with no write under way the hardware cursor is
that of the shown console, but for an overtaken writer or a terminal opened anew. In `CurInv` a writer past
its look at the shown console that was not overtaken holds the position of that console (`Positions`), and
the hardware cursor follows unless a writer of the shown console has still to look or to set it (`Cursor`).

`SpecCursorOnScreen` and the action property `SpecOwnDisplay`, with `ConsoleAssumption`: unless the sequences
of two writers mixed, the cursor and the saved cursor are on the screen, and a step on one console changes no
other console's cells. Their hypothesis is `AddressingTexts`: each text, read from outside a sequence, addresses the screen
only and ends outside a sequence. Programs that ask for a row the screen does not have are their own fault;
the texts of the run fulfil it, which TLC evaluates (`TextsAddress` of `MCScreen`). `TextInv` says of every writer in
the middle of a text that what is left of it completes the sequence the parser is in (`Midway`, `Completes`), and of every
console that was not mixed that its cursors and parameters are in their ranges and an unfinished sequence
is that of a writer still at work there (`SoundConsole`).

### What is only model-checked, and why

* Liveness under fairness, out of the prover's reach: `EveryTaskRuns`, `LockGranted`, `CallsEnd`,
  `WritesEnd`, `RequestsEnd`, `TicksHandled`.
* What the helpers of `Names` find in a string is a hypothesis of two theorems (`NamesAgree`), which TLC
  evaluates for the names of the run (`NamesFound` of `MCDevices`): they are folds, which the provers do not see through.
* The three violations are counterexamples of an instance and need no proof.

## 5. Assumptions of the models

* `Sched`: `msleep` keeps a sleep of 0 ticks out; the first task never exits (`init` does not).
* `Ipc`: tasks do not yield, sleep, wait or exit while they hold a mutex, as no path in the kernel does.
* `TaskLife`, `Selectors`: stop after a fork was given a slot that is not free (`ClashedOnlyIfUnnamed`), or when a process without a TSS of its own could
  be switched to; the table and the ready list are broken from then on.
* `FileTable`, `Devices`: `ClosesAlone` in the passing run, see finding 2. The file system's open may
  fail. The kernel log holds terminal 0 and FAT16 the disk from boot on; terminal numbers in names are in
  range (`tty_open` only logs another one).
* `Fat`: a file that is being written is open once (the code keeps a private copy of size and start per
  `file_t` and no lock between them); files are written through `O_TRUNC` or newly created, as the code
  itself demands at `fatfs.c:548`; a file that is open is not removed; the disk does not fail.
  `SectorBuffer`, on the other hand, lets every transfer fail and abstracts the files.
* `FatNames`: names are compared in one case; the byte behind a full name may be anything. Names have no
  blank (`NamesAssumption`): the shell takes its line apart at blanks (`shell/main.c:366`), and a name with
  one would be shown without it.
* `Memory`: a program is one segment at the first user page and fits below the stack, of whose 500 pages
  one is left; contents of pages are abstracted; the races on the task table are in `TaskLife`, here a
  slot is claimed in one step. A page and the table it needs are allocated in one step, although
  `addr_alloc_page` releases its mutex between the two. `memory_create_map` has no return statement
  on success while its callers test the result with `err < 0`; compiled with `-O0` (`CMakeLists.txt:20`)
  the result is what `eax` holds, the loop count, so it is taken for success.
* `Tty`: the terminal is open; one terminal; the flags are those `tty_open` sets.
* `Console`: row and column of the hardware cursor are read one after the other, unprotected; a look
  in the middle of putting a character is a look before it, and that writer is then `late`.
  Characters come out of the fifo in the order in which they went in (`Tty`), so putting one
  and acting on it is one step; what is stored behind `esc_param` is unknown and ends the exploration.
* `Keyboard`: the keyboard sends scan codes of set 1; two keys stand for those with a table entry.
* `Disk`: the device takes the first sector of a write as soon as it has the command (the code does not
  poll before it); before the first task runs interrupts are off.
* `Interrupts`: no spurious interrupt (line 7 or 15 of the controllers); a handler and an exception open
  at most `Calls` sections.

Not modelled:

* boot, loader and the identify command: straight-line set-up before any concurrency, its results are
  the `Init` of the modules;
* the programs and `applib`: the modules let programs make any call their interface allows;
* formatting, the log and `klib`'s copying, whose effect is the data types of the models
  (`kernel_strncpy` loses the last character of a string of length size - 1, and writes one byte past the
  buffer for a longer one);
  of the name of a task only whether it is empty is modelled, as `alloc_task` asks for it;
* the bit layout of descriptors, the table and the registers of a system call, `fstat`, `isatty`,
  `getpid`, the colours on the screen beyond the parser's two fields;
* unmount (no caller), `tty_control`, the tests of the boot record in `fatfs_mount`, partition tables;
* bitmap calls for more than one page, programs of
  several segments.

## 6. Plan

The order was: the scheduler first, because all other atomicity rests on it, then what is built on it.

1. *Done*: `Sched`, `SchedClock`, `Ipc` with its two abstractions, `TaskLife`, `FileTable`, `Tty`,
   `Fat`, `Memory`, `Disk`; the invariants of `Sched` proved.
2. *Done*: `Devices` and `Names`, `Selectors`, `FatDir`, `FatNames`, `SectorBuffer`, `Keyboard`, `Console`,
   `Screen`, `Interrupts`, `LinkedList`, each joined to the run of its neighbour; `LinkedList` proved.
3. *Done*: all safety invariants and action properties of the runs proved, with the two refinements of `Ipc`. Proving
   changed the models in three places. A listing counts every time it shows a name, where it used to stop at
   two, since a name may have several entries (finding 3). `PosMatches` and `ContentIntact` hold of every open file, in
   the middle of a call too. The loops of 8.3 names are recursive functions, one character a round.
4. *Deepen.* Several segments in `Memory`;
   replace the weakest properties by stronger ones, revisit each bound and each assumption in section 5,
   and compose `TaskLife` with `Memory` at the task table.
